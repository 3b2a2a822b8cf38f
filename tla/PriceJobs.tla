----------------------------- MODULE PriceJobs -----------------------------
(***************************************************************************)
(* The two hourly jobs that keep a platform's token list and prices, both  *)
(* whole documents in Redis that a job reads, changes and writes back:     *)
(* listTokensJob renews the list and keeps each coin's `last_updated`;     *)
(* refreshPricesJob asks CoinGecko for the coins priced longest ago,       *)
(* merges the answer into the prices and stamps the coins in the list.     *)
(* Both fire on the hour, so their steps interleave.  A stamp is the       *)
(* number of the refresh that set it, 0 for null; a price is the number of *)
(* the refresh whose answer had it, 0 for undefined.                       *)
(***************************************************************************)
EXTENDS Integers, FiniteSets

CONSTANTS
  Coins,        \* coins CoinGecko may list for the platform
  Listings,     \* the sets of them it may answer with
  Answers,      \* the sets of them it may have prices for
  Batch,        \* COINGECKO_RATE_LIMIT
  Life,         \* longTermTtl, in hours
  MaxStamps,    \* bound on refreshes that get an answer
  MaxFaults     \* bound on Redis errors and killed jobs, together

ASSUME CoinsAssumption  == IsFiniteSet(Coins) /\ Listings \subseteq SUBSET Coins /\ Answers \subseteq SUBSET Coins
ASSUME BoundsAssumption == {Batch, Life} \subseteq Nat \ {0} /\ {MaxStamps, MaxFaults} \subseteq Nat

VARIABLES
  list, prices,   \* the documents: [ttl, of], of coins to stamps, and to entries
  stamp,          \* refreshes answered so far
  pc,             \* per job: its place
  tokens,         \* per job: its copy of the list
  batch, merged,  \* the refresh: coins asked for, new entries
  faults,
  vain,           \* history: coins whose prices expired, or were lost to Redis
  waits           \* history: per coin, refreshes saved since its own

jobVars == <<pc, tokens, batch, merged>>
vars == <<list, prices, stamp, jobVars, faults, vain, waits>>

Jobs   == {"list", "refresh"}
Places == {"idle", "getList", "fetch", "existing", "saveFetched", "getPrices", "ask",
           "savePrices", "saveList"}
Stamps  == 0..MaxStamps
Stamped == UNION {[some -> Stamps] : some \in SUBSET Coins}
Copies  == [ttl : 0..Life, of : Stamped]
Entries == UNION {[some -> [at : Stamps, price : Stamps]] : some \in SUBSET Coins}
NoCoins == [c \in {} |-> 0]
Missing == [ttl |-> 0, of |-> NoCoins]

TypeOK ==
  /\ list \in Copies /\ prices \in [ttl : 0..Life, of : Entries]
  /\ stamp \in Stamps
  /\ pc \in [Jobs -> Places] /\ pc["list"] \notin {"getList", "getPrices", "ask", "savePrices", "saveList"}
  /\ tokens \in [Jobs -> Stamped]
  /\ batch \subseteq DOMAIN tokens["refresh"] /\ Cardinality(batch) <= Batch
  /\ merged \in Entries
  /\ faults \in 0..MaxFaults
  /\ vain \subseteq Coins
  /\ waits \in [Coins -> Nat]

Init ==
  /\ list = Missing /\ prices = Missing
  /\ stamp = 0
  /\ pc = [j \in Jobs |-> "idle"]
  /\ tokens = [j \in Jobs |-> NoCoins]
  /\ batch = {} /\ merged = NoCoins
  /\ faults = 0 /\ vain = {}
  /\ waits = [c \in Coins |-> 0]

-----------------------------------------------------------------------------
Go(j, place) == pc' = [pc EXCEPT ![j] = place]

Error == faults < MaxFaults /\ faults' = faults + 1

(* The job is over; what it held is forgotten.                             *)
End(j) ==
  /\ Go(j, "idle")
  /\ tokens' = [tokens EXCEPT ![j] = NoCoins]
  /\ IF j = "refresh" THEN batch' = {} /\ merged' = NoCoins
                      ELSE UNCHANGED <<batch, merged>>

Start(j) ==
  /\ pc[j] = "idle"
  /\ Go(j, IF j = "list" THEN "fetch" ELSE "getList")
  /\ UNCHANGED <<list, prices, stamp, tokens, batch, merged,
                 faults, vain, waits>>

(* listTokens: the coins of the platform, without stamps yet.              *)
FetchTokens(j) ==
  /\ pc[j] = "fetch"
  /\ \/ /\ \E listing \in Listings : tokens' = [tokens EXCEPT ![j] = [c \in listing |-> 0]]
        /\ Go(j, "existing")
        /\ UNCHANGED <<batch, merged>>
     \/ End(j)
  /\ UNCHANGED <<list, prices, stamp, faults, vain, waits>>

(* prepareTokens: a coin the list knows keeps its stamp.  A read that fails *)
(* is a list that is missing, and the refresh that goes on without stamps  *)
(* upsets the rotation.                                                    *)
PrepareTokens(j) ==
  /\ pc[j] = "existing"
  /\ \E known \in {list.of, NoCoins} :
       /\ \/ known = list.of /\ UNCHANGED <<faults, waits>>
          \/ /\ known = NoCoins /\ Error
             /\ waits' = IF j = "refresh" THEN [c \in Coins |-> 0] ELSE waits
       /\ tokens' = [tokens EXCEPT ![j] =
            [c \in DOMAIN @ |-> IF c \in DOMAIN known THEN known[c] ELSE 0]]
  /\ Go(j, "saveFetched")
  /\ UNCHANGED <<list, prices, stamp, batch, merged, vain>>

(* A new coin, or a stamp undone, upsets the rotation.                     *)
Upsets(copy) ==
  \/ list.ttl = 0
  \/ DOMAIN copy \ DOMAIN list.of # {}
  \/ \E c \in DOMAIN copy \intersect DOMAIN list.of : copy[c] < list.of[c]

(* saveTokensList; a write that fails is only logged.                      *)
SaveTokensList(j, asked) ==
  \/ /\ list' = [ttl |-> Life, of |-> tokens[j]]
     /\ waits' = [c \in Coins |->
          IF Upsets(tokens[j]) \/ c \in asked \/ c \notin DOMAIN tokens[j] THEN 0
          ELSE IF asked # {} THEN waits[c] + 1 ELSE waits[c]]
     /\ UNCHANGED faults
  \/ Error /\ UNCHANGED <<list, waits>>

SaveFetched(j) ==
  /\ pc[j] = "saveFetched"
  /\ SaveTokensList(j, {})
  /\ IF j = "list" THEN End(j)
     ELSE Go(j, "getPrices") /\ UNCHANGED <<tokens, batch, merged>>
  /\ UNCHANGED <<prices, stamp, vain>>

GetTokensList ==
  /\ pc["refresh"] = "getList"
  /\ \/ /\ list.ttl > 0
        /\ tokens' = [tokens EXCEPT !["refresh"] = list.of]
        /\ Go("refresh", "getPrices")
        /\ UNCHANGED faults
     \/ /\ (list.ttl = 0 /\ UNCHANGED faults) \/ Error
        /\ Go("refresh", "fetch")
        /\ UNCHANGED tokens
  /\ UNCHANGED <<list, prices, stamp, batch, merged, vain, waits>>

(* The batches getOldestTokens may choose: coins never priced, or the      *)
(* oldest when there are none; among equals the list's order decides.      *)
GetOldestTokens(copy) ==
  LET never == {c \in DOMAIN copy : copy[c] = 0}
      from  == IF never # {} THEN never ELSE DOMAIN copy
  IN  {b \in SUBSET from :
         /\ Cardinality(b) = IF Cardinality(from) < Batch THEN Cardinality(from) ELSE Batch
         /\ \A c \in b, d \in from \ b : copy[c] <= copy[d]}

(* updatePrices up to its request; prices that cannot be read are none.    *)
GetTokensPrices ==
  /\ pc["refresh"] = "getPrices"
  /\ \/ DOMAIN tokens["refresh"] = {} /\ End("refresh") /\ UNCHANGED <<faults, vain>>
     \/ /\ DOMAIN tokens["refresh"] # {}
        /\ batch' \in GetOldestTokens(tokens["refresh"])
        /\ \/ merged' = prices.of /\ UNCHANGED <<faults, vain>>
           \/ merged' = NoCoins /\ Error /\ vain' = Coins
        /\ Go("refresh", "ask")
        /\ UNCHANGED tokens
  /\ UNCHANGED <<list, prices, stamp, waits>>

(* Wrong on purpose: a coin the answer has no price for keeps its old one. *)
MergePricesKeeping(old, coins, answered, now) ==
  [c \in DOMAIN old \union coins |->
     IF c \notin coins THEN old[c]
     ELSE [at |-> now, price |-> IF c \in answered THEN now ELSE IF c \in DOMAIN old THEN old[c].price ELSE 0]]

(* getPrices gives every coin of the batch an entry, its price undefined   *)
(* where the answer has none; mergePrices puts it over the old one.        *)
MergePrices(old, coins, answered, now) ==
  [c \in DOMAIN old \union coins |->
     IF c \notin coins THEN old[c] ELSE [at |-> now, price |-> IF c \in answered THEN now ELSE 0]]

(* Wrong on purpose, though a comment on updateLastUpdated asks for it:    *)
(* what CoinGecko has no price for is not stamped.                         *)
PricedStampingQuoted ==
  /\ pc["refresh"] = "ask"
  /\ stamp < MaxStamps
  /\ stamp' = stamp + 1
  /\ \E answered \in Answers :
       /\ merged' = MergePrices(merged, batch, answered, stamp')
       /\ tokens' = [tokens EXCEPT !["refresh"] =
            [c \in DOMAIN @ |-> IF c \in batch \intersect answered THEN stamp' ELSE @[c]]]
  /\ Go("refresh", "savePrices")
  /\ UNCHANGED <<list, prices, batch, faults, vain, waits>>

(* CoinGecko answers, for some of the coins: the whole batch is merged and *)
(* stamped.                                                                *)
Priced ==
  /\ pc["refresh"] = "ask"
  /\ stamp < MaxStamps
  /\ stamp' = stamp + 1
  /\ \E answered \in Answers : merged' = MergePrices(merged, batch, answered, stamp')
  /\ tokens' = [tokens EXCEPT !["refresh"] =
       [c \in DOMAIN @ |-> IF c \in batch THEN stamp' ELSE @[c]]]
  /\ Go("refresh", "savePrices")
  /\ UNCHANGED <<list, prices, batch, faults, vain, waits>>

AskFails ==
  /\ pc["refresh"] = "ask"
  /\ End("refresh")
  /\ UNCHANGED <<list, prices, stamp, faults, vain, waits>>

SaveTokensPrices ==
  /\ pc["refresh"] = "savePrices"
  /\ \/ /\ prices' = [ttl |-> Life, of |-> merged]
        /\ vain' = vain \ batch
        /\ UNCHANGED faults
     \/ Error /\ vain' = vain \union batch /\ UNCHANGED prices
  /\ Go("refresh", "saveList")
  /\ UNCHANGED <<list, stamp, tokens, batch, merged, waits>>

SaveList ==
  /\ pc["refresh"] = "saveList"
  /\ SaveTokensList("refresh", batch)
  /\ End("refresh")
  /\ UNCHANGED <<prices, stamp, vain>>

(* The Lambda times out, or is killed.                                     *)
Kill(j) ==
  /\ pc[j] # "idle"
  /\ faults < MaxFaults
  /\ faults' = faults + 1
  /\ End(j)
  /\ UNCHANGED <<list, prices, stamp, vain, waits>>

-----------------------------------------------------------------------------
Older(copy) == IF copy.ttl <= 1 THEN Missing ELSE [copy EXCEPT !.ttl = @ - 1]

(* A job is over within its timeout of a minute.                           *)
Hour ==
  /\ \A j \in Jobs : pc[j] = "idle"
  /\ list' = Older(list) /\ prices' = Older(prices)
  /\ vain' = IF prices.ttl = 1 THEN Coins ELSE vain
  /\ UNCHANGED <<stamp, jobVars, faults, waits>>

Next ==
  \/ \E j \in Jobs : Start(j) \/ FetchTokens(j) \/ PrepareTokens(j) \/ SaveFetched(j) \/ Kill(j)
  \/ GetTokensList \/ GetTokensPrices \/ Priced \/ AskFails \/ SaveTokensPrices \/ SaveList
  \/ Hour

Spec == Init /\ [][Next]_vars

-----------------------------------------------------------------------------
(* Between upsets no coin of the list is passed over longer than it takes  *)
(* to go once round, whatever CoinGecko has prices for: getOldestTokens    *)
(* with updateLastUpdated is a rotation.                                   *)
RotationBound == \A c \in Coins : Batch * (waits[c] - 1) < Cardinality(Coins)

(* The price of an entry is from the answer that its stamp names, or that  *)
(* answer had none.                                                        *)
OwnPrice(entry) == entry.price \in {0, entry.at}

(* A stamp that the list shows is backed by an entry of the prices at      *)
(* least as new, unless those were lost since, and no entry shows a price  *)
(* older than its stamp, though it may show none: refreshPricesJob saves   *)
(* prices before stamps and merges whole entries into what was there, and  *)
(* listTokensJob, at whatever moment it reads and writes, adds no stamp.   *)
StampsBacked ==
  \A c \in DOMAIN list.of \ vain :
    list.of[c] > 0 => c \in DOMAIN prices.of /\ prices.of[c].at >= list.of[c] /\ OwnPrice(prices.of[c])

(* What a comment says of updateLastUpdated (handler.js:182-185): a coin   *)
(* that the API returned no data for is not marked as updated, so that a   *)
(* stamp comes with the price it is the time of.                           *)
StampedWhenPriced ==
  \A c \in DOMAIN list.of \intersect DOMAIN prices.of :
    list.of[c] > 0 /\ list.of[c] = prices.of[c].at => prices.of[c].price # 0
=============================================================================
