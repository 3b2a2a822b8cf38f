--------------------------- MODULE PriceJobsProofs ---------------------------
(***************************************************************************)
(* For any coins, listings, batch size and life of the documents, and any  *)
(* interleaving of the two jobs, a stamp in the list is backed by an entry *)
(* of the prices, and the batches go round the list.                       *)
(***************************************************************************)
EXTENDS PriceJobs, FiniteSetTheorems, TLAPS

(* Every stamp of the list `copy` has an entry as new in `of`, but for the *)
(* coins whose prices were lost.                                           *)
Backs(of, copy, lost) ==
  \A c \in DOMAIN copy \ lost : copy[c] > 0 => c \in DOMAIN of /\ of[c].at >= copy[c]

ListBacked == Backs(prices.of, list.of, vain)

(* So has every entry of the prices `old`.                                 *)
Renews(of, old, lost) ==
  \A c \in DOMAIN old \ lost : c \in DOMAIN of /\ of[c].at >= old[c].at

Types ==
  /\ list \in Copies /\ prices \in [ttl : 0..Life, of : Entries]
  /\ stamp \in Stamps
  /\ pc \in [Jobs -> Places] /\ pc["list"] \notin {"getList", "getPrices", "ask", "savePrices", "saveList"}
  /\ tokens \in [Jobs -> Stamped]
  /\ merged \in Entries
  /\ faults \in 0..MaxFaults
  /\ vain \subseteq Coins
  /\ waits \in [Coins -> Nat]

Asking == {"ask", "savePrices", "saveList"}

BatchFits ==
  /\ batch \subseteq DOMAIN tokens["refresh"] /\ Cardinality(batch) <= Batch
  /\ pc["refresh"] \notin Asking => batch = {}

(* No stamp is from the future, and no price older than its stamp.         *)
Past(copy) == \A c \in DOMAIN copy : copy[c] <= stamp
Sound(of)  == \A c \in DOMAIN of : of[c].at <= stamp /\ OwnPrice(of[c])

AllPast == /\ Past(list.of) /\ Sound(prices.of)
           /\ \A j \in Jobs : Past(tokens[j])
           /\ merged = NoCoins \/ Sound(merged)

(* What the refresh holds once CoinGecko has answered: prices that back    *)
(* all that those in Redis back, and the new stamps too.                   *)
MergedBacks ==
  /\ pc["refresh"] = "ask" => vain = Coins \/ merged = prices.of
  /\ pc["refresh"] = "savePrices" =>
       /\ Renews(merged, prices.of, vain)
       /\ Backs(merged, tokens["refresh"], vain)
       /\ Backs(prices.of, tokens["refresh"], vain \union batch)
       /\ \A c \in batch : c \in DOMAIN merged /\ merged[c].at = stamp

(* The inductive invariant.                                                *)
IInv ==
  /\ Types /\ BatchFits /\ AllPast /\ MergedBacks
  /\ prices.ttl = 0 => prices.of = NoCoins
  /\ ListBacked
  /\ Backs(prices.of, tokens["list"], vain)
  /\ pc["refresh"] # "savePrices" => Backs(prices.of, tokens["refresh"], vain)

LEMMA Bounds ==
  /\ Batch \in Nat \ {0} /\ Life \in Nat \ {0} /\ MaxStamps \in Nat /\ MaxFaults \in Nat
  /\ IsFiniteSet(Coins) /\ Listings \subseteq SUBSET Coins /\ Answers \subseteq SUBSET Coins
  BY CoinsAssumption, BoundsAssumption

(* A list or the prices: some coins and a stamp for each.                  *)
LEMMA StampedIs ==
  ASSUME NEW f
  PROVE  f \in Stamped <=> /\ f = [c \in DOMAIN f |-> f[c]] /\ DOMAIN f \subseteq Coins
                           /\ \A c \in DOMAIN f : f[c] \in Stamps
<1>1. ASSUME f \in Stamped
      PROVE  /\ f = [c \in DOMAIN f |-> f[c]] /\ DOMAIN f \subseteq Coins
             /\ \A c \in DOMAIN f : f[c] \in Stamps
  <2>1. PICK some \in SUBSET Coins : f \in [some -> Stamps]
    BY <1>1 DEF Stamped
  <2> QED
    BY <2>1
<1>2. ASSUME /\ f = [c \in DOMAIN f |-> f[c]] /\ DOMAIN f \subseteq Coins
             /\ \A c \in DOMAIN f : f[c] \in Stamps
      PROVE  f \in Stamped
  <2>1. f \in [DOMAIN f -> Stamps]
    BY <1>2
  <2> QED
    BY <1>2, <2>1 DEF Stamped
<1> QED
  BY <1>1, <1>2

(* The prices: some coins and an entry for each.                           *)
LEMMA EntriesAre ==
  ASSUME NEW f
  PROVE  f \in Entries <=> /\ f = [c \in DOMAIN f |-> f[c]] /\ DOMAIN f \subseteq Coins
                           /\ \A c \in DOMAIN f : f[c] \in [at : Stamps, price : Stamps]
<1> DEFINE entry == [at : Stamps, price : Stamps]
<1>1. Entries = UNION {[some -> entry] : some \in SUBSET Coins}
  BY DEF Entries
<1> HIDE DEF entry
<1>2. ASSUME f \in Entries
      PROVE  f = [c \in DOMAIN f |-> f[c]] /\ DOMAIN f \subseteq Coins /\ \A c \in DOMAIN f : f[c] \in entry
  <2>1. PICK some \in SUBSET Coins : f \in [some -> entry]
    BY <1>1, <1>2
  <2> QED
    BY <2>1
<1>3. ASSUME f = [c \in DOMAIN f |-> f[c]] /\ DOMAIN f \subseteq Coins /\ \A c \in DOMAIN f : f[c] \in entry
      PROVE  f \in Entries
  <2>1. f \in [DOMAIN f -> entry]
    BY <1>3
  <2> QED
    BY <1>1, <1>3, <2>1
<1> QED
  BY <1>2, <1>3 DEF entry

LEMMA NoCoinsIsStamped ==
  /\ NoCoins \in Stamped /\ Missing \in Copies /\ DOMAIN NoCoins = {} /\ Missing.of = NoCoins
  /\ NoCoins \in Entries /\ Missing \in [ttl : 0..Life, of : Entries]
<1>1. NoCoins \in [{} -> Stamps] /\ DOMAIN NoCoins = {}
  BY DEF NoCoins
<1>2. NoCoins \in Stamped
  BY <1>1 DEF Stamped
<1>3. NoCoins \in Entries
  BY <1>1, EntriesAre DEF NoCoins
<1> QED
  BY <1>1, <1>2, <1>3, Bounds DEF Missing, Copies

LEMMA InitIInv == Init => IInv
  BY Bounds, NoCoinsIsStamped, FS_EmptySet
     DEF Init, IInv, Types, BatchFits, AllPast, Past, Sound, MergedBacks, ListBacked, Backs, Jobs,
         Asking, Places, Stamps, Missing

(* Batches are of coins of the list, and within CoinGecko's limit.         *)
LEMMA BatchesFit ==
  ASSUME NEW copy \in Stamped, NEW b \in GetOldestTokens(copy)
  PROVE  b \subseteq DOMAIN copy /\ Cardinality(b) <= Batch
<1>1. PICK from \in SUBSET DOMAIN copy :
        /\ b \subseteq from
        /\ Cardinality(b) = IF Cardinality(from) < Batch THEN Cardinality(from) ELSE Batch
  BY DEF GetOldestTokens
<1>2. Cardinality(from) \in Nat
  BY <1>1, StampedIs, Bounds, FS_Subset, FS_CardinalityType
<1> QED
  BY <1>1, <1>2, Bounds

(* A call that ends, or is killed, leaves nothing behind.                  *)
LEMMA EndKept ==
  ASSUME IInv, NEW j \in Jobs, End(j), UNCHANGED <<prices, stamp>>, vain \subseteq vain', vain' \subseteq Coins,
         \/ UNCHANGED list
         \/ list' = [ttl |-> Life, of |-> tokens[j]] /\ pc[j] # "savePrices" /\ pc[j] # "idle",
         faults' \in 0..MaxFaults, waits' \in [Coins -> Nat]
  PROVE  IInv'
<1> USE DEF IInv, Jobs
<1>1. /\ tokens' \in [Jobs -> Stamped] /\ tokens'[j] = NoCoins
      /\ \A i \in Jobs \ {j} : tokens'[i] = tokens[i] /\ pc'[i] = pc[i]
      /\ pc' \in [Jobs -> Places] /\ pc'[j] = "idle"
  BY NoCoinsIsStamped DEF End, Go, Types, Places
<1>2. merged' \in Entries /\ (merged' = NoCoins \/ merged' = merged)
  BY NoCoinsIsStamped DEF End, Types
<1>3. list' \in Copies
  BY Bounds DEF Types, Copies
<1>4. Types'
  BY <1>1, <1>2, <1>3 DEF Types
<1>5. BatchFits'
  <2>1. CASE j = "refresh"
    <3>1. batch' = {} /\ pc'["refresh"] = "idle"
      BY <1>1, <2>1 DEF End
    <3>2. Cardinality({}) = 0
      BY FS_EmptySet
    <3> QED
      BY <3>1, <3>2, Bounds DEF BatchFits
  <2>2. CASE j = "list"
    BY <1>1, <2>2 DEF End, BatchFits, Asking
  <2> QED
    BY <2>1, <2>2
<1>6. AllPast'
  <2>1. list'.of = list.of \/ list'.of = tokens[j]
    OBVIOUS
  <2>2. \A i \in Jobs : tokens'[i] = tokens[i] \/ tokens'[i] = NoCoins
    BY <1>1
  <2>3. UNCHANGED <<prices, stamp>>
    OBVIOUS
  <2> QED
    BY <1>2, <2>1, <2>2, <2>3, NoCoinsIsStamped DEF AllPast, Past, Sound
<1>7. MergedBacks'
  BY <1>1 DEF MergedBacks, End, Backs, Renews
<1>8. ListBacked'
  BY DEF ListBacked, Backs, Types, Copies
<1>9. Backs(prices.of, tokens["list"], vain)'
  BY <1>1, NoCoinsIsStamped DEF Backs
<1>10. (pc["refresh"] # "savePrices" => Backs(prices.of, tokens["refresh"], vain))'
  BY <1>1, NoCoinsIsStamped DEF Backs
<1> QED
  BY <1>4, <1>5, <1>6, <1>7, <1>8, <1>9, <1>10

(* So does a job that gets, or keeps, a copy of the list that is backed.   *)
LEMMA CopyKept ==
  ASSUME IInv, NEW j \in Jobs, pc[j] \notin Asking,
         NEW copy \in Stamped, Past(copy), Backs(prices.of, copy, vain),
         tokens' = [tokens EXCEPT ![j] = copy],
         NEW place \in {"getList", "fetch", "existing", "saveFetched", "getPrices"}, Go(j, place),
         j = "list" => place \notin {"getList", "getPrices"},
         UNCHANGED <<prices, stamp, batch, merged, vain>>,
         UNCHANGED list \/ list' = [ttl |-> Life, of |-> tokens[j]],
         faults' \in 0..MaxFaults, waits' \in [Coins -> Nat]
  PROVE  IInv'
<1> USE DEF IInv, Jobs
<1>1. /\ tokens' \in [Jobs -> Stamped] /\ tokens'[j] = copy
      /\ \A i \in Jobs \ {j} : tokens'[i] = tokens[i] /\ pc'[i] = pc[i]
      /\ pc' \in [Jobs -> Places] /\ pc'[j] = place
  BY DEF Go, Types, Places
<1>2. list' \in Copies
  BY Bounds DEF Types, Copies
<1>3. Types'
  BY <1>1, <1>2 DEF Types
<1>4. BatchFits'
  <2>1. CASE j = "refresh"
    BY <1>1, <2>1 DEF BatchFits, Asking
  <2>2. CASE j = "list"
    BY <1>1, <2>2 DEF BatchFits
  <2> QED
    BY <2>1, <2>2
<1>5. AllPast'
  BY <1>1 DEF AllPast, Past, Sound, Types, Copies
<1>6. MergedBacks'
  BY <1>1 DEF MergedBacks, Backs, Renews
<1>7. ListBacked'
  BY DEF ListBacked, Backs, Types, Copies, Asking
<1>8. Backs(prices.of, tokens["list"], vain)'
  BY <1>1 DEF Backs
<1>9. (pc["refresh"] # "savePrices" => Backs(prices.of, tokens["refresh"], vain))'
  BY <1>1 DEF Backs
<1> QED
  BY <1>3, <1>4, <1>5, <1>6, <1>7, <1>8, <1>9

LEMMA SavedOrNot ==
  ASSUME Types, NEW j \in Jobs, NEW asked, SaveTokensList(j, asked)
  PROVE  /\ UNCHANGED list \/ list' = [ttl |-> Life, of |-> tokens[j]]
         /\ faults' \in 0..MaxFaults /\ waits' \in [Coins -> Nat]
<1>1. faults' \in 0..MaxFaults
  BY Bounds DEF SaveTokensList, Error, Types
<1>2. waits' \in [Coins -> Nat]
  BY DEF SaveTokensList, Types
<1> QED
  BY <1>1, <1>2 DEF SaveTokensList

(* A copy made of the coins in `some`, each with a stamp that the list has *)
(* for it or none.                                                         *)
LEMMA MadeCopy ==
  ASSUME IInv, NEW some \in SUBSET Coins, NEW known \in {list.of, NoCoins}, NEW copy,
         copy = [c \in some |-> IF c \in DOMAIN known THEN known[c] ELSE 0]
  PROVE  copy \in Stamped /\ Past(copy) /\ Backs(prices.of, copy, vain)
<1>1. known \in Stamped /\ Past(known) /\ Backs(prices.of, known, vain)
  BY NoCoinsIsStamped DEF IInv, Types, Copies, AllPast, Past, Backs, ListBacked
<1>2. \A c \in some : copy[c] \in Stamps
  BY <1>1, StampedIs, Bounds DEF Stamps
<1>3. copy \in Stamped
  BY <1>2, StampedIs
<1> QED
  BY <1>1, <1>3, Bounds DEF Past, Backs, IInv, Types, Stamps

LEMMA JobIInv ==
  ASSUME IInv, NEW j \in Jobs,
         Start(j) \/ FetchTokens(j) \/ PrepareTokens(j) \/ SaveFetched(j) \/ Kill(j)
  PROVE  IInv'
<1> USE DEF IInv, Jobs
<1>0. /\ tokens[j] \in Stamped /\ Past(tokens[j])
      /\ pc[j] # "savePrices" => Backs(prices.of, tokens[j], vain)
      /\ tokens = [tokens EXCEPT ![j] = tokens[j]]
      /\ faults \in 0..MaxFaults /\ waits \in [Coins -> Nat] /\ vain \subseteq Coins
  BY DEF Types, AllPast
<1>1. CASE Start(j)
  BY <1>0, <1>1, CopyKept DEF Start, Asking
<1>2. CASE FetchTokens(j)
  <2>1. CASE End(j)
    BY <1>0, <1>2, <2>1, EndKept DEF FetchTokens
  <2>2. CASE ~End(j)
    <3>1. PICK listing \in Listings : tokens' = [tokens EXCEPT ![j] = [c \in listing |-> 0]]
      BY <1>2, <2>2 DEF FetchTokens
    <3>2. listing \in SUBSET Coins /\ NoCoins \in {list.of, NoCoins}
          /\ [c \in listing |-> 0] = [c \in listing |-> IF c \in DOMAIN NoCoins THEN NoCoins[c] ELSE 0]
      BY Bounds, NoCoinsIsStamped
    <3>3. /\ [c \in listing |-> 0] \in Stamped /\ Past([c \in listing |-> 0])
          /\ Backs(prices.of, [c \in listing |-> 0], vain)
      BY <3>2, MadeCopy
    <3>4. Go(j, "existing") /\ pc[j] = "fetch"
          /\ UNCHANGED <<list, prices, stamp, batch, merged, vain, faults, waits>>
      BY <1>2, <2>2 DEF FetchTokens
    <3> QED
      BY <1>0, <3>1, <3>3, <3>4, CopyKept DEF Asking
  <2> QED
    BY <2>1, <2>2
<1>3. CASE PrepareTokens(j)
  <2>1. PICK known \in {list.of, NoCoins} :
          tokens' = [tokens EXCEPT ![j] =
            [c \in DOMAIN tokens[j] |-> IF c \in DOMAIN known THEN known[c] ELSE 0]]
    BY <1>0, <1>3 DEF PrepareTokens
  <2> DEFINE copy == [c \in DOMAIN tokens[j] |-> IF c \in DOMAIN known THEN known[c] ELSE 0]
  <2>2. copy \in Stamped /\ Past(copy) /\ Backs(prices.of, copy, vain)
    BY <1>0, StampedIs, MadeCopy
  <2>3. /\ Go(j, "saveFetched") /\ pc[j] = "existing"
        /\ UNCHANGED <<list, prices, stamp, batch, merged, vain>>
        /\ faults' \in 0..MaxFaults /\ waits' \in [Coins -> Nat]
    BY <1>0, <1>3, Bounds DEF PrepareTokens, Error
  <2> HIDE DEF copy
  <2>4. tokens' = [tokens EXCEPT ![j] = copy]
    BY <2>1 DEF copy
  <2> QED
    BY <1>0, <2>2, <2>3, <2>4, CopyKept DEF Asking
<1>4. CASE SaveFetched(j)
  <2>1. /\ UNCHANGED list \/ list' = [ttl |-> Life, of |-> tokens[j]]
        /\ faults' \in 0..MaxFaults /\ waits' \in [Coins -> Nat]
    BY <1>4, SavedOrNot DEF SaveFetched
  <2>2. CASE j = "list"
    BY <1>0, <1>4, <2>1, <2>2, EndKept DEF SaveFetched
  <2>3. CASE j # "list"
    BY <1>0, <1>4, <2>1, <2>3, CopyKept DEF SaveFetched, Asking
  <2> QED
    BY <2>2, <2>3
<1>5. CASE Kill(j)
  <2>1. faults' \in 0..MaxFaults
    BY <1>0, <1>5, Bounds DEF Kill
  <2> QED
    BY <1>0, <1>5, <2>1, EndKept DEF Kill
<1> QED
  BY <1>1, <1>2, <1>3, <1>4, <1>5

LEMMA RefreshIInv ==
  ASSUME IInv, GetTokensList \/ GetTokensPrices \/ Priced \/ AskFails \/ SaveTokensPrices \/ SaveList
  PROVE  IInv'
<1> USE DEF IInv, Jobs
<1>0. /\ tokens["refresh"] \in Stamped /\ Past(tokens["refresh"])
      /\ tokens = [tokens EXCEPT !["refresh"] = tokens["refresh"]]
      /\ faults \in 0..MaxFaults /\ waits \in [Coins -> Nat] /\ vain \subseteq Coins
      /\ list.of \in Stamped /\ Past(list.of) /\ Backs(prices.of, list.of, vain)
      /\ prices.of \in Entries /\ Sound(prices.of)
      /\ "refresh" \in Jobs
  BY DEF Types, Copies, AllPast, ListBacked, Backs
<1>1. CASE GetTokensList
  <2>1. faults' \in 0..MaxFaults
    BY <1>0, <1>1, Bounds DEF GetTokensList, Error
  <2>2. CASE Go("refresh", "getPrices") /\ tokens' = [tokens EXCEPT !["refresh"] = list.of]
    BY <1>0, <1>1, <2>1, <2>2, CopyKept DEF GetTokensList, Asking
  <2>3. CASE Go("refresh", "fetch") /\ UNCHANGED tokens
    BY <1>0, <1>1, <2>1, <2>3, CopyKept DEF GetTokensList, Asking
  <2> QED
    BY <1>1, <2>2, <2>3 DEF GetTokensList
<1>2. CASE GetTokensPrices
  <2>1. CASE End("refresh") /\ UNCHANGED <<faults, vain>>
    BY <1>0, <1>2, <2>1, EndKept DEF GetTokensPrices
  <2>2. CASE ~(End("refresh") /\ UNCHANGED <<faults, vain>>)
    <3>1. /\ batch' \in GetOldestTokens(tokens["refresh"]) /\ Go("refresh", "ask")
          /\ \/ merged' = prices.of /\ UNCHANGED <<faults, vain>>
             \/ merged' = NoCoins /\ Error /\ vain' = Coins
          /\ UNCHANGED <<tokens, list, prices, stamp, waits>> /\ pc["refresh"] = "getPrices"
      BY <1>2, <2>2 DEF GetTokensPrices
    <3>2. /\ pc' \in [Jobs -> Places] /\ pc'["refresh"] = "ask" /\ pc'["list"] = pc["list"]
      BY <3>1 DEF Go, Types, Places
    <3>3. merged' \in Entries /\ faults' \in 0..MaxFaults /\ vain' \subseteq Coins
      BY <1>0, <3>1, NoCoinsIsStamped, Bounds DEF Error
    <3>4. Types'
      BY <3>1, <3>2, <3>3 DEF Types
    <3>5. BatchFits'
      BY <1>0, <3>1, <3>2, BatchesFit DEF BatchFits, Asking
    <3>6. AllPast'
      BY <1>0, <3>1 DEF AllPast, Past, Sound
    <3>7. MergedBacks'
      BY <3>1, <3>2 DEF MergedBacks
    <3>8. ListBacked' /\ Backs(prices.of, tokens["list"], vain)'
          /\ Backs(prices.of, tokens["refresh"], vain)'
      <4>1. vain' = vain \/ vain' = Coins
        BY <3>1
      <4>2. DOMAIN list.of \subseteq Coins /\ \A i \in Jobs : DOMAIN tokens[i] \subseteq Coins
        BY <1>0, StampedIs DEF Types
      <4> QED
        BY <3>1, <4>1, <4>2 DEF ListBacked, Backs
    <3> QED
      BY <3>1, <3>4, <3>5, <3>6, <3>7, <3>8
  <2> QED
    BY <2>1, <2>2
<1>3. CASE Priced
  <2> DEFINE copy == [c \in DOMAIN tokens["refresh"] |-> IF c \in batch THEN stamp' ELSE tokens["refresh"][c]]
  <2>1. stamp' \in Stamps /\ stamp' = stamp + 1 /\ stamp \in Stamps
    BY <1>3, Bounds DEF Priced, Types, Stamps
  <2>2. /\ tokens' \in [Jobs -> Stamped] /\ tokens'["refresh"] = copy /\ tokens'["list"] = tokens["list"]
        /\ copy \in Stamped
    <3>1. copy \in Stamped
      <4>1. \A c \in DOMAIN tokens["refresh"] : copy[c] \in Stamps
        BY <1>0, <2>1, StampedIs
      <4>2. DOMAIN tokens["refresh"] \subseteq Coins
        BY <1>0, StampedIs
      <4>3. copy \in [DOMAIN tokens["refresh"] -> Stamps]
        BY <4>1
      <4> QED
        BY <4>2, <4>3 DEF Stamped
    <3>2. tokens' = [tokens EXCEPT !["refresh"] = copy]
      BY <1>0, <1>3 DEF Priced
    <3> HIDE DEF copy
    <3> QED
      BY <3>1, <3>2 DEF Types
  <2>3. /\ DOMAIN merged' = DOMAIN merged \union batch /\ merged' = [c \in DOMAIN merged' |-> merged'[c]]
        /\ \A c \in batch : /\ merged'[c] \in [at : Stamps, price : Stamps]
                            /\ merged'[c].at = stamp' /\ merged'[c].price \in {0, stamp'}
        /\ \A c \in DOMAIN merged \ batch : merged'[c] = merged[c]
        /\ merged \in Entries
    <3>1. PICK answered \in Answers : merged' = MergePrices(merged, batch, answered, stamp')
      BY <1>3 DEF Priced
    <3>2. 0 \in Stamps
      BY Bounds DEF Stamps
    <3> QED
      BY <2>1, <3>1, <3>2 DEF MergePrices, Types
  <2>4. merged' \in Entries
    <3>1. DOMAIN merged' \subseteq Coins
      BY <1>0, <2>3, StampedIs, EntriesAre DEF BatchFits
    <3>2. \A c \in DOMAIN merged' : merged'[c] \in [at : Stamps, price : Stamps]
      BY <2>3, EntriesAre
    <3> QED
      BY <2>3, <3>1, <3>2, EntriesAre
  <2>5. /\ pc' \in [Jobs -> Places] /\ pc'["refresh"] = "savePrices" /\ pc'["list"] = pc["list"]
        /\ pc["refresh"] = "ask"
        /\ UNCHANGED <<list, prices, batch, faults, vain, waits>>
    BY <1>3 DEF Priced, Go, Types, Places
  <2>6. Types'
    BY <2>1, <2>2, <2>4, <2>5 DEF Types
  <2>7. BatchFits'
    BY <2>2, <2>5 DEF BatchFits, Asking
  <2>8. AllPast'
    <3>1. \A f \in Entries : \A c \in DOMAIN f : f[c].at \in Stamps
      BY EntriesAre
    <3>2. /\ Past(list.of)' /\ Sound(prices.of)' /\ Past(tokens["list"])'
      <4>1. \A f \in Stamped : \A c \in DOMAIN f : f[c] \in Stamps
        BY StampedIs
      <4>2. Past(list.of)' /\ Past(tokens["list"])'
        BY <1>0, <2>1, <2>2, <2>5, <4>1 DEF AllPast, Past, Types, Stamps
      <4>3. Sound(prices.of)'
        BY <1>0, <2>1, <2>5, <3>1 DEF Sound, Stamps
      <4> QED
        BY <4>2, <4>3
    <3>3. Past(tokens["refresh"])'
      <4>1. \A c \in DOMAIN tokens["refresh"] : tokens["refresh"][c] \in Stamps
        BY <1>0, StampedIs
      <4> QED
        BY <1>0, <2>1, <2>2, <4>1 DEF Past, Stamps
    <3>4. Sound(merged)'
      <4>1. ASSUME NEW c \in DOMAIN merged' PROVE merged'[c].at <= stamp' /\ OwnPrice(merged'[c])
        <5>1. CASE c \in batch
          BY <2>1, <2>3, <5>1 DEF OwnPrice, Stamps
        <5>2. CASE c \notin batch
          BY <2>1, <2>3, <3>1, <4>1, <5>2, NoCoinsIsStamped DEF AllPast, Sound, Stamps
        <5> QED
          BY <5>1, <5>2
      <4> QED
        BY <4>1 DEF Sound
    <3> QED
      BY <3>2, <3>3, <3>4 DEF AllPast
  <2>9. MergedBacks'
    <3>1. \A c \in DOMAIN prices.of : prices.of[c].at \in Stamps /\ prices.of[c].at <= stamp
      BY <1>0, EntriesAre DEF Sound
    <3>2. \A c \in DOMAIN tokens["refresh"] : tokens["refresh"][c] \in Stamps
      BY <1>0, StampedIs
    <3>3. DOMAIN tokens["refresh"] \subseteq Coins /\ DOMAIN prices.of \subseteq Coins
      BY <1>0, StampedIs, EntriesAre
    <3>4. Renews(merged, prices.of, vain)'
      BY <2>1, <2>3, <2>5, <3>1, <3>3 DEF Renews, MergedBacks, Stamps
    <3>5. Backs(merged, tokens["refresh"], vain)'
      BY <2>1, <2>2, <2>3, <2>5, <3>2, <3>3 DEF Backs, MergedBacks, Stamps
    <3>6. Backs(prices.of, tokens["refresh"], vain \union batch)'
      BY <2>2, <2>5 DEF Backs
    <3> QED
      BY <2>3, <2>5, <3>4, <3>5, <3>6 DEF MergedBacks
  <2>10. ListBacked' /\ Backs(prices.of, tokens["list"], vain)'
    BY <2>2, <2>5 DEF ListBacked, Backs
  <2> QED
    BY <2>5, <2>6, <2>7, <2>8, <2>9, <2>10
<1>4. CASE AskFails
  BY <1>0, <1>4, EndKept DEF AskFails
<1>5. CASE SaveTokensPrices
  <2>1. /\ pc' \in [Jobs -> Places] /\ pc'["refresh"] = "saveList" /\ pc'["list"] = pc["list"]
        /\ pc["refresh"] = "savePrices"
        /\ UNCHANGED <<list, stamp, tokens, batch, merged, waits>>
    BY <1>5 DEF SaveTokensPrices, Go, Types, Places
  <2>2. /\ faults' \in 0..MaxFaults /\ vain' \subseteq Coins
        /\ \/ prices' = [ttl |-> Life, of |-> merged] /\ vain' = vain \ batch
           \/ vain' = vain \union batch /\ UNCHANGED prices
    <3>1. batch \subseteq Coins
      BY <1>0, StampedIs DEF BatchFits
    <3> QED
      BY <1>0, <1>5, <3>1, Bounds DEF SaveTokensPrices, Error
  <2>3. prices' \in [ttl : 0..Life, of : Entries]
    BY <2>2, Bounds DEF Types
  <2>4. Types'
    BY <2>1, <2>2, <2>3 DEF Types
  <2>5. BatchFits'
    BY <2>1 DEF BatchFits, Asking
  <2>6. AllPast'
    BY <2>1, <2>2, NoCoinsIsStamped DEF AllPast, Past, Sound
  <2>7. MergedBacks'
    BY <2>1 DEF MergedBacks
  <2>8. ASSUME NEW copy \in Stamped, Past(copy), Backs(prices.of, copy, vain)
        PROVE  Backs(prices'.of, copy, vain')
    <3>1. \A c \in DOMAIN copy : copy[c] \in Stamps /\ copy[c] <= stamp
      BY <2>8, StampedIs DEF Past
    <3>2. /\ \A c \in DOMAIN prices.of : prices.of[c].at \in Stamps
          /\ \A c \in DOMAIN merged : merged[c].at \in Stamps
      BY <1>0, EntriesAre DEF Types
    <3> QED
      BY <2>1, <2>2, <2>8, <3>1, <3>2 DEF Backs, Renews, MergedBacks, Stamps
  <2>9. ListBacked' /\ Backs(prices.of, tokens["list"], vain)'
    BY <1>0, <2>1, <2>8 DEF ListBacked, Backs, Types, AllPast
  <2>10. Backs(prices.of, tokens["refresh"], vain)'
    <3>1. CASE prices' = [ttl |-> Life, of |-> merged] /\ vain' = vain \ batch
      <4>1. \A c \in DOMAIN tokens["refresh"] : tokens["refresh"][c] <= stamp
        BY <1>0 DEF Past
      <4> QED
        BY <2>1, <3>1, <4>1 DEF Backs, MergedBacks
    <3>2. CASE vain' = vain \union batch /\ UNCHANGED prices
      BY <2>1, <3>2 DEF Backs, MergedBacks
    <3> QED
      BY <2>2, <3>1, <3>2
  <2>11. (prices.ttl = 0 => prices.of = NoCoins)'
    BY <2>2, Bounds
  <2> QED
    BY <2>1, <2>4, <2>5, <2>6, <2>7, <2>9, <2>10, <2>11
<1>6. CASE SaveList
  <2>1. /\ UNCHANGED list \/ list' = [ttl |-> Life, of |-> tokens["refresh"]]
        /\ faults' \in 0..MaxFaults /\ waits' \in [Coins -> Nat]
    BY <1>6, SavedOrNot DEF SaveList
  <2> QED
    BY <1>0, <1>6, <2>1, EndKept DEF SaveList
<1> QED
  BY <1>1, <1>2, <1>3, <1>4, <1>5, <1>6

LEMMA HourIInv == IInv /\ Hour => IInv'
<1> SUFFICES ASSUME IInv, Hour PROVE IInv'
  OBVIOUS
<1> USE DEF IInv, Jobs, Hour
<1>1. \A copy \in Copies : /\ Older(copy) \in Copies
                           /\ Older(copy).of = copy.of \/ (Older(copy).of = NoCoins /\ copy.ttl <= 1)
  BY NoCoinsIsStamped, Bounds DEF Older, Copies
<1>0. \A copy \in [ttl : 0..Life, of : Entries] :
         /\ Older(copy) \in [ttl : 0..Life, of : Entries]
         /\ Older(copy).of = copy.of \/ (Older(copy).of = NoCoins /\ copy.ttl <= 1)
  BY NoCoinsIsStamped, Bounds DEF Older
<1>2. Types'
  BY <1>0, <1>1 DEF Types, jobVars
<1>3. BatchFits' /\ MergedBacks'
  BY DEF BatchFits, MergedBacks, jobVars
<1>4. AllPast'
  BY <1>0, <1>1, NoCoinsIsStamped DEF AllPast, Past, Sound, Types, jobVars
<1>5. (prices.ttl = 0 => prices.of = NoCoins)'
  BY NoCoinsIsStamped DEF Older, Types, Copies
<1>6. ASSUME NEW copy \in Stamped, Backs(prices.of, copy, vain)
      PROVE  Backs(prices'.of, copy, vain')
  <2>1. DOMAIN copy \subseteq Coins
    BY StampedIs
  <2>2. CASE prices.ttl = 1
    BY <2>1, <2>2 DEF Backs
  <2>3. CASE prices.ttl # 1
    <3>1. prices'.of = prices.of
      BY <1>0, <2>3, NoCoinsIsStamped DEF Older, Types
    <3> QED
      BY <1>6, <2>3, <3>1
  <2> QED
    BY <2>2, <2>3
<1>7. ListBacked'
  <2>1. list.of \in Stamped /\ Backs(prices.of, list.of, vain)
    BY DEF Types, Copies, ListBacked, Backs
  <2>2. Backs(prices'.of, list.of, vain')
    BY <1>6, <2>1
  <2>3. list'.of = list.of \/ list'.of = NoCoins
    BY <1>1 DEF Types
  <2> QED
    BY <2>2, <2>3, NoCoinsIsStamped DEF ListBacked, Backs
<1>8. Backs(prices.of, tokens["list"], vain)'
  BY <1>6 DEF Types, jobVars
<1>9. Backs(prices.of, tokens["refresh"], vain)'
  BY <1>6 DEF Types, jobVars
<1> QED
  BY <1>2, <1>3, <1>4, <1>5, <1>7, <1>8, <1>9

LEMMA NextIInv == IInv /\ [Next]_vars => IInv'
<1> SUFFICES ASSUME IInv, [Next]_vars PROVE IInv'
  OBVIOUS
<1>1. CASE UNCHANGED vars
  BY <1>1 DEF vars, jobVars, IInv, Types, BatchFits, AllPast, Past, Sound, MergedBacks, ListBacked, Backs, Renews
<1> QED
  BY <1>1, JobIInv, RefreshIInv, HourIInv DEF Next

LEMMA InductiveInvariant == Spec => []IInv
  BY InitIInv, NextIInv, PTL DEF Spec

(* The documents and the jobs' copies keep their types, and no request to  *)
(* CoinGecko asks for more than COINGECKO_RATE_LIMIT coins.                *)
THEOREM TypeCorrect == Spec => []TypeOK
<1>1. IInv => TypeOK
  BY DEF IInv, Types, BatchFits, TypeOK
<1> QED
  BY <1>1, InductiveInvariant, PTL

(* However listTokensJob and refreshPricesJob interleave, fail or die, a    *)
(* stamp in the list is backed by an entry as new, with the price that the *)
(* answer of its stamp had or none, unless prices were lost.               *)
THEOREM EveryStampBacked == Spec => []StampsBacked
<1>1. IInv => StampsBacked
  BY DEF IInv, ListBacked, Backs, AllPast, Sound, StampsBacked
<1> QED
  BY <1>1, InductiveInvariant, PTL

-----------------------------------------------------------------------------
(***************************************************************************)
(* The rotation.  A coin that has waited is behind a set `A` of coins that *)
(* refreshes asked for since: none of them is asked for again before it.   *)
(* Every refresh adds a whole batch to the set but at most one, that took  *)
(* the last coins never priced; it is `short`, and leaves none unpriced.   *)
(***************************************************************************)
Fits(c, A, short, copy) ==
  c \in DOMAIN copy =>
    /\ \A d \in A \intersect DOMAIN copy : copy[d] > copy[c]
    /\ short => \A d \in DOMAIN copy : copy[d] > 0

Holding == {"saveFetched", "getPrices"} \union Asking

ListFits(c, A, short) ==
  pc["list"] = "saveFetched" /\ ~Upsets(tokens["list"]) => Fits(c, A, short, tokens["list"])

RefreshFits(c, A, short) ==
  /\ pc["refresh"] \in Holding
  /\ DOMAIN tokens["refresh"] \subseteq DOMAIN list.of
  /\ c \in DOMAIN tokens["refresh"] \ batch
  => /\ Fits(c, A, short, tokens["refresh"])
     /\ A \intersect batch = {}
     /\ pc["refresh"] \in Asking /\ short => Cardinality(batch) = Batch

Behind(c, A, short) ==
  Fits(c, A, short, list.of) /\ ListFits(c, A, short) /\ RefreshFits(c, A, short)

Counted(w, A, short) == Batch * w <= Cardinality(A) + IF short THEN Batch - 1 ELSE 0

Rotates ==
  \A c \in Coins : \E A \in SUBSET (Coins \ {c}), short \in BOOLEAN :
    Counted(waits[c], A, short) /\ Behind(c, A, short)

(* A batch is never empty, short only when it takes all that were never     *)
(* priced, and its stamp, once it has one, is newer than any other.        *)
BatchChosen ==
  pc["refresh"] \in Asking =>
    /\ batch # {}
    /\ \/ Cardinality(batch) = Batch
       \/ \A d \in DOMAIN tokens["refresh"] \ batch : tokens["refresh"][d] > 0

Before(copy) == \A d \in DOMAIN copy : copy[d] < stamp

BatchNewest ==
  pc["refresh"] \in {"savePrices", "saveList"} =>
    /\ \A d \in DOMAIN tokens["refresh"] :
         IF d \in batch THEN tokens["refresh"][d] = stamp ELSE tokens["refresh"][d] < stamp
    /\ stamp > 0 /\ Before(list.of) /\ Before(tokens["list"])

RInv == BatchChosen /\ BatchNewest /\ Rotates

LEMMA StampsNat ==
  ASSUME NEW f \in Stamped
  PROVE  DOMAIN f \subseteq Coins /\ \A d \in DOMAIN f : f[d] \in Nat
  BY StampedIs, Bounds DEF Stamps

(* A list that does not upset the rotation is one of coins the list has,   *)
(* each with a stamp as new.                                               *)
LEMMA Undisturbed ==
  ASSUME Types, NEW copy \in Stamped
  PROVE  ~Upsets(copy) <=> /\ list.ttl # 0 /\ DOMAIN copy \subseteq DOMAIN list.of
                           /\ \A d \in DOMAIN copy : copy[d] >= list.of[d]
<1>1. list.of \in Stamped
  BY DEF Types, Copies
<1>2. /\ \A d \in DOMAIN copy : copy[d] \in Nat
      /\ \A d \in DOMAIN list.of : list.of[d] \in Nat
  BY <1>1, StampsNat
<1> QED
  BY <1>2 DEF Upsets

LEMMA FitsOfPart ==
  ASSUME NEW c, NEW A, NEW short, NEW f, NEW g, Fits(c, A, short, f),
         DOMAIN g \subseteq DOMAIN f, \A d \in DOMAIN g : g[d] = f[d]
  PROVE  Fits(c, A, short, g)
  BY DEF Fits

(* What a step of the jobs leaves as it was.                               *)
ListSettled ==
  pc'["list"] # "saveFetched" \/ (pc'["list"] = pc["list"] /\ tokens'["list"] = tokens["list"])

RefreshSettled ==
  \/ pc'["refresh"] \notin Holding
  \/ /\ tokens'["refresh"] = tokens["refresh"] /\ batch' = batch
     /\ pc["refresh"] \in Holding /\ (pc'["refresh"] \in Asking => pc["refresh"] \in Asking)

LEMMA ListFitsKept ==
  ASSUME NEW c, NEW A, NEW short, ListFits(c, A, short), ListSettled, UNCHANGED list
  PROVE  ListFits(c, A, short)'
<1>1. CASE pc'["list"] # "saveFetched"
  BY <1>1 DEF ListFits
<1>2. CASE pc'["list"] = pc["list"] /\ tokens'["list"] = tokens["list"]
  BY <1>2 DEF ListFits, Upsets, Fits
<1> QED
  BY <1>1, <1>2 DEF ListSettled

LEMMA RefreshFitsKept ==
  ASSUME NEW c, NEW A, NEW short, RefreshFits(c, A, short), RefreshSettled,
         DOMAIN list'.of \subseteq DOMAIN list.of
  PROVE  RefreshFits(c, A, short)'
<1>1. CASE pc'["refresh"] \notin Holding
  BY <1>1 DEF RefreshFits
<1>2. CASE /\ tokens'["refresh"] = tokens["refresh"] /\ batch' = batch
           /\ pc["refresh"] \in Holding /\ (pc'["refresh"] \in Asking => pc["refresh"] \in Asking)
  BY <1>2 DEF RefreshFits, Fits
<1> QED
  BY <1>1, <1>2 DEF RefreshSettled

(* A step that leaves the list alone, and settles both jobs.               *)
LEMMA BehindKept ==
  ASSUME NEW c, NEW A, NEW short, Behind(c, A, short), ListSettled, RefreshSettled, UNCHANGED list
  PROVE  Behind(c, A, short)'
<1>1. Fits(c, A, short, list.of)'
  BY DEF Behind, Fits
<1> QED
  BY <1>1, ListFitsKept, RefreshFitsKept DEF Behind

LEMMA Ended ==
  ASSUME IInv, NEW j \in Jobs, End(j)
  PROVE  /\ pc'[j] = "idle"
         /\ \A i \in Jobs \ {j} : pc'[i] = pc[i] /\ tokens'[i] = tokens[i]
         /\ j = "list" => UNCHANGED <<batch, merged>>
  BY DEF End, Go, IInv, Types, Jobs

(* A job that ends leaves the other one as it was.                         *)
LEMMA EndSettled ==
  ASSUME IInv, NEW j \in Jobs, End(j)
  PROVE  ListSettled /\ RefreshSettled
  BY Ended DEF ListSettled, RefreshSettled, Jobs, Holding, Asking

(* Steps of the jobs that save nothing.                                    *)
LEMMA IdleBehind ==
  ASSUME IInv, NEW c, NEW A, NEW short, Behind(c, A, short), NEW j \in Jobs,
         Start(j) \/ FetchTokens(j) \/ Kill(j)
  PROVE  Behind(c, A, short)' /\ waits' = waits
<1>1. CASE Start(j)
  <2>1. pc' = [pc EXCEPT ![j] = IF j = "list" THEN "fetch" ELSE "getList"]
        /\ UNCHANGED <<list, tokens, batch, waits>>
    BY <1>1 DEF Start, Go
  <2>2. ListSettled /\ RefreshSettled
    BY <2>1 DEF ListSettled, RefreshSettled, Holding, Asking, IInv, Types, Jobs
  <2> QED
    BY <2>1, <2>2, BehindKept
<1>2. CASE FetchTokens(j)
  <2>1. UNCHANGED <<list, waits>>
    BY <1>2 DEF FetchTokens
  <2>2. CASE End(j)
    BY <2>1, <2>2, EndSettled, BehindKept
  <2>3. CASE ~End(j)
    <3>1. PICK copy : tokens' = [tokens EXCEPT ![j] = copy]
      BY <1>2, <2>3 DEF FetchTokens
    <3>2. Go(j, "existing") /\ UNCHANGED batch
      BY <1>2, <2>3 DEF FetchTokens
    <3>3. ListSettled /\ RefreshSettled
      BY <3>1, <3>2 DEF ListSettled, RefreshSettled, Holding, Asking, Go, IInv, Types, Jobs
    <3> QED
      BY <2>1, <3>3, BehindKept
  <2> QED
    BY <2>2, <2>3
<1>3. CASE Kill(j)
  <2>1. UNCHANGED <<list, waits>> /\ End(j)
    BY <1>3 DEF Kill
  <2> QED
    BY <2>1, EndSettled, BehindKept
<1> QED
  BY <1>1, <1>2, <1>3

(* A copy prepared for the list job that will not upset the rotation has   *)
(* the list's own stamps; so has the refresh's, when it read the list.     *)
LEMMA PreparedBehind ==
  ASSUME IInv, NEW c, NEW A, NEW short, Behind(c, A, short), NEW j \in Jobs, PrepareTokens(j)
  PROVE  waits' = [d \in Coins |-> 0] \/ (waits' = waits /\ Behind(c, A, short)')
<1> DEFINE copy(known) == [d \in DOMAIN tokens[j] |-> IF d \in DOMAIN known THEN known[d] ELSE 0]
<1>1. PICK known \in {list.of, NoCoins} :
        /\ \/ known = list.of /\ waits' = waits
           \/ known = NoCoins /\ waits' = IF j = "refresh" THEN [d \in Coins |-> 0] ELSE waits
        /\ tokens' = [tokens EXCEPT ![j] = copy(known)]
  BY DEF PrepareTokens
<1>2. pc[j] = "existing" /\ pc' = [pc EXCEPT ![j] = "saveFetched"] /\ UNCHANGED <<list, batch>>
  BY DEF PrepareTokens, Go
<1>3. /\ tokens'[j] = copy(known) /\ pc'[j] = "saveFetched"
      /\ \A i \in Jobs \ {j} : tokens'[i] = tokens[i] /\ pc'[i] = pc[i]
  BY <1>1, <1>2 DEF IInv, Types
<1>4. known \in Stamped /\ list.of \in Stamped /\ copy(known) \in Stamped
  <2>1. tokens[j] \in Stamped /\ DOMAIN tokens[j] \subseteq Coins
    BY StampedIs DEF IInv, Types
  <2>2. copy(known) \in Stamped
    BY <2>1, MadeCopy
  <2> HIDE DEF copy
  <2> QED
    BY <2>2, NoCoinsIsStamped DEF IInv, Types, Copies
<1>5. Fits(c, A, short, list.of)'
  BY <1>2 DEF Behind, Fits
<1>6. DOMAIN copy(known) = DOMAIN tokens[j]
      /\ \A d \in DOMAIN tokens[j] : copy(known)[d] = IF d \in DOMAIN known THEN known[d] ELSE 0
  OBVIOUS
<1> HIDE DEF copy
<1>7. CASE j = "list"
  <2>1. waits' = waits
    BY <1>1, <1>7
  <2>2. RefreshFits(c, A, short)'
    BY <1>2, <1>3, <1>7, RefreshFitsKept DEF Behind, RefreshSettled, Jobs
  <2>3. ASSUME ~Upsets(copy(known))
        PROVE  Fits(c, A, short, copy(known))
    <3>1. /\ DOMAIN copy(known) \subseteq DOMAIN list.of
          /\ \A d \in DOMAIN copy(known) : copy(known)[d] >= list.of[d]
      BY <1>4, <2>3, Undisturbed DEF IInv
    <3>2. \A d \in DOMAIN list.of : list.of[d] \in Nat
      BY <1>4, StampsNat
    <3>3. \A d \in DOMAIN copy(known) : copy(known)[d] = list.of[d]
      BY <1>6, <3>1, <3>2, NoCoinsIsStamped
    <3> QED
      BY <3>1, <3>3, FitsOfPart DEF Behind
  <2>4. ListFits(c, A, short)'
    BY <1>2, <1>3, <1>7, <2>3 DEF ListFits, Upsets, Fits
  <2> QED
    BY <1>5, <2>1, <2>2, <2>4 DEF Behind
<1>8. CASE j = "refresh" /\ waits' # [d \in Coins |-> 0]
  <2>1. waits' = waits /\ known = list.of
    BY <1>1, <1>8
  <2>2. ListFits(c, A, short)'
    BY <1>2, <1>3, <1>8, ListFitsKept DEF Behind, ListSettled, Jobs
  <2>3. batch = {}
    BY <1>2, <1>8 DEF IInv, BatchFits, Asking
  <2>4. DOMAIN copy(known) \subseteq DOMAIN list.of => Fits(c, A, short, copy(known))
    BY <1>6, <2>1, FitsOfPart DEF Behind
  <2>5. RefreshFits(c, A, short)'
    BY <1>2, <1>3, <1>8, <2>3, <2>4 DEF RefreshFits, Fits, Asking
  <2> QED
    BY <1>5, <2>1, <2>2, <2>5 DEF Behind
<1> QED
  BY <1>7, <1>8 DEF Jobs

LEMMA HourBehind ==
  ASSUME IInv, NEW c, NEW A, NEW short, Behind(c, A, short), Hour
  PROVE  Behind(c, A, short)' /\ waits' = waits
<1>1. pc["list"] = "idle" /\ pc["refresh"] = "idle" /\ UNCHANGED <<pc, waits>> /\ list' = Older(list)
  BY DEF Hour, jobVars, Jobs
<1>2. ListFits(c, A, short)' /\ RefreshFits(c, A, short)'
  BY <1>1 DEF ListFits, RefreshFits, Holding, Asking
<1>3. list'.of = list.of \/ list'.of = NoCoins
  BY <1>1, NoCoinsIsStamped DEF Older, IInv, Types, Copies
<1>4. Fits(c, A, short, list.of)'
  BY <1>3, NoCoinsIsStamped DEF Behind, Fits
<1> QED
  BY <1>1, <1>2, <1>4 DEF Behind

(* A list saved that does not upset the rotation: what the list job is      *)
(* about to save, if it does not upset it now, would not have before.      *)
LEMMA UpsetsLess ==
  ASSUME Types, NEW copy \in Stamped, ~Upsets(copy), list' = [ttl |-> Life, of |-> copy],
         tokens'["list"] = tokens["list"], ~Upsets(tokens["list"])'
  PROVE  /\ ~Upsets(tokens["list"]) /\ DOMAIN tokens["list"] \subseteq DOMAIN copy
         /\ \A d \in DOMAIN tokens["list"] : tokens["list"][d] >= copy[d]
<1> DEFINE other == tokens["list"]
<1>1. /\ list.ttl # 0 /\ DOMAIN copy \subseteq DOMAIN list.of
      /\ \A d \in DOMAIN copy : copy[d] >= list.of[d]
  BY Undisturbed
<1>2. list.of \in Stamped /\ other \in Stamped
  BY DEF Types, Copies, Jobs
<1>3. /\ \A d \in DOMAIN copy : copy[d] \in Nat
      /\ \A d \in DOMAIN other : other[d] \in Nat
      /\ \A d \in DOMAIN list.of : list.of[d] \in Nat
  BY <1>2, StampsNat
<1>4. DOMAIN other \subseteq DOMAIN copy /\ \A d \in DOMAIN other : other[d] >= copy[d]
  BY <1>3 DEF Upsets
<1> HIDE DEF other
<1>5. DOMAIN other \subseteq DOMAIN list.of /\ \A d \in DOMAIN other : other[d] >= list.of[d]
  BY <1>1, <1>3, <1>4
<1>6. ~Upsets(other)
  BY <1>1, <1>2, <1>5, Undisturbed
<1> QED
  BY <1>4, <1>6 DEF other

LEMMA FetchedBehind ==
  ASSUME IInv, NEW c \in Coins, NEW A, NEW short, Behind(c, A, short), NEW j \in Jobs, SaveFetched(j)
  PROVE  waits'[c] = 0 \/ (waits'[c] = waits[c] /\ Behind(c, A, short)')
<1>1. /\ pc[j] = "saveFetched" /\ SaveTokensList(j, {})
      /\ IF j = "list" THEN End(j) ELSE Go(j, "getPrices") /\ UNCHANGED <<tokens, batch, merged>>
  BY DEF SaveFetched
<1>2. ListSettled /\ RefreshSettled
  <2>1. CASE j = "list"
    BY <1>1, <2>1, EndSettled
  <2>2. CASE j = "refresh"
    BY <1>1, <2>2 DEF Go, ListSettled, RefreshSettled, Holding, Asking, IInv, Types, Jobs
  <2> QED
    BY <2>1, <2>2 DEF Jobs
<1>3. CASE UNCHANGED <<list, waits>>
  BY <1>2, <1>3, BehindKept
<1>4. CASE /\ list' = [ttl |-> Life, of |-> tokens[j]]
           /\ waits' = [d \in Coins |->
                IF Upsets(tokens[j]) \/ d \in {} \/ d \notin DOMAIN tokens[j] THEN 0
                ELSE IF {} # {} THEN waits[d] + 1 ELSE waits[d]]
  <2>1. CASE Upsets(tokens[j]) \/ c \notin DOMAIN tokens[j]
    BY <1>4, <2>1
  <2>2. CASE ~Upsets(tokens[j]) /\ c \in DOMAIN tokens[j]
    <3>1. waits'[c] = waits[c]
      BY <1>4, <2>2
    <3>2. \A i \in Jobs : tokens[i] \in Stamped
      BY DEF IInv, Types
    <3>3. DOMAIN tokens[j] \subseteq DOMAIN list.of /\ list'.of = tokens[j]
      BY <1>4, <2>2, <3>2, Undisturbed DEF IInv
    <3>4. Fits(c, A, short, tokens[j])
      <4>1. CASE j = "list"
        BY <1>1, <2>2, <4>1 DEF Behind, ListFits
      <4>2. CASE j = "refresh"
        <5>1. batch = {}
          BY <1>1, <4>2 DEF IInv, BatchFits, Asking
        <5> QED
          BY <1>1, <2>2, <3>3, <4>2, <5>1 DEF Behind, RefreshFits, Holding
      <4> QED
        BY <4>1, <4>2 DEF Jobs
    <3>5. Fits(c, A, short, list.of)'
      BY <3>3, <3>4 DEF Fits
    <3>6. RefreshFits(c, A, short)'
      BY <1>2, <3>3, RefreshFitsKept DEF Behind
    <3>7. ListFits(c, A, short)'
      <4>1. CASE pc'["list"] # "saveFetched"
        BY <4>1 DEF ListFits
      <4>2. CASE pc'["list"] = pc["list"] /\ tokens'["list"] = tokens["list"]
        <5>1. ~Upsets(tokens["list"])' => ~Upsets(tokens["list"])
          BY <1>4, <2>2, <3>2, <4>2, UpsetsLess DEF IInv
        <5> QED
          BY <4>2, <5>1 DEF Behind, ListFits, Fits
      <4> QED
        BY <1>2, <4>1, <4>2 DEF ListSettled
    <3> QED
      BY <3>1, <3>5, <3>6, <3>7 DEF Behind
  <2> QED
    BY <2>1, <2>2
<1> QED
  BY <1>1, <1>3, <1>4 DEF SaveTokensList

(* Steps of the refresh alone leave the list job's part as it was.         *)
LEMMA ListUntouched ==
  ASSUME NEW c, NEW A, NEW short, Behind(c, A, short), UNCHANGED list,
         pc'["list"] = pc["list"], tokens'["list"] = tokens["list"]
  PROVE  Fits(c, A, short, list.of)' /\ ListFits(c, A, short)'
<1>1. Fits(c, A, short, list.of)'
  BY DEF Behind, Fits
<1>2. ListFits(c, A, short)'
  BY ListFitsKept DEF Behind, ListSettled
<1> QED
  BY <1>1, <1>2

LEMMA ReadBehind ==
  ASSUME IInv, NEW c, NEW A, NEW short, Behind(c, A, short), GetTokensList
  PROVE  Behind(c, A, short)' /\ waits' = waits
<1>1. /\ pc["refresh"] = "getList" /\ UNCHANGED <<list, batch, waits>>
      /\ \/ tokens' = [tokens EXCEPT !["refresh"] = list.of] /\ Go("refresh", "getPrices")
         \/ tokens' = tokens /\ Go("refresh", "fetch")
  BY DEF GetTokensList
<1>2. /\ pc'["list"] = pc["list"] /\ tokens'["list"] = tokens["list"]
      /\ pc'["refresh"] = "fetch" \/ (pc'["refresh"] = "getPrices" /\ tokens'["refresh"] = list.of)
  BY <1>1 DEF Go, IInv, Types, Jobs
<1>3. batch = {}
  BY <1>1 DEF IInv, BatchFits, Asking
<1>4. RefreshFits(c, A, short)'
  BY <1>1, <1>2, <1>3 DEF Behind, RefreshFits, Fits, Holding, Asking
<1> QED
  BY <1>1, <1>2, <1>4, ListUntouched DEF Behind

LEMMA OldestFirst ==
  ASSUME NEW copy \in Stamped, NEW b \in GetOldestTokens(copy)
  PROVE  \E from \in SUBSET DOMAIN copy :
           /\ from = {d \in DOMAIN copy : copy[d] = 0} \/ from = DOMAIN copy
           /\ from = DOMAIN copy \/ from # {}
           /\ from = DOMAIN copy => from = {d \in DOMAIN copy : copy[d] = 0}
                                   \/ \A d \in DOMAIN copy : copy[d] # 0
           /\ b \subseteq from /\ IsFiniteSet(from) /\ Cardinality(from) \in Nat
           /\ Cardinality(b) = IF Cardinality(from) < Batch THEN Cardinality(from) ELSE Batch
           /\ \A d \in b, e \in from \ b : copy[d] <= copy[e]
<1> DEFINE never == {d \in DOMAIN copy : copy[d] = 0}
           from  == IF never # {} THEN never ELSE DOMAIN copy
<1>1. b \subseteq from /\ Cardinality(b) = (IF Cardinality(from) < Batch THEN Cardinality(from) ELSE Batch)
      /\ \A d \in b, e \in from \ b : copy[d] <= copy[e]
  BY DEF GetOldestTokens
<1>2. from \in SUBSET DOMAIN copy
  OBVIOUS
<1>3. IsFiniteSet(from) /\ Cardinality(from) \in Nat
  <2>1. from \subseteq Coins
    BY <1>2, StampsNat
  <2> QED
    BY <2>1, Bounds, FS_Subset, FS_CardinalityType
<1>4. /\ from = never \/ from = DOMAIN copy
      /\ from = DOMAIN copy \/ from # {}
      /\ from = DOMAIN copy => from = never \/ \A d \in DOMAIN copy : copy[d] # 0
  OBVIOUS
<1> HIDE DEF from
<1> QED
  BY <1>1, <1>2, <1>3, <1>4

(* A batch that is not full takes all there was to choose from.            *)
LEMMA ShortTakesAll ==
  ASSUME NEW copy \in Stamped, NEW b \in GetOldestTokens(copy), DOMAIN copy # {}
  PROVE  /\ b # {} /\ IsFiniteSet(b) /\ Cardinality(b) \in 1..Batch
         /\ Cardinality(b) = Batch \/ \A d \in DOMAIN copy \ b : copy[d] > 0
         /\ Cardinality(b) = Batch \/ b = DOMAIN copy \/ \E d \in b : copy[d] = 0
         /\ \A d \in b, e \in DOMAIN copy \ b : copy[d] <= copy[e]
<1>1. PICK from \in SUBSET DOMAIN copy :
           /\ from = {d \in DOMAIN copy : copy[d] = 0} \/ from = DOMAIN copy
           /\ from = DOMAIN copy \/ from # {}
           /\ from = DOMAIN copy => from = {d \in DOMAIN copy : copy[d] = 0}
                                   \/ \A d \in DOMAIN copy : copy[d] # 0
           /\ b \subseteq from /\ IsFiniteSet(from) /\ Cardinality(from) \in Nat
           /\ Cardinality(b) = IF Cardinality(from) < Batch THEN Cardinality(from) ELSE Batch
           /\ \A d \in b, e \in from \ b : copy[d] <= copy[e]
  BY OldestFirst
<1>2. from # {}
  BY <1>1
<1>3. Cardinality(from) # 0
  BY <1>1, <1>2, FS_EmptySet
<1>4. Cardinality(b) \in 1..Batch
  BY <1>1, <1>3, Bounds
<1>5. IsFiniteSet(b) /\ (Cardinality(b) = Cardinality(from) => b = from)
  BY <1>1, FS_Subset
<1>6. b # {}
  BY <1>4, FS_EmptySet
<1>7. Cardinality(b) = Batch \/ b = from
  BY <1>1, <1>5
<1>8. \A d \in DOMAIN copy : copy[d] \in Nat
  BY StampsNat
<1>9. Cardinality(b) = Batch \/ \A d \in DOMAIN copy \ b : copy[d] > 0
  BY <1>1, <1>7, <1>8
<1>10. Cardinality(b) = Batch \/ b = DOMAIN copy \/ \E d \in b : copy[d] = 0
  BY <1>1, <1>2, <1>7
<1>11. \A d \in b, e \in DOMAIN copy \ b : copy[d] <= copy[e]
  <2> SUFFICES ASSUME NEW d \in b, NEW e \in DOMAIN copy \ b PROVE copy[d] <= copy[e]
    OBVIOUS
  <2>1. CASE e \in from
    BY <1>1, <2>1
  <2>2. CASE e \notin from
    BY <1>1, <1>8, <2>2
  <2> QED
    BY <2>1, <2>2
<1> QED
  BY <1>4, <1>5, <1>6, <1>9, <1>10, <1>11

(* The batch chosen has no coin that was asked for since `c` was, unless   *)
(* it has `c` too.                                                         *)
LEMMA ChosenBehind ==
  ASSUME IInv, NEW c, NEW A, NEW short, Behind(c, A, short), GetTokensPrices
  PROVE  Behind(c, A, short)' /\ waits' = waits
<1>1. pc["refresh"] = "getPrices" /\ UNCHANGED <<list, waits>>
  BY DEF GetTokensPrices
<1>2. CASE End("refresh")
  BY <1>1, <1>2, EndSettled, BehindKept DEF Jobs
<1>3. CASE ~End("refresh")
  <2> DEFINE copy == tokens["refresh"]
  <2>1. /\ DOMAIN copy # {} /\ batch' \in GetOldestTokens(copy)
        /\ Go("refresh", "ask") /\ UNCHANGED tokens
    BY <1>3 DEF GetTokensPrices
  <2>2. pc'["list"] = pc["list"] /\ pc'["refresh"] = "ask"
    BY <2>1 DEF Go, IInv, Types, Jobs
  <2>3. batch = {} /\ copy \in Stamped
    BY <1>1 DEF IInv, BatchFits, Asking, Types, Jobs
  <2>4. RefreshFits(c, A, short)'
    <3>1. SUFFICES ASSUME DOMAIN copy \subseteq DOMAIN list.of, c \in DOMAIN copy \ batch'
                   PROVE  /\ Fits(c, A, short, copy) /\ A \intersect batch' = {}
                          /\ short => Cardinality(batch') = Batch
      BY <1>1, <2>1, <2>2 DEF RefreshFits, Fits
    <3>2. Fits(c, A, short, copy)
      BY <1>1, <2>3, <3>1 DEF Behind, RefreshFits, Holding
    <3>3. \A d \in DOMAIN copy : copy[d] \in Nat
      BY <2>3, StampsNat
    <3>4. batch' \subseteq DOMAIN copy
      BY <2>1, <2>3, BatchesFit
    <3>5. A \intersect batch' = {}
      <4>1. \A d \in batch' : copy[d] <= copy[c]
        BY <2>1, <2>3, <3>1, ShortTakesAll
      <4> HIDE DEF copy
      <4> QED
        BY <3>1, <3>2, <3>3, <3>4, <4>1 DEF Fits
    <3>6. short => Cardinality(batch') = Batch
      <4>1. Cardinality(batch') = Batch \/ batch' = DOMAIN copy \/ \E d \in batch' : copy[d] = 0
        BY <2>1, <2>3, ShortTakesAll
      <4> HIDE DEF copy
      <4> QED
        BY <3>1, <3>2, <3>4, <4>1 DEF Fits
    <3> QED
      BY <3>2, <3>5, <3>6
  <2> QED
    BY <1>1, <2>1, <2>2, <2>4, ListUntouched DEF Behind
<1> QED
  BY <1>2, <1>3

LEMMA PricedBehind ==
  ASSUME IInv, NEW c, NEW A, NEW short, Behind(c, A, short), Priced
  PROVE  Behind(c, A, short)' /\ waits' = waits
<1> DEFINE copy == [d \in DOMAIN tokens["refresh"] |-> IF d \in batch THEN stamp' ELSE tokens["refresh"][d]]
<1>1. /\ tokens' = [tokens EXCEPT !["refresh"] = copy] /\ stamp' = stamp + 1
      /\ pc["refresh"] = "ask" /\ Go("refresh", "savePrices") /\ UNCHANGED <<list, batch, waits>>
  BY DEF Priced, IInv, Types, Jobs
<1>2. /\ pc'["list"] = pc["list"] /\ pc'["refresh"] = "savePrices"
      /\ tokens'["list"] = tokens["list"] /\ tokens'["refresh"] = copy
  BY <1>1 DEF Go, IInv, Types, Jobs
<1>3. stamp' > 0
  BY <1>1, Bounds DEF IInv, Types, Stamps
<1>4. DOMAIN copy = DOMAIN tokens["refresh"]
      /\ \A d \in DOMAIN copy : copy[d] = IF d \in batch THEN stamp' ELSE tokens["refresh"][d]
  OBVIOUS
<1> HIDE DEF copy
<1>5. RefreshFits(c, A, short)'
  <2>1. SUFFICES ASSUME DOMAIN tokens["refresh"] \subseteq DOMAIN list.of, c \in DOMAIN tokens["refresh"] \ batch
                 PROVE  /\ Fits(c, A, short, copy) /\ A \intersect batch = {}
                        /\ short => Cardinality(batch) = Batch
    BY <1>1, <1>2, <1>4 DEF RefreshFits, Fits
  <2>2. /\ Fits(c, A, short, tokens["refresh"]) /\ A \intersect batch = {}
        /\ short => Cardinality(batch) = Batch
    BY <1>1, <2>1 DEF Behind, RefreshFits, Holding, Asking
  <2>3. Fits(c, A, short, copy)
    BY <1>3, <1>4, <2>1, <2>2 DEF Fits
  <2> QED
    BY <2>2, <2>3
<1> QED
  BY <1>1, <1>2, <1>5, ListUntouched DEF Behind

LEMMA AskedBehind ==
  ASSUME IInv, NEW c, NEW A, NEW short, Behind(c, A, short), AskFails \/ SaveTokensPrices
  PROVE  Behind(c, A, short)' /\ waits' = waits
<1>1. CASE AskFails
  BY <1>1, EndSettled, BehindKept DEF AskFails, Jobs
<1>2. CASE SaveTokensPrices
  <2>1. pc["refresh"] = "savePrices" /\ Go("refresh", "saveList") /\ UNCHANGED <<list, tokens, batch, waits>>
    BY <1>2 DEF SaveTokensPrices
  <2>2. ListSettled /\ RefreshSettled
    BY <2>1 DEF Go, ListSettled, RefreshSettled, Holding, Asking, IInv, Types, Jobs
  <2> QED
    BY <2>1, <2>2, BehindKept
<1> QED
  BY <1>1, <1>2

(* The arithmetic of a save: a full batch counts for one more wait, and    *)
(* one batch short of full is made good by the others.                     *)
LEMMA OneMoreWait ==
  ASSUME NEW w \in Nat, NEW A, IsFiniteSet(A), NEW b, IsFiniteSet(b), Cardinality(b) \in 1..Batch,
         A \intersect b = {}, NEW short \in BOOLEAN, Counted(w, A, short),
         short => Cardinality(b) = Batch
  PROVE  Counted(w + 1, A \union b, short \/ Cardinality(b) # Batch)
<1>1. Cardinality(A \union b) = Cardinality(A) + Cardinality(b)
  <2>1. Cardinality(A \intersect b) = 0
    BY FS_EmptySet
  <2>2. Cardinality(A \union b) = Cardinality(A) + Cardinality(b) - Cardinality(A \intersect b)
    BY FS_Union
  <2>3. Cardinality(A) \in Nat /\ Cardinality(b) \in Nat
    BY FS_CardinalityType
  <2> QED
    BY <2>1, <2>2, <2>3
<1>2. Batch * (w + 1) = Batch * w + Batch /\ Batch * w \in Nat
  BY Bounds
<1>3. Cardinality(A) \in Nat
  BY FS_CardinalityType
<1> DEFINE n == Batch * w
           more == Batch * (w + 1)
<1> HIDE DEF n, more
<1>4. n \in Nat /\ more = n + Batch /\ n <= Cardinality(A) + IF short THEN Batch - 1 ELSE 0
  BY <1>2 DEF n, more, Counted
<1>5. more <= Cardinality(A \union b) + IF short \/ Cardinality(b) # Batch THEN Batch - 1 ELSE 0
  BY <1>1, <1>3, <1>4, Bounds
<1> QED
  BY <1>5 DEF more, Counted

(* The list is saved with the stamps of a batch: those of the batch are    *)
(* now ahead of the coins that still wait.                                 *)
LEMMA SavedBehind ==
  ASSUME IInv, BatchChosen, BatchNewest, SaveList,
         NEW c \in Coins, NEW A \in SUBSET (Coins \ {c}), NEW short \in BOOLEAN,
         Counted(waits[c], A, short), Behind(c, A, short), waits'[c] # 0
  PROVE  \E B \in SUBSET (Coins \ {c}), none \in BOOLEAN :
           Counted(waits'[c], B, none) /\ Behind(c, B, none)'
<1> DEFINE copy == tokens["refresh"]
           mine == tokens["list"]
<1>1. pc["refresh"] = "saveList" /\ SaveTokensList("refresh", batch) /\ End("refresh")
  BY DEF SaveList
<1>2. CASE UNCHANGED <<list, waits>>
  BY <1>1, <1>2, EndSettled, BehindKept DEF Jobs
<1>3. CASE /\ list' = [ttl |-> Life, of |-> copy]
           /\ waits' = [d \in Coins |->
                IF Upsets(copy) \/ d \in batch \/ d \notin DOMAIN copy THEN 0
                ELSE IF batch # {} THEN waits[d] + 1 ELSE waits[d]]
  <2>1. copy \in Stamped /\ mine \in Stamped /\ waits[c] \in Nat
    BY DEF IInv, Types, Jobs
  <2>2. /\ batch # {} /\ batch \subseteq DOMAIN copy /\ Cardinality(batch) <= Batch
        /\ Cardinality(batch) = Batch \/ \A d \in DOMAIN copy \ batch : copy[d] > 0
    BY <1>1 DEF IInv, BatchFits, BatchChosen, Asking
  <2>3. ~Upsets(copy) /\ c \in DOMAIN copy \ batch /\ waits'[c] = waits[c] + 1
    BY <1>3, <2>2
  <2>4. DOMAIN copy \subseteq DOMAIN list.of /\ list'.of = copy
    BY <1>3, <2>1, <2>3, Undisturbed DEF IInv
  <2>5. /\ Fits(c, A, short, copy) /\ A \intersect batch = {}
        /\ short => Cardinality(batch) = Batch
    BY <1>1, <2>3, <2>4 DEF Behind, RefreshFits, Holding, Asking
  <2>6. /\ \A d \in DOMAIN copy : IF d \in batch THEN copy[d] = stamp ELSE copy[d] < stamp
        /\ stamp > 0 /\ \A d \in DOMAIN mine : mine[d] < stamp
    BY <1>1 DEF BatchNewest, Before
  <2>7. IsFiniteSet(A) /\ IsFiniteSet(batch) /\ Cardinality(batch) \in 1..Batch /\ batch \subseteq Coins
    <3>1. batch \subseteq Coins
      BY <2>1, <2>2, StampsNat
    <3>2. IsFiniteSet(A) /\ IsFiniteSet(batch)
      BY <3>1, Bounds, FS_Subset
    <3>3. Cardinality(batch) \in Nat /\ Cardinality(batch) # 0
      BY <2>2, <3>2, FS_EmptySet, FS_CardinalityType
    <3> QED
      BY <2>2, <3>1, <3>2, <3>3, Bounds
  <2>8. pc'["refresh"] = "idle" /\ pc'["list"] = pc["list"] /\ tokens'["list"] = mine
    BY <1>1, Ended DEF Jobs
  <2>9. PICK B \in SUBSET (Coins \ {c}), none \in BOOLEAN :
          /\ B = A \union batch /\ none = (short \/ Cardinality(batch) # Batch)
          /\ Counted(waits'[c], B, none)
    <3>1. Counted(waits[c] + 1, A \union batch, short \/ Cardinality(batch) # Batch)
      BY <2>1, <2>5, <2>7, OneMoreWait
    <3> QED
      BY <2>3, <2>7, <3>1
  <2>10. none => \A d \in DOMAIN copy : copy[d] > 0
    BY <2>2, <2>3, <2>5, <2>6, <2>9 DEF Fits
  <2>11. Fits(c, B, none, copy)
    BY <2>3, <2>5, <2>6, <2>9, <2>10 DEF Fits
  <2>12. ListFits(c, B, none)'
    <3>1. SUFFICES ASSUME pc["list"] = "saveFetched", ~Upsets(tokens["list"])'
                   PROVE  Fits(c, B, none, mine)
      BY <2>8 DEF ListFits, Fits
    <3>2. ~Upsets(mine) /\ DOMAIN mine \subseteq DOMAIN copy /\ \A d \in DOMAIN mine : mine[d] >= copy[d]
      BY <1>3, <2>1, <2>3, <2>8, <3>1, UpsetsLess DEF IInv
    <3>3. Fits(c, A, short, mine)
      BY <3>1, <3>2 DEF Behind, ListFits
    <3>4. DOMAIN mine \intersect batch = {}
      <4>1. \A d \in DOMAIN mine : mine[d] \in Nat
        BY <2>1, StampsNat
      <4>2. stamp \in Int
        BY Bounds DEF IInv, Types, Stamps
      <4> HIDE DEF copy, mine
      <4> QED
        BY <2>6, <3>2, <4>1, <4>2
    <3>5. none => \A d \in DOMAIN mine : mine[d] > 0
      <4>1. /\ \A d \in DOMAIN mine : mine[d] \in Nat
            /\ \A d \in DOMAIN copy : copy[d] \in Nat
        BY <2>1, StampsNat
      <4> HIDE DEF copy, mine
      <4> QED
        BY <2>10, <3>2, <4>1
    <3> HIDE DEF copy, mine
    <3> QED
      BY <2>9, <3>3, <3>4, <3>5 DEF Fits
  <2>13. RefreshFits(c, B, none)'
    BY <2>8 DEF RefreshFits, Holding, Asking
  <2>14. Behind(c, B, none)'
    BY <2>4, <2>11, <2>12, <2>13 DEF Behind, Fits
  <2> QED
    BY <2>9, <2>14
<1> QED
  BY <1>1, <1>2, <1>3 DEF SaveTokensList

LEMMA RotatesKept ==
  ASSUME IInv, RInv, Next
  PROVE  Rotates'
<1> SUFFICES ASSUME NEW c \in Coins
             PROVE  \E A \in SUBSET (Coins \ {c}), short \in BOOLEAN :
                      Counted(waits'[c], A, short) /\ Behind(c, A, short)'
  BY DEF Rotates, Counted
<1>1. CASE waits'[c] = 0
  <2>1. Cardinality({}) = 0
    BY FS_EmptySet
  <2>2. Counted(waits'[c], {}, FALSE)
    BY <1>1, <2>1, Bounds DEF Counted
  <2>3. Behind(c, {}, FALSE)'
    BY DEF Behind, Fits, ListFits, RefreshFits
  <2> QED
    BY <2>2, <2>3
<1>2. CASE waits'[c] # 0
  <2>1. PICK A \in SUBSET (Coins \ {c}), short \in BOOLEAN :
          Counted(waits[c], A, short) /\ Behind(c, A, short)
    BY DEF RInv, Rotates
  <2>2. CASE SaveList
    BY <1>2, <2>1, <2>2, SavedBehind DEF RInv
  <2>3. CASE ~SaveList
    <3>1. waits'[c] = waits[c] /\ Behind(c, A, short)'
      <4>1. ASSUME NEW j \in Jobs, PrepareTokens(j)
            PROVE  waits'[c] = waits[c] /\ Behind(c, A, short)'
        <5>1. waits' # [d \in Coins |-> 0]
          BY <1>2
        <5> QED
          BY <2>1, <4>1, <5>1, PreparedBehind
      <4>2. ASSUME NEW j \in Jobs, SaveFetched(j)
            PROVE  waits'[c] = waits[c] /\ Behind(c, A, short)'
        BY <1>2, <2>1, <4>2, FetchedBehind
      <4>3. ASSUME NEW j \in Jobs, Start(j) \/ FetchTokens(j) \/ Kill(j)
            PROVE  waits'[c] = waits[c] /\ Behind(c, A, short)'
        BY <2>1, <4>3, IdleBehind
      <4>4. CASE GetTokensList \/ GetTokensPrices \/ Priced \/ AskFails \/ SaveTokensPrices \/ Hour
        BY <2>1, <4>4, ReadBehind, ChosenBehind, PricedBehind, AskedBehind, HourBehind
      <4> QED
        BY <2>3, <4>1, <4>2, <4>3, <4>4 DEF Next
    <3> QED
      BY <2>1, <3>1
  <2> QED
    BY <2>2, <2>3
<1> QED
  BY <1>1, <1>2

(* The refresh is between jobs, or its batch not chosen yet.               *)
LEMMA NoBatchYet == ASSUME pc'["refresh"] \notin Asking PROVE BatchChosen' /\ BatchNewest'
  BY DEF BatchChosen, BatchNewest, Asking

(* Steps of the list job: its copy, and the list it saves, have only       *)
(* stamps older than the refresh's own.                                    *)
LEMMA ListJobBatches ==
  ASSUME IInv, BatchChosen, BatchNewest,
         Start("list") \/ FetchTokens("list") \/ PrepareTokens("list") \/ SaveFetched("list") \/ Kill("list")
  PROVE  BatchChosen' /\ BatchNewest'
<1>1. UNCHANGED <<stamp, batch>> /\ pc'["refresh"] = pc["refresh"] /\ tokens'["refresh"] = tokens["refresh"]
  BY DEF Start, FetchTokens, PrepareTokens, SaveFetched, Kill, End, Go, IInv, Types, Jobs
<1>2. BatchChosen'
  BY <1>1 DEF BatchChosen
<1>3. BatchNewest'
  <2>1. SUFFICES ASSUME pc["refresh"] \in {"savePrices", "saveList"}
                 PROVE  Before(list'.of) /\ Before(tokens'["list"])
    BY <1>1 DEF BatchNewest, Before
  <2>2. stamp > 0 /\ Before(list.of) /\ Before(tokens["list"])
    BY <2>1 DEF BatchNewest
  <2>3. list'.of = list.of \/ list'.of = tokens["list"]
    BY DEF Start, FetchTokens, PrepareTokens, SaveFetched, SaveTokensList, Kill
  <2>4. Before(NoCoins)
    BY NoCoinsIsStamped DEF Before
  <2>5. Before(tokens'["list"])
    <3>1. CASE Start("list")
      BY <2>2, <3>1 DEF Start
    <3>2. CASE End("list")
      BY <2>4, <3>2 DEF End, IInv, Types, Jobs
    <3>3. CASE FetchTokens("list") /\ ~End("list")
      <4>1. PICK listing \in Listings : tokens' = [tokens EXCEPT !["list"] = [c \in listing |-> 0]]
        BY <3>3 DEF FetchTokens
      <4>2. tokens'["list"] = [c \in listing |-> 0]
        BY <4>1 DEF IInv, Types, Jobs
      <4> QED
        BY <2>2, <4>2 DEF Before
    <3>4. CASE PrepareTokens("list")
      <4>1. PICK known \in {list.of, NoCoins} :
              tokens' = [tokens EXCEPT !["list"] =
                [c \in DOMAIN tokens["list"] |-> IF c \in DOMAIN known THEN known[c] ELSE 0]]
        BY <3>4 DEF PrepareTokens, IInv, Types, Jobs
      <4>2. tokens'["list"] = [c \in DOMAIN tokens["list"] |-> IF c \in DOMAIN known THEN known[c] ELSE 0]
        BY <4>1 DEF IInv, Types, Jobs
      <4> QED
        BY <2>2, <2>4, <4>1, <4>2 DEF Before
    <3> QED
      BY <3>1, <3>2, <3>3, <3>4 DEF SaveFetched, Kill
  <2> QED
    BY <2>2, <2>3, <2>5
<1> QED
  BY <1>2, <1>3

LEMMA BatchesKept ==
  ASSUME IInv, BatchChosen, BatchNewest, Next
  PROVE  BatchChosen' /\ BatchNewest'
<1>1. ASSUME NEW j \in Jobs,
             Start(j) \/ FetchTokens(j) \/ PrepareTokens(j) \/ SaveFetched(j) \/ Kill(j)
      PROVE  BatchChosen' /\ BatchNewest'
  <2>1. CASE j = "list"
    BY <1>1, <2>1, ListJobBatches
  <2>2. CASE j = "refresh"
    <3>1. pc'["refresh"] \notin Asking
      BY <1>1, <2>2 DEF Start, FetchTokens, PrepareTokens, SaveFetched, Kill, End, Go, Asking, IInv, Types, Jobs
    <3> QED
      BY <3>1, NoBatchYet
  <2> QED
    BY <2>1, <2>2 DEF Jobs
<1>2. CASE GetTokensList \/ AskFails \/ SaveList \/ Hour
  <2>1. pc'["refresh"] \notin Asking
    BY <1>2 DEF GetTokensList, AskFails, SaveList, Hour, End, Go, Asking, IInv, Types, Jobs, jobVars
  <2> QED
    BY <2>1, NoBatchYet
<1>3. CASE GetTokensPrices
  <2>1. CASE End("refresh")
    BY <2>1, Ended, NoBatchYet DEF Asking, Jobs
  <2>2. CASE ~End("refresh")
    <3>1. /\ DOMAIN tokens["refresh"] # {} /\ batch' \in GetOldestTokens(tokens["refresh"])
          /\ Go("refresh", "ask") /\ UNCHANGED tokens
      BY <1>3, <2>2 DEF GetTokensPrices
    <3>2. pc'["refresh"] = "ask"
      BY <3>1 DEF Go, IInv, Types, Jobs
    <3>3. tokens["refresh"] \in Stamped
      BY DEF IInv, Types, Jobs
    <3>4. /\ batch' # {}
          /\ Cardinality(batch') = Batch \/ \A d \in DOMAIN tokens["refresh"] \ batch' : tokens["refresh"][d] > 0
      BY <3>1, <3>3, ShortTakesAll
    <3> QED
      BY <3>1, <3>2, <3>4 DEF BatchChosen, BatchNewest
  <2> QED
    BY <2>1, <2>2
<1>4. CASE Priced
  <2> DEFINE copy == [d \in DOMAIN tokens["refresh"] |-> IF d \in batch THEN stamp' ELSE tokens["refresh"][d]]
  <2>1. /\ tokens' = [tokens EXCEPT !["refresh"] = copy] /\ stamp' = stamp + 1
        /\ pc["refresh"] = "ask" /\ Go("refresh", "savePrices") /\ UNCHANGED <<list, batch>>
    BY <1>4 DEF Priced, IInv, Types, Jobs
  <2>2. /\ pc'["refresh"] = "savePrices"
        /\ tokens'["list"] = tokens["list"] /\ tokens'["refresh"] = copy
    BY <2>1 DEF Go, IInv, Types, Jobs
  <2>3. /\ DOMAIN copy = DOMAIN tokens["refresh"]
        /\ \A d \in DOMAIN copy : copy[d] = IF d \in batch THEN stamp' ELSE tokens["refresh"][d]
    OBVIOUS
  <2> HIDE DEF copy
  <2>4. /\ stamp \in Nat /\ Past(list.of) /\ Past(tokens["list"]) /\ Past(tokens["refresh"])
        /\ list.of \in Stamped /\ tokens["list"] \in Stamped /\ tokens["refresh"] \in Stamped
    BY Bounds DEF IInv, Types, AllPast, Jobs, Stamps, Copies
  <2>5. \A f \in Stamped : Past(f) => \A d \in DOMAIN f : f[d] < stamp'
    BY <2>1, <2>4, StampsNat DEF Past
  <2>6. BatchChosen'
    BY <2>1, <2>2, <2>3 DEF BatchChosen, Asking
  <2>7. BatchNewest'
    <3>1. stamp' > 0
      BY <2>1, <2>4
    <3>2. Before(list.of)' /\ Before(tokens["list"])'
      BY <2>1, <2>2, <2>4, <2>5 DEF Before
    <3>3. \A d \in DOMAIN copy : IF d \in batch THEN copy[d] = stamp' ELSE copy[d] < stamp'
      BY <2>3, <2>4, <2>5
    <3> QED
      BY <2>1, <2>2, <3>1, <3>2, <3>3 DEF BatchNewest
  <2> QED
    BY <2>6, <2>7
<1>5. CASE SaveTokensPrices
  <2>1. /\ pc["refresh"] = "savePrices" /\ Go("refresh", "saveList")
        /\ UNCHANGED <<list, stamp, tokens, batch>>
    BY <1>5 DEF SaveTokensPrices
  <2>2. pc'["refresh"] = "saveList"
    BY <2>1 DEF Go, IInv, Types, Jobs
  <2> QED
    BY <2>1, <2>2 DEF BatchChosen, BatchNewest, Before, Asking
<1> QED
  BY <1>1, <1>2, <1>3, <1>4, <1>5 DEF Next

LEMMA InitRInv == Init => RInv
<1> SUFFICES ASSUME Init PROVE RInv
  OBVIOUS
<1>1. BatchChosen /\ BatchNewest
  BY DEF Init, BatchChosen, BatchNewest, Asking, Jobs
<1>2. Rotates
  <2> SUFFICES ASSUME NEW c \in Coins
               PROVE  Counted(waits[c], {}, FALSE) /\ Behind(c, {}, FALSE)
    BY DEF Rotates
  <2>1. Cardinality({}) = 0
    BY FS_EmptySet
  <2> QED
    BY <2>1, Bounds DEF Init, Counted, Behind, Fits, ListFits, RefreshFits
<1> QED
  BY <1>1, <1>2 DEF RInv

LEMMA NextRInv == IInv /\ RInv /\ [Next]_vars => RInv'
<1> SUFFICES ASSUME IInv, RInv, [Next]_vars PROVE RInv'
  OBVIOUS
<1>1. CASE UNCHANGED vars
  BY <1>1 DEF vars, jobVars, RInv, BatchChosen, BatchNewest, Before, Rotates, Counted, Behind, Fits,
              ListFits, RefreshFits, Upsets
<1>2. CASE Next
  BY <1>2, RotatesKept, BatchesKept DEF RInv
<1> QED
  BY <1>1, <1>2

(* Whatever the two jobs' steps and failures, a coin that waited for its   *)
(* price is behind as many others as were asked for since, so between      *)
(* upsets it waits no longer than once round the list: getOldestTokens     *)
(* with updateLastUpdated is a rotation.                                   *)
THEOREM RotationKept == Spec => []RotationBound
<1>1. IInv /\ RInv => RotationBound
  <2> SUFFICES ASSUME IInv, RInv, NEW c \in Coins
               PROVE  Batch * (waits[c] - 1) < Cardinality(Coins)
    BY DEF RotationBound
  <2>1. PICK A \in SUBSET (Coins \ {c}), short \in BOOLEAN : Counted(waits[c], A, short)
    BY DEF RInv, Rotates
  <2>2. IsFiniteSet(Coins) /\ Cardinality(Coins) \in Nat
    BY Bounds, FS_CardinalityType
  <2>3. Cardinality(A) < Cardinality(Coins)
    BY <2>1, <2>2, FS_Subset, FS_CardinalityType
  <2>4. Cardinality(A) \in Nat
    BY <2>1, <2>2, FS_Subset, FS_CardinalityType
  <2> DEFINE n == Batch * waits[c]
             less == Batch * (waits[c] - 1)
  <2>5. waits[c] \in Nat
    BY DEF IInv, Types
  <2>6. less = n - Batch /\ n \in Nat
    BY <2>5, Bounds
  <2>7. n <= Cardinality(A) + IF short THEN Batch - 1 ELSE 0
    BY <2>1 DEF Counted
  <2> HIDE DEF n, less
  <2>8. less < Cardinality(Coins)
    BY <2>2, <2>3, <2>4, <2>6, <2>7, Bounds
  <2> QED
    BY <2>8 DEF less
<1>2. Spec => []RInv
  BY InitRInv, NextRInv, InductiveInvariant, PTL DEF Spec
<1> QED
  BY <1>1, <1>2, InductiveInvariant, PTL
=============================================================================
