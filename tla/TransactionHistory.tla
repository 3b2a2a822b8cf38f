------------------------ MODULE TransactionHistory ------------------------
(***************************************************************************)
(* The list of an account's transactions, page by page, from the request   *)
(* to the RPC node and back, in one container.  A first page comes through *)
(* a cache of fifteen seconds that coalesces equal requests; a deeper page *)
(* starts behind the signature that the page before it named.  A page is   *)
(* enriched by Triton and the local parser, or bare, from the RPC node.    *)
(*                                                                         *)
(* The transactions of the account are numbered as they land, 1 the        *)
(* oldest.  Time counts in seconds of the cache's life.                    *)
(***************************************************************************)
EXTENDS Integers, FiniteSets, Sequences, SequencesExt, FiniteSetsExt

CONSTANTS
  Readers,            \* clients walking the list
  Queries,            \* what they ask for: a page size, and includeSpam or not
  First, Newest,      \* transactions at the start, and at most
  Spam, Housekeeping, \* those that isSpamReceive and isHousekeeping tell
  CacheTtl,           \* CACHE_TTL
  MaxCacheEntries,    \* MAX_CACHE_ENTRIES
  MaxHistoryBatch,    \* MAX_HISTORY_BATCH
  Hosted,             \* isEnhancedApiSupported: Triton hosts the environment
  LastSecond,         \* bound on the clock
  MaxRefreshes,       \* bound on the lists opened anew
  MaxLosses,          \* bound on failed calls and transactions left out
  None

ASSUME HistoryAssumption ==
  /\ Queries \subseteq [size : Nat \ {0}, includeSpam : BOOLEAN] /\ First \in Nat /\ Newest \in Nat
  /\ CacheTtl \in Nat \ {0} /\ MaxCacheEntries \in Nat \ {0} /\ MaxHistoryBatch \in Nat \ {0}
  /\ MaxLosses \in Nat /\ MaxRefreshes \in Nat /\ LastSecond \in Nat
  /\ None \notin Readers \cup Queries \cup Nat

VARIABLES
  tip,                \* the newest transaction that landed
  now,
  cache,              \* the Map's entries, in order of insertion
  pending,            \* the reader that loads each query's first page, or None
  reader,             \* each client's request and what it was shown
  faults, refreshes,
  stores              \* history: the loads that ended in the cache

historyVars == <<tip, now, cache, pending, reader, faults, refreshes, stores>>

(* A page: what it lists; what was read for it, and not be had; the token  *)
(* it names; the tier that made it; and the tip when it was read.          *)
NoPage == [listed |-> {}, read |-> {}, missing |-> {}, token |-> None, bare |-> FALSE, tip |-> 0]

Idle == [pc |-> "idle", query |-> None, token |-> None, page |-> NoPage, pages |-> <<>>,
         begun |-> 0, before |-> 0]

HistoryInit ==
  /\ tip = First /\ now = 0
  /\ cache = <<>> /\ pending = [q \in Queries |-> None]
  /\ reader = [r \in Readers |-> Idle]
  /\ faults = 0 /\ refreshes = 0 /\ stores = <<>>

Proceed(r, pc) == reader' = [reader EXCEPT ![r].pc = pc]
Outside == UNCHANGED <<tip, now, refreshes>>

-----------------------------------------------------------------------------
(* The answer of a page, and of everyone who waits for it.                 *)

Deliver(page, rs) ==
  [r \in Readers |->
     IF r \in rs THEN [reader[r] EXCEPT !.pc = IF page.token = None THEN "done" ELSE "idle",
                                        !.token = page.token, !.pages = Append(@, page), !.page = NoPage,
                                        !.begun = 0, !.before = 0]
     ELSE reader[r]]

Waiting(q) == {r \in Readers : reader[r].pc = "await" /\ reader[r].query = q}

-----------------------------------------------------------------------------
(* transaction-history-cache.js                                            *)

Keys == {cache[i].key : i \in DOMAIN cache}
Place(q) == CHOOSE i \in DOMAIN cache : cache[i].key = q
Entry(q) == cache[Place(q)]
Without(q) ==
  IF q \in Keys THEN RemoveAt(cache, Place(q)) ELSE cache

FirstCall(token) ==
  CASE ~Hosted                  -> "rpcSignatures"
    [] Hosted /\ token = None   -> "singleCall"
    [] Hosted /\ token # None   -> "signatures"

Loader(r, q) ==
  /\ pending' = [pending EXCEPT ![q] = r]
  /\ reader' = [reader EXCEPT ![r].pc = FirstCall(None), ![r].query = q,
                              ![r].begun = now, ![r].before = Len(stores)]

(* Wrong on purpose: a load under way is not looked for.                 *)
FirstPageUncoalesced(r, q) ==
  LET hit == q \in Keys /\ Entry(q).expiresAt > now
  IN  IF hit
      THEN reader' = [Deliver(Entry(q).value, {r}) EXCEPT ![r].query = q] /\ UNCHANGED <<cache, pending>>
      ELSE cache' = Without(q) /\ Loader(r, q)

FirstPage(r, q) ==
  LET hit == q \in Keys /\ Entry(q).expiresAt > now
  IN  \/ /\ hit
         /\ reader' = [Deliver(Entry(q).value, {r}) EXCEPT ![r].query = q]
         /\ UNCHANGED <<cache, pending>>
      \/ /\ ~hit /\ cache' = Without(q)
         /\ \/ /\ pending[q] # None
               /\ reader' = [reader EXCEPT ![r].pc = "await", ![r].query = q]
               /\ UNCHANGED pending
            \/ pending[q] = None /\ Loader(r, q)

(* The oldest insertion makes room.                                        *)
SetCachedValue(q, page) ==
  LET entry == [key |-> q, value |-> page, expiresAt |-> now + CacheTtl]
      kept  == IF Len(cache) >= MaxCacheEntries THEN Tail(cache) ELSE cache
  IN  IF q \in Keys THEN [i \in DOMAIN cache |-> IF cache[i].key = q THEN entry ELSE cache[i]]
      ELSE Append(kept, entry)

(* Loads without the cache, behind a page before, have a token.            *)
Finish(r, page) ==
  LET q == reader[r].query
  IN  IF reader[r].token = None
      THEN /\ cache' = SetCachedValue(q, page)
           /\ pending' = [pending EXCEPT ![q] = None]
           /\ reader' = Deliver(page, {r} \cup Waiting(q))
           /\ stores' = Append(stores, [key |-> q, begun |-> reader[r].begun,
                                        before |-> reader[r].before, at |-> now])
      ELSE /\ reader' = Deliver(page, {r})
           /\ UNCHANGED <<cache, pending, stores>>

(* Wrong on purpose: only a load that ended well is no longer pending.   *)
RejectKeepingPending(r) ==
  LET q == reader[r].query
      all == IF reader[r].token = None THEN {r} \cup Waiting(q) ELSE {r}
  IN  /\ reader' = [s \in Readers |-> IF s \in all THEN [reader[s] EXCEPT !.pc = "failed"] ELSE reader[s]]
      /\ UNCHANGED <<cache, pending, stores>>

(* The rejection reaches the waiting requests too; nothing is stored.      *)
Reject(r) ==
  LET q == reader[r].query
      all == IF reader[r].token = None THEN {r} \cup Waiting(q) ELSE {r}
  IN  /\ reader' = [s \in Readers |-> IF s \in all THEN [reader[s] EXCEPT !.pc = "failed"] ELSE reader[s]]
      /\ pending' = IF reader[r].token = None THEN [pending EXCEPT ![q] = None] ELSE pending
      /\ UNCHANGED <<cache, stores>>

-----------------------------------------------------------------------------
(* Requests.                                                               *)

Request(r) ==
  /\ reader[r].pc = "idle"
  /\ IF reader[r].token = None
     THEN \E q \in Queries : FirstPage(r, q)
     ELSE Proceed(r, FirstCall(reader[r].token)) /\ UNCHANGED <<cache, pending>>
  /\ Outside /\ UNCHANGED <<faults, stores>>

(* The client opens the list anew, whatever became of its last walk.       *)
Refresh(r) ==
  /\ reader[r].pc \in {"done", "failed"} /\ refreshes < MaxRefreshes
  /\ refreshes' = refreshes + 1
  /\ reader' = [reader EXCEPT ![r] = Idle]
  /\ UNCHANGED <<tip, now, cache, pending, faults, stores>>

-----------------------------------------------------------------------------
(* The node's answers: at most n transactions, the newest ones that are    *)
(* older than the cursor.                                                  *)

AtMost(n) == IF n < MaxHistoryBatch THEN n ELSE MaxHistoryBatch

Answer(r) ==
  LET newest == IF reader[r].token = None THEN tip ELSE reader[r].token - 1
      size   == AtMost(reader[r].query.size)
      oldest == IF newest - size + 1 > 1 THEN newest - size + 1 ELSE 1
  IN  oldest .. newest

Cursor(signatures) == IF signatures = {} THEN None ELSE Min(signatures)

(* One call for the transactions themselves, on the first page, if the     *)
(* node knows the method.                                                  *)
GetTransactionsForAddress(r) ==
  /\ reader[r].pc = "singleCall"
  /\ \/ Proceed(r, "signatures")
     \/ reader' = [reader EXCEPT ![r].pc = "enrich",
                       ![r].page = [NoPage EXCEPT !.read = Answer(r), !.token = Cursor(Answer(r)), !.tip = tip]]
  /\ Outside /\ UNCHANGED <<cache, pending, faults, stores>>

GetSignaturesForAddress(r) ==
  /\ reader[r].pc = "signatures"
  /\ reader' = [reader EXCEPT ![r].pc = IF Answer(r) = {} THEN "enrich" ELSE "batch",
                  ![r].page = [NoPage EXCEPT !.read = Answer(r), !.token = Cursor(Answer(r)), !.tip = tip]]
  /\ Outside /\ UNCHANGED <<cache, pending, faults, stores>>

(* A transaction the batch has no result for is left out; the cursor stays *)
(* that of the signatures.                                                 *)
GetParsedTransactionsBatch(r) ==
  /\ reader[r].pc = "batch"
  /\ \E gone \in SUBSET reader[r].page.read :
       /\ faults + Cardinality(gone) <= MaxLosses
       /\ faults' = faults + Cardinality(gone)
       /\ reader' = [reader EXCEPT ![r].pc = "enrich",
                       ![r].page.read = @ \ gone, ![r].page.missing = gone]
  /\ Outside /\ UNCHANGED <<cache, pending, stores>>

(* The filters run here, after the token is set.                           *)
(* A page with nothing read names no token.                                *)
Hidden(q) == Housekeeping \cup IF q.includeSpam THEN {} ELSE Spam

(* Wrong on purpose: the token is that of the last transaction listed.   *)
EnhancedPageOfListed(page, q) ==
  [page EXCEPT !.listed = page.read \ Hidden(q), !.token = Cursor(page.read \ Hidden(q))]

EnhancedPage(page, q) ==
  [page EXCEPT !.listed = page.read \ Hidden(q), !.token = IF page.read = {} THEN None ELSE @]

Enrich(r) ==
  /\ reader[r].pc = "enrich"
  /\ Finish(r, EnhancedPage(reader[r].page, reader[r].query))
  /\ Outside /\ UNCHANGED faults

(* The bare tier: signatures, then the transactions one by one, and no     *)
(* filter.                                                                 *)
RpcSignatures(r) ==
  /\ reader[r].pc = "rpcSignatures"
  /\ reader' = [reader EXCEPT ![r].pc = "rpcTransactions",
                  ![r].page = [NoPage EXCEPT !.listed = Answer(r), !.read = Answer(r), !.bare = TRUE,
                                             !.token = Cursor(Answer(r)), !.tip = tip]]
  /\ Outside /\ UNCHANGED <<cache, pending, faults, stores>>

RpcTransactions(r) ==
  /\ reader[r].pc = "rpcTransactions"
  /\ Finish(r, reader[r].page)
  /\ Outside /\ UNCHANGED faults

(* A call fails.  On the enriched tier a refusal by Triton's gates or a    *)
(* spent budget ends the request, anything else falls back; on the bare    *)
(* tier every failure ends it.                                             *)
EnrichedPlaces == {"singleCall", "signatures", "batch", "enrich"}

CallFails(r) ==
  /\ faults < MaxLosses /\ faults' = faults + 1
  /\ \/ reader[r].pc \in EnrichedPlaces /\ Proceed(r, "rpcSignatures") /\ UNCHANGED <<cache, pending, stores>>
     \/ reader[r].pc \in EnrichedPlaces \cup {"rpcSignatures", "rpcTransactions"} /\ Reject(r)
  /\ Outside

-----------------------------------------------------------------------------
Land ==
  /\ tip < Newest /\ tip' = tip + 1
  /\ UNCHANGED <<now, cache, pending, reader, faults, refreshes, stores>>

SecondPasses ==
  /\ now < LastSecond /\ now' = now + 1
  /\ UNCHANGED <<tip, cache, pending, reader, faults, refreshes, stores>>

Attend(r) ==
  \/ Request(r) \/ GetTransactionsForAddress(r) \/ GetSignaturesForAddress(r)
  \/ GetParsedTransactionsBatch(r) \/ Enrich(r) \/ RpcSignatures(r) \/ RpcTransactions(r)

HistoryNext == (\E r \in Readers : Attend(r) \/ Refresh(r) \/ CallFails(r)) \/ Land \/ SecondPasses

(* A client asks for the next page, and the runtime runs what can run.     *)
HistorySpec == HistoryInit /\ [][HistoryNext]_historyVars /\ \A r \in Readers : WF_historyVars(Attend(r))

-----------------------------------------------------------------------------
(* Where a walk has got to: the last signature a page named.               *)
WalkedTo(r) ==
  LET last == Last(reader[r].pages)
  IN  IF last.token # None THEN last.token
      ELSE IF Len(reader[r].pages) = 1 THEN last.tip + 1 ELSE reader[r].pages[Len(reader[r].pages) - 1].token

(* Whichever tier serves each page, whatever lands between them and        *)
(* however old the first one is, no transaction is listed twice, the pages *)
(* go from newest to oldest, and none is passed over but those the filters *)
(* of an enriched page hide and those a batch had no answer for.  A walk   *)
(* that ends has reached the oldest transaction, or a page of which nothing*)
(* could be read.                                                          *)
WalkExact ==
  \A r \in Readers :
    LET pages == reader[r].pages
        told(p) == p.listed \cup p.missing \cup IF p.bare THEN {} ELSE p.read \cap Hidden(reader[r].query)
    IN  pages # <<>> =>
          /\ \A i, j \in DOMAIN pages : i < j =>
               \A s \in pages[i].listed, t \in pages[j].listed : s > t
          /\ WalkedTo(r) .. pages[1].tip \subseteq UNION {told(pages[i]) : i \in DOMAIN pages}
          /\ reader[r].pc = "done" => WalkedTo(r) = 1 \/ Last(pages).missing # {}

(* The loader of a query runs at most once in a window, whoever asks: two  *)
(* loads of it do not overlap, and the second begins a TTL after the first *)
(* ended, or when the cap has made room for others since                   *)
(* (withCachedTransactionHistory).                                         *)
LoaderOncePerWindow ==
  \A i, j \in DOMAIN stores :
    i < j /\ stores[i].key = stores[j].key =>
      /\ i <= stores[j].before
      /\ \/ stores[j].begun >= stores[i].at + CacheTtl
         \/ Cardinality({stores[k].key : k \in (i + 1) .. stores[j].before}) >= MaxCacheEntries

(* Every request is answered, those that wait for another's load included, *)
(* and every walk ends.                                                    *)
EveryWalkEnds == \A r \in Readers : []<>(reader[r].pc \in {"done", "failed"})
=============================================================================
