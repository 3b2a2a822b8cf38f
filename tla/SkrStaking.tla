---------------------------- MODULE SkrStaking ----------------------------
(***************************************************************************)
(* What a wallet's SKR stake earned, day by day (skr-staking-service.js).  *)
(* The share price is recorded once a day, by a job or by the day's first  *)
(* request; between two records the service walks the owner's staking      *)
(* events back from the shares of today.  Positions, records and events    *)
(* are read one after another while the staking program goes on.           *)
(*                                                                         *)
(* Amounts are in units of SHARE_PRICE_SCALE: divisions are exact here.    *)
(***************************************************************************)
EXTENDS Integers, FiniteSets, Sequences, TLC, SequencesExt, FiniteSetsExt, Functions, Selections

CONSTANTS
  Owners, Positions, OwnerOf,   \* wallets, their stakes, and whose each is
  Asking,                       \* the owners whose requests are followed step by step
  DayLength, LastTick,          \* ticks of a day; bound on the clock
  HistoryDays,                  \* HISTORY_DAYS
  MaxRises, MaxStakeTxs,        \* bounds on payouts and on staking transactions
  MaxUnread                     \* bound on reads that fail or find nothing

ASSUME SkrAssumption ==
  /\ OwnerOf \in [Positions -> Owners] /\ Asking \subseteq Owners /\ DayLength \in Nat \ {0} /\ HistoryDays \in Nat \ {0}
  /\ LastTick \in Nat /\ MaxRises \in Nat /\ MaxStakeTxs \in Nat /\ MaxUnread \in Nat

VARIABLES
  tick,
  price, shares,      \* of the staking program: one share's price, each position's shares
  rises,              \* history: each payout, and the shares that were held
  txs,                \* its transactions, oldest first
  records,            \* skr_share_price: the day's record, in a set of at most one
  txEvents,           \* skr_tx_events: by transaction, what its first reader kept
  job, stakeRead,     \* recordSkrSharePriceJob; each asking owner's request
  unread

skrVars == <<tick, price, shares, rises, txs, records, txEvents, job, stakeRead, unread>>

Days == 0 .. (LastTick \div DayLength)
DayKey(at) == at \div DayLength
Of(o) == {p \in Positions : OwnerOf[p] = o}
Touching(o) == {i \in DOMAIN txs : \E e \in txs[i].events : OwnerOf[e.position] = o}

(* "rise", "read", "heldAt", "listedAt", "unfound" and "borrowed" are      *)
(* history: when a price was read, and what a request missed.              *)
NoJob == [pc |-> "off", at |-> -1, price |-> 0, rise |-> 0, read |-> 0]
NoRead == [pc |-> "idle", at |-> 0, shares |-> <<>>, heldAt |-> 0, price |-> 0, rise |-> 0, read |-> 0,
           records |-> {}, toRead |-> <<>>, listedAt |-> 0, events |-> {}, unfound |-> FALSE,
           borrowed |-> FALSE, history |-> <<>>]

SkrInit ==
  /\ tick = 0 /\ price = 1 /\ shares = [p \in Positions |-> 1]
  /\ rises = <<>> /\ txs = <<>>
  /\ records = [d \in Days |-> {}] /\ txEvents = <<>>
  /\ job = NoJob /\ stakeRead = [o \in Asking |-> NoRead] /\ unread = 0

Program == UNCHANGED <<tick, price, shares, rises, txs>>

-----------------------------------------------------------------------------
(* The staking program, external: one transaction may touch several        *)
(* positions.                                                              *)

Payout ==
  /\ Len(rises) < MaxRises
  /\ price' = price + 1 /\ rises' = Append(rises, shares)
  /\ UNCHANGED <<tick, shares, txs, records, txEvents, job, stakeRead, unread>>

(* Staked and UnstakeCancelled add shares, Unstaked takes them.            *)
ShareEvent(ps, sign) ==
  /\ Len(txs) < MaxStakeTxs /\ \A p \in ps : shares[p] + sign >= 0
  /\ shares' = [p \in Positions |-> IF p \in ps THEN shares[p] + sign ELSE shares[p]]
  /\ txs' = Append(txs, [at |-> tick, events |-> {[position |-> p, sharesDelta |-> sign,
                                                   sharePrice |-> price] : p \in ps}])
  /\ txEvents' = Append(txEvents, [owner |-> {}, events |-> {}])
  /\ UNCHANGED <<tick, price, rises, records, job, stakeRead, unread>>

(* The job is over within its tick, a request before the second one: their *)
(* calls have budgets of seconds.                                          *)
TickOn ==
  /\ tick < LastTick /\ tick' = tick + 1 /\ job.pc = "off"
  /\ \A o \in Asking : stakeRead[o].pc \notin {"idle", "replied"} => stakeRead[o].at = tick
  /\ UNCHANGED <<price, shares, rises, txs, records, txEvents, job, stakeRead, unread>>

-----------------------------------------------------------------------------
(* The daily record.  Its instant is taken before the price is read.       *)

SharePrice(reader) == [reader EXCEPT !.price = price, !.rise = Len(rises), !.read = tick]

StoreSharePrice(r) ==
  records' = [records EXCEPT ![DayKey(r.at)] =
                {[at |-> r.at, price |-> r.price, rise |-> r.rise, read |-> r.read]}]

(* The schedule starts the job once a day.                                 *)
JobStarts ==
  /\ job.pc = "off" /\ (job.at < 0 \/ DayKey(job.at) < DayKey(tick))
  /\ job' = [job EXCEPT !.pc = "read", !.at = tick] /\ UNCHANGED records
JobReads == job.pc = "read" /\ job' = [SharePrice(job) EXCEPT !.pc = "store"] /\ UNCHANGED records
JobStores == job.pc = "store" /\ StoreSharePrice(job) /\ job' = [NoJob EXCEPT !.at = job.at]

RecordSharePrice ==
  (JobStarts \/ JobReads \/ JobStores) /\ Program /\ UNCHANGED <<txEvents, stakeRead, unread>>

-----------------------------------------------------------------------------
(* exactHistory: from the points and the shares of today.  The points are  *)
(* in time; at one instant a record comes first, then the newest event.    *)

RecordPoint(r) == [at |-> r.at, price |-> r.price, delta |-> 0, record |-> TRUE, nth |-> 0]
EventPoint(e)  == [at |-> e.at, price |-> e.sharePrice, delta |-> e.sharesDelta, record |-> FALSE, nth |-> e.nth]

Since(rs) == Min({r.at : r \in rs})

Points(rs, es) == {RecordPoint(r) : r \in rs} \cup {EventPoint(e) : e \in {x \in es : x.at >= Since(rs)}}

Precedes(x, y) == x.at < y.at \/ (x.at = y.at /\ ~y.record /\ (x.record \/ x.nth > y.nth))

FirstPoint(S) == CHOOSE x \in S : \A y \in S \ {x} : Precedes(x, y)
LastPoint(S)  == CHOOSE x \in S : \A y \in S \ {x} : Precedes(y, x)

Earlier(points, y) == {x \in points : Precedes(x, y)}
Onward(points, y)  == points \ Earlier(points, y)
Closing(points, y) == {x \in Onward(points, y) : x.record}

(* The shares up to a point: from those of today, each event undone.       *)
HeldUpTo(points, y, current) == current - Sum(LAMBDA x : x.delta, Onward(points, y))

SegmentEarned(points, y, current) ==
  HeldUpTo(points, y, current) * (y.price - LastPoint(Earlier(points, y)).price)

(* The segments that the record of `at` closes: it is the first from there. *)
ClosedAt(points, at) ==
  {y \in points : Earlier(points, y) # {} /\ Closing(points, y) # {} /\ FirstPoint(Closing(points, y)).at = at}

(* Wrong on purpose: every segment is paid on the shares of today.         *)
ExactHistoryOfToday(rs, es, current) ==
  LET points == Points(rs, es)
      earned(y) == current * (y.price - LastPoint(Earlier(points, y)).price)
  IN  [at \in {r.at : r \in rs} |-> Sum(earned, ClosedAt(points, at))]

ExactHistory(rs, es, current) ==
  LET points == Points(rs, es)
  IN  [at \in {r.at : r \in rs} |-> Sum(LAMBDA y : SegmentEarned(points, y, current), ClosedAt(points, at))]

-----------------------------------------------------------------------------
(* A request, getSkrStake.                                                 *)

Reads(o, from, r) == stakeRead[o].pc = from /\ stakeRead' = [stakeRead EXCEPT ![o] = r]

AskStake(o) ==
  /\ Reads(o, "idle", [stakeRead[o] EXCEPT !.pc = "positions", !.at = tick])
  /\ UNCHANGED <<records, txEvents, unread>>

GetProgramAccounts(o) ==
  /\ Reads(o, "positions", [stakeRead[o] EXCEPT !.pc = "config", !.heldAt = Len(txs),
                                                !.shares = [p \in Of(o) |-> shares[p]]])
  /\ UNCHANGED <<records, txEvents, unread>>

GetStakeConfig(o) ==
  /\ Reads(o, "config", [SharePrice(stakeRead[o]) EXCEPT !.pc = "today"])
  /\ UNCHANGED <<records, txEvents, unread>>

(* sharePriceRecords: the day's record is looked for, then stored, then    *)
(* the records of the window are read.                                     *)
NoRecordToday(o) ==
  /\ records[DayKey(stakeRead[o].at)] = {}
  /\ Reads(o, "today", [stakeRead[o] EXCEPT !.pc = "store"])
  /\ UNCHANGED <<records, txEvents, unread>>

StoreToday(o) ==
  /\ Reads(o, "store", [stakeRead[o] EXCEPT !.pc = "today"]) /\ StoreSharePrice(stakeRead[o])
  /\ UNCHANGED <<txEvents, unread>>

GetRecords(o) ==
  LET today  == DayKey(stakeRead[o].at)
      window == UNION {records[d] : d \in {e \in Days : today - HistoryDays < e /\ e <= today}}
  IN  /\ records[today] # {}
      /\ Reads(o, "today", [stakeRead[o] EXCEPT !.records = window,
                              !.pc = IF Cardinality(window) > 1 THEN "signatures" ELSE "reply"])
      /\ UNCHANGED <<records, txEvents, unread>>

(* ownerEvents: the owner's transactions since the first record, newest    *)
(* first, then each one's events, kept for good under its signature alone. *)
Signatures(o, since) ==
  Reverse(Where([i \in DOMAIN txs |-> i], LAMBDA i : i \in Touching(o) /\ txs[i].at >= since))

GetOwnerSignatures(o) ==
  /\ Reads(o, "signatures", [stakeRead[o] EXCEPT !.pc = "events", !.listedAt = Len(txs),
                                                 !.toRead = Signatures(o, Since(stakeRead[o].records))])
  /\ UNCHANGED <<records, txEvents, unread>>

EventsOf(i, o) ==
  {[at |-> txs[i].at, nth |-> i, position |-> e.position, sharesDelta |-> e.sharesDelta, sharePrice |-> e.sharePrice]
     : e \in {x \in txs[i].events : OwnerOf[x.position] = o}}

TransactionEvents(o) ==
  LET r == stakeRead[o]
      i == Head(r.toRead)
      kept(es, unfound, borrowed) ==
        Reads(o, "events", [r EXCEPT !.toRead = Tail(r.toRead), !.events = r.events \cup es,
                                     !.unfound = @ \/ unfound, !.borrowed = @ \/ borrowed])
  IN  /\ r.toRead # <<>> /\ UNCHANGED records
      /\ \/ /\ txEvents[i].owner # {}
            /\ kept(txEvents[i].events, FALSE, txEvents[i].owner # {o})
            /\ UNCHANGED <<txEvents, unread>>
         \/ /\ txEvents[i].owner = {} /\ kept(EventsOf(i, o), FALSE, FALSE)
            /\ txEvents' = [txEvents EXCEPT ![i] = [owner |-> {o}, events |-> EventsOf(i, o)]]
            /\ UNCHANGED unread
         \/ (* The node has no such transaction: no events, and nothing kept. *)
            /\ txEvents[i].owner = {} /\ unread < MaxUnread /\ unread' = unread + 1
            /\ kept({}, TRUE, FALSE) /\ UNCHANGED txEvents

(* What the request of an owner who is not followed leaves behind.         *)
OtherOwnerReads(i, o) ==
  /\ i \in Touching(o) /\ txEvents[i].owner = {}
  /\ txEvents' = [txEvents EXCEPT ![i] = [owner |-> {o}, events |-> EventsOf(i, o)]]
  /\ Program /\ UNCHANGED <<records, job, stakeRead, unread>>

StakeReply(o) ==
  LET r == stakeRead[o]
      history == IF r.pc = "events" THEN [p \in Of(o) |-> ExactHistory(r.records,
                          {e \in r.events : e.position = p}, r.shares[p])]
                 ELSE <<>>
  IN  /\ r.toRead = <<>> /\ r.pc \in {"events", "reply"}
      /\ Reads(o, r.pc, [r EXCEPT !.pc = "replied", !.history = history])
      /\ UNCHANGED <<records, txEvents, unread>>

(* A call fails: without the events the history is left out, without       *)
(* anything else there is no answer.                                       *)
StakeCallFails(o) ==
  /\ unread < MaxUnread /\ unread' = unread + 1
  /\ \/ \E pc \in {"signatures", "events"} :
          Reads(o, pc, [stakeRead[o] EXCEPT !.pc = "reply", !.toRead = <<>>])
     \/ \E pc \in {"positions", "config"} : Reads(o, pc, NoRead)
  /\ UNCHANGED <<records, txEvents>>

GetSkrStake(o) ==
  /\ \/ AskStake(o) \/ GetProgramAccounts(o) \/ GetStakeConfig(o) \/ NoRecordToday(o) \/ StoreToday(o)
     \/ GetRecords(o) \/ GetOwnerSignatures(o) \/ TransactionEvents(o) \/ StakeReply(o)
     \/ StakeCallFails(o)
  /\ Program /\ UNCHANGED job

SkrNext ==
  \/ Payout \/ TickOn \/ RecordSharePrice
  \/ \E ps \in SUBSET Positions \ {{}}, sign \in {1, -1} : ShareEvent(ps, sign)
  \/ \E o \in Asking : GetSkrStake(o)
  \/ \E i \in DOMAIN txs, o \in Owners \ Asking : OtherOwnerReads(i, o)

SkrSpec == SkrInit /\ [][SkrNext]_skrVars

-----------------------------------------------------------------------------
(* What the position earned between two records, from the payouts          *)
(* themselves.                                                             *)
Earned(p, a, b) ==
  Sum(LAMBDA k : rises[k][p], (a.rise + 1) .. b.rise)

(* Nothing staked between a record's instant and the reading of its price. *)
Quiet(r, o) == \A i \in Touching(o) : ~(r.at <= txs[i].at /\ txs[i].at <= r.read)

RowsAre(o, r) ==
  \A p \in DOMAIN r.history : \A a, b \in r.records :
    a.read < b.at /\ Quiet(a, o) /\ Quiet(b, o) =>
      Sum(LAMBDA at : r.history[p][at], {at \in DOMAIN r.history[p] : a.at < at /\ at <= b.at}) = Earned(p, a, b)

(* Stakes and unstakes of the owner in one second, or while its positions  *)
(* and events were read.                                                   *)
Calm(o, r) ==
  /\ \A i, j \in Touching(o) : i # j => txs[i].at # txs[j].at
  /\ \A i \in Touching(o) : i <= r.heldAt \/ i > r.listedAt

(* A history that is given says between any two quiet records what the     *)
(* position earned, stakes and unstakes between them included, when the    *)
(* read was calm, every transaction was found and none was kept by the     *)
(* request of another owner that it touches too (exactHistory,             *)
(* ownerEvents).                                                           *)
CalmHistoryExact ==
  \A o \in Asking : LET r == stakeRead[o] IN
    r.pc = "replied" /\ Calm(o, r) /\ ~r.unfound /\ ~r.borrowed => RowsAre(o, r)
=============================================================================
