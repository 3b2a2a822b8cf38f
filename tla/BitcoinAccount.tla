--------------------------- MODULE BitcoinAccount ---------------------------
(***************************************************************************)
(* A Bitcoin address read off two Esplora hosts: its mined transactions,   *)
(* page by page, and its unspent outputs.  The hosts serve the same chain  *)
(* and differ in how many transactions their first answer holds; each call *)
(* starts at the first of them.                                            *)
(*                                                                         *)
(* The transactions that touch the address are numbered as they are mined. *)
(* An output is named by its transaction and its place there.              *)
(***************************************************************************)
EXTENDS Integers, FiniteSets, Sequences, SequencesExt, FiniteSetsExt, Functions, Selections

CONSTANTS
  BtcChain,                 \* the transactions: what each spends, and pays
  FirstMined,               \* how many of them are mined at the start
  ChainPage,                \* ESPLORA_CHAIN_PAGE
  FirstAnswer,              \* the most mined ones of each host's first answer
  BtcSizes,                 \* page sizes that are asked for
  MinPageSize, MaxPageSize, \* MIN_PAGE_SIZE, MAX_PAGE_SIZE (and DEFAULT_PAGE_SIZE)
  MaxHostFailures, MaxReopened,
  Nothing

ASSUME BitcoinAssumption ==
  /\ FirstMined \in 0 .. Len(BtcChain) /\ ChainPage \in Nat \ {0}
  /\ FirstAnswer \in Seq(Nat) /\ FirstAnswer # <<>> /\ \A h \in DOMAIN FirstAnswer : FirstAnswer[h] >= ChainPage
  /\ BtcSizes \subseteq Int /\ MinPageSize \in Nat \ {0} /\ MaxPageSize \in Nat /\ MinPageSize <= MaxPageSize
  /\ MaxHostFailures \in Nat /\ MaxReopened \in Nat /\ Nothing \notin Int

VARIABLES
  mined,                    \* the newest transaction in a block
  pooled,                   \* the transactions after it that wait for one
  btc,                      \* the wallet's request, and what it was shown
  firstPages,               \* the cached first page of each size, or Nothing
  hostFailures, reopened

btcVars == <<mined, pooled, btc, firstPages, hostFailures, reopened>>

NoBtc == [pc |-> "idle", host |-> 1, size |-> 0, token |-> Nothing, cursor |-> Nothing, confirmed |-> <<>>,
          tip |-> 0, shown |-> <<>>, utxos |-> {}]

BtcInit ==
  /\ mined = FirstMined /\ pooled = 0 /\ btc = NoBtc
  /\ firstPages = [s \in BtcSizes |-> Nothing] /\ hostFailures = 0 /\ reopened = 0

-----------------------------------------------------------------------------
(* The chain: a transaction takes outputs of the address, by name, and of  *)
(* others, and pays to "own" and to "other"; a data output pays nothing.   *)

Places(list, whose) == {i \in DOMAIN list : list[i].by = whose}

OwnOutputs(n) == {<<n, i>> : i \in Places(BtcChain[n].pays, "own")}
Spends(n)     == {BtcChain[n].takes[i].output : i \in Places(BtcChain[n].takes, "own")}

OutputsOf(last) == UNION {OwnOutputs(n) : n \in 1 .. last}
SpentBy(last)   == UNION {Spends(n) : n \in 1 .. last}
ValueOf(o)      == BtcChain[o[1]].pays[o[2]].amount

Inputs  == [by : {"own", "other"}, output : (Nat \X Nat) \cup {<<>>}, amount : Nat]
Outputs == [by : {"own", "other"}, amount : Nat]

(* An output is spent once, by a later transaction, for what it is worth.  *)
ASSUME ChainAssumption ==
  /\ BtcChain \in Seq([takes : Seq(Inputs), pays : Seq(Outputs)])
  /\ \A n \in DOMAIN BtcChain : \A i \in Places(BtcChain[n].takes, "own") :
       LET input == BtcChain[n].takes[i]
       IN  /\ input.output \in OutputsOf(n - 1) /\ input.amount = ValueOf(input.output)
           /\ \A m \in DOMAIN BtcChain : \A j \in Places(BtcChain[m].takes, "own") :
                BtcChain[m].takes[j].output = input.output => m = n /\ j = i

-----------------------------------------------------------------------------
(* bitcoin-transaction-resource.js, of the events of esplora-mappers.js    *)

ToTransaction(n) ==
  <<[type |-> "fee", by |-> "none", amount |-> 0]>>
  \o [i \in DOMAIN BtcChain[n].takes |->
        [type |-> "utxo_input", by |-> BtcChain[n].takes[i].by, amount |-> BtcChain[n].takes[i].amount]]
  \o [i \in DOMAIN BtcChain[n].pays |->
        [type |-> "utxo_output", by |-> BtcChain[n].pays[i].by, amount |-> BtcChain[n].pays[i].amount]]

Own(events, type)  == {k \in DOMAIN events : events[k].type = type /\ events[k].by = "own"}
Legs(events, type) == SelectAt(events, {k \in Own(events, type) : events[k].amount # 0})

(* One input, or one output, of the address's own; it may have several.    *)
GetBtcType(events) ==
  LET source      == Cardinality(Own(events, "utxo_input")) = 1
      destination == Cardinality(Own(events, "utxo_output")) = 1
  IN  IF source = destination THEN "unknown" ELSE IF source THEN "send" ELSE "receive"

GetBtcFee(events) == Own(events, "utxo_output") # {}

DecorateTransaction(n) ==
  LET events == ToTransaction(n)
  IN  [id |-> n, type |-> GetBtcType(events), fee |-> GetBtcFee(events),
       inputs |-> Legs(events, "utxo_output"), outputs |-> Legs(events, "utxo_input")]

-----------------------------------------------------------------------------
(* esplora-client.js: for each call the hosts are tried in turn.           *)

Elsewhere == UNCHANGED <<mined, pooled, reopened>>

(* Out of reach, late, a 429 or a 5xx: the next host, and after the last   *)
(* one its error.  Any other 4xx is thrown as it is.                       *)
HostFails ==
  /\ btc.pc \in {"history", "unspent", "script"}
  /\ hostFailures < MaxHostFailures /\ hostFailures' = hostFailures + 1
  /\ btc' = IF btc.host < Len(FirstAnswer) THEN [btc EXCEPT !.host = @ + 1] ELSE [btc EXCEPT !.pc = "failed"]
  /\ Elsewhere /\ UNCHANGED firstPages

CallerError ==
  /\ btc.pc \in {"history", "unspent", "script"}
  /\ hostFailures < MaxHostFailures /\ hostFailures' = hostFailures + 1
  /\ btc' = [btc EXCEPT !.pc = "failed"]
  /\ Elsewhere /\ UNCHANGED firstPages

(* A host's history, newest first: what waits for a block and so many      *)
(* mined ones, or, behind a cursor, a page of them.                        *)
Descending(first, last) == [k \in 1 .. (last - first + 1) |-> last - k + 1]
Oldest(last, n) == IF last - n + 1 > 1 THEN last - n + 1 ELSE 1

EsploraHistory ==
  IF btc.cursor = Nothing THEN Descending(Oldest(mined, FirstAnswer[btc.host]), mined + pooled)
  ELSE Descending(Oldest(btc.cursor - 1, ChainPage), btc.cursor - 1)

-----------------------------------------------------------------------------
(* bitcoin-transaction-service.js, page-size.js                            *)

ClampPageSize(n) ==
  IF n <= 0 THEN MaxPageSize
  ELSE IF n < MinPageSize THEN MinPageSize ELSE IF n > MaxPageSize THEN MaxPageSize ELSE n

Show(page) ==
  btc' = [btc EXCEPT !.pc = IF page.token = Nothing THEN "done" ELSE "idle", !.token = page.token, !.tip = page.tip,
                     !.shown = @ \o page.listed, !.confirmed = <<>>, !.cursor = Nothing, !.host = 1]

(* First pages come through the cache; a deeper one is always fetched.     *)
GetTransactions ==
  /\ btc.pc = "idle"
  /\ \E size \in IF btc.token = Nothing THEN BtcSizes ELSE {btc.size} :
       LET page == firstPages[size]
       IN  IF btc.token = Nothing /\ page # Nothing
           THEN btc' = [btc EXCEPT !.pc = IF page.token = Nothing THEN "done" ELSE "idle", !.size = size,
                                   !.token = page.token, !.tip = page.tip, !.shown = page.listed]
           ELSE btc' = [btc EXCEPT !.pc = "history", !.size = size, !.cursor = btc.token]
  /\ Elsewhere /\ UNCHANGED <<firstPages, hostFailures>>

Page(confirmed, more, tip) ==
  LET page == SubSeq(confirmed, 1, Min({Len(confirmed), ClampPageSize(btc.size)}))
  IN  [listed |-> [k \in DOMAIN page |-> DecorateTransaction(page[k])],
       token |-> IF more /\ page # <<>> THEN Last(page) ELSE Nothing, tip |-> tip]

(* Wrong on purpose: a long first answer is taken for the last.            *)
FullExactly(chunk) == Len(chunk) = ChainPage

(* A chunk shorter than a chain page is the end of the history; one that   *)
(* is longer is a host's first answer, and not the end.                    *)
Full(chunk) == Len(chunk) >= ChainPage

FetchTransactions ==
  LET chunk     == SelectAt(EsploraHistory, {k \in DOMAIN EsploraHistory : EsploraHistory[k] <= mined})
      confirmed == btc.confirmed \o chunk
      enough    == Len(confirmed) >= ClampPageSize(btc.size)
      tip       == IF btc.cursor = Nothing THEN mined ELSE btc.tip
      page      == Page(confirmed, Len(confirmed) > ClampPageSize(btc.size) \/ Full(chunk), tip)
  IN  /\ btc.pc = "history"
      /\ IF Full(chunk) /\ ~enough
         THEN /\ btc' = [btc EXCEPT !.host = 1, !.confirmed = confirmed, !.cursor = Last(chunk), !.tip = tip]
              /\ UNCHANGED firstPages
         ELSE /\ Show(page)
              /\ firstPages' = IF btc.token = Nothing THEN [firstPages EXCEPT ![btc.size] = page] ELSE firstPages
      /\ Elsewhere /\ UNCHANGED hostFailures

-----------------------------------------------------------------------------
(* bitcoin-utxo-service.js: the set of mined outputs that nothing spends,  *)
(* then the script they share, off the history.  Only a set too large to   *)
(* list is answered by an error of its own, which ends the request too.    *)

GetUtxo ==
  /\ btc.pc = "idle" /\ btc.token = Nothing /\ btc' = [btc EXCEPT !.pc = "unspent"]
  /\ Elsewhere /\ UNCHANGED <<firstPages, hostFailures>>

(* Wrong on purpose: outputs that wait for a block are listed too.         *)
UnspentPooled == OutputsOf(mined + pooled) \ SpentBy(mined + pooled)

Unspent == {o \in OutputsOf(mined + pooled) \ SpentBy(mined + pooled) : o[1] <= mined}

ReadUnspent ==
  /\ btc.pc = "unspent"
  /\ btc' = [btc EXCEPT !.pc = IF Unspent = {} THEN "listed" ELSE "script", !.host = 1, !.tip = mined,
                        !.utxos = {[output |-> o, script |-> FALSE] : o \in Unspent}]
  /\ Elsewhere /\ UNCHANGED <<firstPages, hostFailures>>

(* Any transaction of the address has the script in it.                    *)
FindAddressScript ==
  /\ btc.pc = "script"
  /\ btc' = [btc EXCEPT !.pc = "listed", !.utxos = {[u EXCEPT !.script = EsploraHistory # <<>>] : u \in @}]
  /\ Elsewhere /\ UNCHANGED <<firstPages, hostFailures>>

-----------------------------------------------------------------------------
Reopen ==
  /\ btc.pc \in {"done", "listed", "failed"} /\ reopened < MaxReopened /\ reopened' = reopened + 1
  /\ btc' = NoBtc /\ UNCHANGED <<mined, pooled, firstPages, hostFailures>>

FirstPageExpires ==
  /\ \E s \in BtcSizes : firstPages[s] # Nothing /\ firstPages' = [firstPages EXCEPT ![s] = Nothing]
  /\ UNCHANGED <<mined, pooled, btc, hostFailures, reopened>>

Broadcast ==
  /\ mined + pooled < Len(BtcChain) /\ pooled' = pooled + 1
  /\ UNCHANGED <<mined, btc, firstPages, hostFailures, reopened>>

Mine ==
  /\ pooled > 0 /\ pooled' = pooled - 1 /\ mined' = mined + 1
  /\ UNCHANGED <<btc, firstPages, hostFailures, reopened>>

BtcNext ==
  \/ GetTransactions \/ FetchTransactions \/ GetUtxo \/ ReadUnspent \/ FindAddressScript
  \/ HostFails \/ CallerError \/ Reopen \/ FirstPageExpires \/ Broadcast \/ Mine

BtcSpec == BtcInit /\ [][BtcNext]_btcVars

-----------------------------------------------------------------------------
Worth(outputs) == SumFunction([o \in outputs |-> ValueOf(o)])
SumOf(legs)    == SumFunction([k \in DOMAIN legs |-> legs[k].amount])
Gain(list)     == SumFunction([k \in DOMAIN list |-> SumOf(list[k].inputs) - SumOf(list[k].outputs)])

(* Whichever host answers each call, whatever is mined meanwhile and       *)
(* however old the first page is, a walk lists each transaction in turn    *)
(* from the newest that was mined when it began; and when it has ended,    *)
(* what its transactions brought less what they took is what was then      *)
(* unspent (fetchTransactions, getInputs, getOutputs).                     *)
BtcWalkBalances ==
  /\ \A k \in DOMAIN btc.shown : btc.shown[k].id = btc.tip - k + 1
  /\ btc.pc = "done" => Gain(btc.shown) = Worth(OutputsOf(btc.tip) \ SpentBy(btc.tip))

(* What the wallet may build its next spend of: outputs that were mined    *)
(* and not spent when the set was read, with the script they are locked    *)
(* with (getUtxo).                                                         *)
UtxosSpendable ==
  btc.pc = "listed" =>
    \A utxo \in btc.utxos : utxo.script /\ utxo.output \in OutputsOf(btc.tip) \ SpentBy(btc.tip)

(* The address as the chain has it: its walk and its unspent outputs.      *)
AddressAsOnChain == BtcWalkBalances /\ UtxosSpendable
=============================================================================
