-------------------------- MODULE TransactionLegs --------------------------
(***************************************************************************)
(* What a wallet is shown of a transaction.  Two mappers shape it, one for *)
(* the enriched transactions of the local parser and one for bare RPC      *)
(* transactions, the degraded tier.  Both show the wallet's net change per *)
(* asset as legs, a type, and who was on the other side.                   *)
(***************************************************************************)
EXTENDS TransactionParser

CONSTANTS
  Verified,           \* mints the token catalog ranks as verified
  SideLegMin          \* NATIVE_SIDE_LEG_MIN_LAMPORTS

SOL    == "SOL"
Assets == Mints \cup {SOL}

Abs(n) == IF n < 0 THEN -n ELSE n

-----------------------------------------------------------------------------
(* The wallet's net change.  The fee has a field of its own and is added   *)
(* back for the one who paid it.                                           *)

NativeOf(p, w)     == Sum(LAMBDA r : r.native, {r \in p.accountData : r.account = w})
ChangesOf(p, w, m) == UNION {{<<r.account, c.amount>> : c \in {t \in r.tokens : t.owner = w /\ t.mint = m}}
                               : r \in p.accountData}

(* Wrong on purpose: the fee stays in the change of the one who paid it. *)
ComputeWalletDeltaWithFee(p, w) ==
  [a \in Assets |-> IF a = SOL THEN NativeOf(p, w) ELSE Sum(LAMBDA c : c[2], ChangesOf(p, w, a))]

ComputeWalletDelta(p, w) ==
  [a \in Assets |-> IF a = SOL THEN NativeOf(p, w) + (IF p.feePayer = w THEN p.fee ELSE 0)
                    ELSE Sum(LAMBDA c : c[2], ChangesOf(p, w, a))]

OwnedBy(side, w, m) == {a \in DOMAIN side.tokens : side.tokens[a].owner = w /\ side.tokens[a].mint = m}
Owned(side, w, m)   == Sum(LAMBDA a : side.tokens[a].amount, OwnedBy(side, w, m))

ComputeRpcWalletDelta(tx, w) ==
  LET native(side) == IF w \in DOMAIN side.lamports THEN side.lamports[w] ELSE 0
  IN  [a \in Assets |->
         IF a = SOL THEN native(tx.post) - native(tx.pre) + (IF Head(tx.keys) = w THEN tx.fee ELSE 0)
         ELSE Owned(tx.post, w, a) - Owned(tx.pre, w, a)]

(* One leg per asset that moved.  SOL beside a token is left out when it   *)
(* is small: rent, or a tip.                                               *)
BuildLegs(delta) ==
  LET tokens == {m \in Mints : delta[m] # 0}
      native == IF delta[SOL] # 0 /\ (tokens = {} \/ Abs(delta[SOL]) >= SideLegMin) THEN {SOL} ELSE {}
  IN  [inputs  |-> {a \in tokens \cup native : delta[a] > 0},
       outputs |-> {a \in tokens \cup native : delta[a] < 0}]

-----------------------------------------------------------------------------
(* The enriched mapper.                                                    *)

ProviderBucket ==
  [TRANSFER |-> "TRANSFER", COMPRESSED_NFT_TRANSFER |-> "TRANSFER",
   TOKEN_MINT |-> "mint", NFT_MINT |-> "mint", COMPRESSED_NFT_MINT |-> "mint",
   BURN |-> "burn", BURN_NFT |-> "burn", COMPRESSED_NFT_BURN |-> "burn",
   STAKE_TOKEN |-> "stake", UNSTAKE_TOKEN |-> "stake", OFFER_LOAN |-> "loan",
   UNKNOWN |-> "unknown", MEMO |-> "memo"]

OnlySolBack(legs) == legs.inputs = {SOL} /\ legs.outputs = {}

(* The provider's word stands but for a transfer or an unknown, which read *)
(* their direction off the legs.                                           *)
ResolveType(p, w, legs) ==
  LET word == ProviderBucket[p.type]
      signed == p.feePayer = w
      hasIn  == legs.inputs # {}
      hasOut == legs.outputs # {}
  IN  CASE word \notin {"TRANSFER", "unknown"} -> word
        [] OTHER -> CASE hasOut /\ ~hasIn -> "send"
                      [] hasIn /\ ~hasOut -> IF OnlySolBack(legs) /\ signed THEN "interaction" ELSE "receive"
                      [] hasIn /\ hasOut  -> "interaction"
                      [] OTHER -> IF p.memo # None THEN "memo" ELSE IF signed THEN "interaction" ELSE "unknown"

(* Of the transfers of the asset with the wallet on its side, the one of   *)
(* the most weight names the other party, the earliest of equal ones.      *)
(* Wrong on purpose: the heaviest transfer of the asset, whoever made it.*)
CounterpartyForAny(p, w, asset, out) ==
  LET all == IF asset = SOL THEN p.nativeTransfers
             ELSE Where(p.tokenTransfers, LAMBDA t : t.mint = asset)
      other(t) == IF out THEN t.to ELSE t.from
  IN  IF all = <<>> THEN None ELSE other(all[1])

CounterpartyFor(p, w, asset, out) ==
  LET all == IF asset = SOL THEN p.nativeTransfers
             ELSE Where(p.tokenTransfers, LAMBDA t : t.mint = asset)
      own(t)   == IF out THEN t.from ELSE t.to
      other(t) == IF out THEN t.to ELSE t.from
      fits == Where(all, LAMBDA t : own(t) = w /\ other(t) \notin {None, w})
  IN  IF fits = <<>> THEN None
      ELSE other(fits[CHOOSE i \in DOMAIN fits :
                        \A j \in DOMAIN fits : \/ fits[i].amount > fits[j].amount
                                               \/ fits[i].amount = fits[j].amount /\ i <= j])

NftMints(p) == {p.tokenTransfers[i].mint : i \in {j \in DOMAIN p.tokenTransfers : p.tokenTransfers[j].nft}}

(* The legs with their amounts, one for an NFT whatever moved, and their   *)
(* other sides, which only a send and a receive name.                      *)
Shaped(legs, delta, nfts, type, other(_, _)) ==
  LET amount(a) == IF a \in nfts THEN 1 ELSE Abs(delta[a])
  IN  [inputs  |-> {[asset |-> a, amount |-> amount(a), other |-> IF type = "receive" THEN other(a, FALSE) ELSE None]
                      : a \in legs.inputs},
       outputs |-> {[asset |-> a, amount |-> amount(a), other |-> IF type = "send" THEN other(a, TRUE) ELSE None]
                      : a \in legs.outputs}]

(* Accounts that lost lamports and no tokens, and were paid nothing, count *)
(* as closed token accounts.                                               *)
CountClosedAccounts(p, w) ==
  LET paid == {p.nativeTransfers[i].to : i \in DOMAIN p.nativeTransfers}
  IN  Cardinality({r \in p.accountData : r.account # w /\ r.native < 0 /\ r.tokens = {} /\ r.account \notin paid})

DeriveAction(p, w, legs, type) ==
  CASE type # "interaction" -> None
    [] type = "interaction" ->
         IF legs.inputs # {} /\ legs.outputs # {}
         THEN IF legs.outputs \cap NftMints(p) # {} THEN "nft_sale"
              ELSE IF legs.inputs \cap NftMints(p) # {} THEN "nft_purchase" ELSE "swap"
         ELSE IF OnlySolBack(legs) /\ CountClosedAccounts(p, w) > 0 THEN "accounts_closed"
         ELSE "program_call"

GetFee(payer, fee, w) == IF payer = w /\ fee # 0 THEN fee ELSE None

TransformTransaction(p, w) ==
  LET delta == ComputeWalletDelta(p, w)
      legs  == BuildLegs(delta)
      type  == ResolveType(p, w, legs)
      shape == Shaped(legs, delta, NftMints(p), type, LAMBDA a, out : CounterpartyFor(p, w, a, out))
  IN  [inputs |-> shape.inputs, outputs |-> shape.outputs, type |-> type, action |-> DeriveAction(p, w, legs, type),
       memo |-> p.memo, fee |-> GetFee(p.feePayer, p.fee, w), feePayer |-> p.feePayer, nfts |-> NftMints(p)]

-----------------------------------------------------------------------------
(* The bare RPC mapper.                                                    *)

InvokesBubblegum(tx) == \E i \in DOMAIN tx.instrs : tx.instrs[i].program = "bubblegum"

ResolveRpcType(tx, w, legs) ==
  CASE legs.inputs # {} /\ legs.outputs # {} -> "interaction"
    [] legs.inputs = {} /\ legs.outputs # {} -> "send"
    [] legs.inputs # {} /\ legs.outputs = {} -> "receive"
    [] legs.inputs = {} /\ legs.outputs = {} ->
         IF InvokesBubblegum(tx) THEN "mint" ELSE IF Head(tx.keys) = w THEN "interaction" ELSE "unknown"

(* The first instruction of the message that moved the asset with the      *)
(* wallet on its side names the other party.                               *)
CounterpartyForLeg(tx, w, asset, out) ==
  LET ownerOf(a) == IF a \in Listed(tx) THEN BalanceRow(tx, a).owner ELSE None
      walletSide(a) == IF a = w THEN asset = SOL
                       ELSE a \in Listed(tx) /\ BalanceRow(tx, a).owner = w /\ BalanceRow(tx, a).mint = asset
      fits == Where(tx.instrs, LAMBDA ix :
                /\ ~ix.inner
                /\ asset = SOL \/ Field(ix, "mint") \in {None, asset}
                /\ walletSide(Field(ix, IF out THEN "source" ELSE "destination")))
      match == Head(fits)
      other == IF out THEN Field(match, "destination")
               ELSE IF Field(match, "authority") # None THEN match.authority ELSE Field(match, "source")
  IN  IF fits = <<>> THEN None ELSE IF ownerOf(other) # None THEN ownerOf(other) ELSE other

BuildResource(tx, w) ==
  LET delta == ComputeRpcWalletDelta(tx, w)
      legs  == BuildLegs(delta)
      type  == ResolveRpcType(tx, w, legs)
      shape == Shaped(legs, delta, {}, type, LAMBDA a, out : CounterpartyForLeg(tx, w, a, out))
  IN  [inputs |-> shape.inputs, outputs |-> shape.outputs, type |-> type, fee |-> GetFee(Head(tx.keys), tx.fee, w)]

-----------------------------------------------------------------------------
(* What the history leaves out: tokens that someone else sent and that the *)
(* catalog does not know, and closed token accounts.                       *)

(* Wrong on purpose: one unverified token is enough.                     *)
IsSpamReceiveAny(item, w) ==
  /\ item.type = "receive" /\ item.feePayer # w
  /\ \E leg \in item.inputs : leg.asset # SOL /\ leg.asset \notin item.nfts \cup Verified

IsSpamReceive(item, w) ==
  /\ item.type = "receive" /\ item.feePayer # w /\ item.inputs # {}
  /\ \A leg \in item.inputs : leg.asset # SOL /\ leg.asset \notin item.nfts \cup Verified

IsHousekeeping(item) == item.action = "accounts_closed"
=============================================================================
