------------------------ MODULE LedgerTransactions ------------------------
(***************************************************************************)
(* Transactions as the chain makes them, instruction by instruction, and   *)
(* what the mappers show of them.  The ledger is Solana's, as far as the   *)
(* mappers read it: lamports, token accounts with owner and mint, and rent *)
(* that an account locks while it is open.  Every state is a transaction   *)
(* that could have ended there.                                            *)
(***************************************************************************)
EXTENDS TransactionLegs

CONSTANTS
  Wallets,            \* accounts of users, who sign and pay
  Accounts,           \* every account a transaction may name, in some order
  StartLedger,        \* lamports and token accounts before the transaction
  Instructions,       \* what a transaction may be made of
  Fee, Rent,
  MaxInstrs           \* bound on the instructions of a transaction

ASSUME LedgerAssumption ==
  /\ Fee \in Nat \ {0} /\ Rent \in Nat \ {0} /\ MaxInstrs \in Nat
  /\ SideLegMin \in Nat /\ SideLegMin > 2 * Rent      \* two rents stay below the side-leg minimum
  /\ None \notin Wallets \cup Mints \cup {"accounts_closed"} /\ SOL \notin Mints /\ Verified \subseteq Mints

(* A wallet is no token account.                                           *)
ASSUME StartAssumption ==
  LET tokens == StartLedger.tokens
  IN  /\ Accounts \in Seq(ToSet(Accounts)) /\ Wallets \subseteq ToSet(Accounts) /\ Wallets # {}
      /\ StartLedger = [lamports |-> StartLedger.lamports, tokens |-> tokens]
      /\ StartLedger.lamports \in [ToSet(Accounts) -> Int]
      /\ DOMAIN tokens \subseteq ToSet(Accounts) \ Wallets /\ tokens = [a \in DOMAIN tokens |-> tokens[a]]
      /\ \A a \in DOMAIN tokens :
           /\ tokens[a] = [owner |-> tokens[a].owner, mint |-> tokens[a].mint, amount |-> tokens[a].amount]
           /\ tokens[a].mint \in Mints /\ tokens[a].amount \in Nat

(* The address of an associated token account is derived from its owner    *)
(* and its mint.                                                           *)
Derived(ix) ==
  /\ ix.op = "create" /\ "account" \in DOMAIN ix /\ ix.mint \in Mints /\ ix.source \in ToSet(Accounts)
  /\ ix.account \in ToSet(Accounts) \ Wallets
  /\ ix.account \in DOMAIN StartLedger.tokens => StartLedger.tokens[ix.account].mint = ix.mint
  /\ \A other \in Instructions :
       (other.op \in InitializeOps /\ other.account = ix.account) => (other.wallet = ix.wallet /\ other.mint = ix.mint)

(* The fields of an instruction, by program and op.                        *)
ASSUME InstructionAssumption ==
  \A ix \in Instructions :
    /\ ix.inner \in BOOLEAN
    /\ ix.program = "system" => ix.lamports \in Nat /\ {ix.source, ix.destination} \subseteq ToSet(Accounts)
    /\ ix.program = "vault"  => ix.lamports \in Nat /\ {ix.from, ix.to} \subseteq ToSet(Accounts)
    /\ ix.program = "token" /\ ix.op \in Transfers \cup {"mintTo", "burn"} => ix.amount \in Nat
    /\ ix.program = "token" /\ ix.op = "closeAccount" => ix.destination \in ToSet(Accounts)
    /\ ix.op \in InitializeOps => Derived(ix)
    /\ ix.op = "setAuthority" => "account" \in DOMAIN ix

VARIABLES
  tx,                 \* the transaction, `post` being the ledger now
  moves               \* history: what each instruction moved between whom

ledgerVars == <<tx, moves>>

-----------------------------------------------------------------------------
Open(a)  == a \in DOMAIN tx.post.tokens
Lamports(a) == tx.post.lamports[a]
Pay(side, from, to, n) ==
  [side EXCEPT !.lamports = [a \in DOMAIN @ |-> @[a] + (IF a = to THEN n ELSE 0) - (IF a = from THEN n ELSE 0)]]
Credit(side, a, n) == [side EXCEPT !.tokens[a].amount = @ + n]
Move(asset, from, to, n) == <<[asset |-> asset, from |-> from, to |-> to, amount |-> n]>>

(* The transaction gains the instruction, and the ledger becomes `side`.   *)
Executed(ix, side, moved) ==
  /\ Len(tx.instrs) < MaxInstrs
  /\ tx' = [tx EXCEPT !.post = side, !.instrs = Append(@, ix),
                      !.logs = IF ix.program = "bubblegum" THEN Append(@, ix.op) ELSE @]
  /\ moves' = moves \o moved

SystemTransfer(ix) ==
  /\ ix.program = "system" /\ ix.op = "transfer"
  /\ Lamports(ix.source) >= ix.lamports
  /\ Executed(ix, Pay(tx.post, ix.source, ix.destination, ix.lamports),
              Move(SOL, ix.source, ix.destination, ix.lamports))

(* A program moves lamports of an account of its own without a call.       *)
DirectPay(ix) ==
  /\ ix.program = "vault" /\ ix.op = "pay"
  /\ Lamports(ix.from) >= ix.lamports
  /\ Executed(ix, Pay(tx.post, ix.from, ix.to, ix.lamports), Move(SOL, ix.from, ix.to, ix.lamports))

TokenMove(ix) ==
  /\ ix.program = "token" /\ ix.op \in Transfers
  /\ Open(ix.source) /\ Open(ix.destination) /\ ix.source # ix.destination
  /\ LET s == tx.post.tokens[ix.source]
         d == tx.post.tokens[ix.destination]
     IN  /\ s.mint = d.mint /\ Field(ix, "mint") \in {None, s.mint}
         /\ s.amount >= ix.amount /\ s.owner = ix.authority
         /\ Executed(ix, Credit(Credit(tx.post, ix.source, -ix.amount), ix.destination, ix.amount),
                     Move(s.mint, s.owner, d.owner, ix.amount))

MintTo(ix) ==
  /\ ix.program = "token" /\ ix.op = "mintTo" /\ Open(ix.account) /\ tx.post.tokens[ix.account].mint = ix.mint
  /\ Executed(ix, Credit(tx.post, ix.account, ix.amount),
              Move(ix.mint, None, tx.post.tokens[ix.account].owner, ix.amount))

BurnTokens(ix) ==
  /\ ix.program = "token" /\ ix.op = "burn" /\ Open(ix.account) /\ tx.post.tokens[ix.account].mint = ix.mint
  /\ tx.post.tokens[ix.account].amount >= ix.amount
  /\ Executed(ix, Credit(tx.post, ix.account, -ix.amount),
              Move(ix.mint, tx.post.tokens[ix.account].owner, None, ix.amount))

Create(ix) ==
  /\ ix.op = "create" /\ ~Open(ix.account) /\ Lamports(ix.source) >= Rent
  /\ Executed(ix, [Pay(tx.post, ix.source, ix.account, Rent) EXCEPT
                     !.tokens = [a \in DOMAIN @ \cup {ix.account} |->
                                   IF a = ix.account THEN [owner |-> ix.wallet, mint |-> ix.mint, amount |-> 0] ELSE @[a]]],
              Move(SOL, ix.source, None, Rent))

CloseAccount(ix) ==
  /\ ix.program = "token" /\ ix.op = "closeAccount" /\ Open(ix.account)
  /\ tx.post.tokens[ix.account].amount = 0
  /\ Executed(ix, [Pay(tx.post, ix.account, ix.destination, Lamports(ix.account)) EXCEPT
                     !.tokens = [a \in DOMAIN @ \ {ix.account} |-> @[a]]],
              Move(SOL, None, ix.destination, Lamports(ix.account)))

SetOwner(ix) ==
  /\ ix.program = "token" /\ ix.op = "setAuthority" /\ Open(ix.account)
  /\ LET held == tx.post.tokens[ix.account]
     IN  Executed(ix, [tx.post EXCEPT !.tokens[ix.account].owner = ix.newAuthority],
                  Move(held.mint, held.owner, ix.newAuthority, held.amount))

(* Programs that move nothing themselves.                                  *)
Mark(ix) ==
  /\ ix.program \in {"bubblegum", "metaplex", "stake", "marinade", "kamino", "memo", "aggregator"}
  /\ Executed(ix, tx.post, <<>>)

Execute(ix) ==
  \/ SystemTransfer(ix) \/ DirectPay(ix) \/ TokenMove(ix) \/ MintTo(ix) \/ BurnTokens(ix)
  \/ Create(ix) \/ CloseAccount(ix) \/ SetOwner(ix) \/ Mark(ix)

PaidBy(payers) ==
  /\ \E payer \in payers :
       tx = [keys |-> <<payer>> \o Where(Accounts, LAMBDA a : a # payer), fee |-> Fee, pre |-> StartLedger,
             post |-> [StartLedger EXCEPT !.lamports[payer] = @ - Fee], instrs |-> <<>>, logs |-> <<>>]
  /\ moves = <<>>

LedgerInit == PaidBy(Wallets)

LedgerNext == \E ix \in Instructions : Execute(ix)

LedgerSpec == LedgerInit /\ [][LedgerNext]_ledgerVars

-----------------------------------------------------------------------------
(* What the wallet gained of an asset, from what each instruction did.     *)
GainOf(move, w, asset) ==
  IF move.asset # asset THEN 0
  ELSE (IF move.to = w THEN move.amount ELSE 0) - (IF move.from = w THEN move.amount ELSE 0)
Gained(w, asset) == Sum(LAMBDA i : GainOf(moves[i], w, asset), DOMAIN moves)

(* No token account that held something before is in other hands after:    *)
(* the balance lists name one owner on either side, and the mapper of      *)
(* parsed transactions goes by the last.                                   *)
KeptInHand ==
  \A a \in DOMAIN tx.pre.tokens \cap DOMAIN tx.post.tokens :
    LET before == tx.pre.tokens[a]
        after  == tx.post.tokens[a]
    IN  before.mint = after.mint => before.owner = after.owner \/ before.amount = 0

Shown(item) == {<<leg.asset, leg.amount>> : leg \in item.inputs}
               \cup {<<leg.asset, -leg.amount>> : leg \in item.outputs}

(* What a wallet should be shown: all it gained and lost but a small       *)
(* amount of SOL beside a token; of an NFT, one.                           *)
ToShow(w, nfts) ==
  LET tokens == {m \in Mints : Gained(w, m) # 0}
      native == IF Gained(w, SOL) # 0 /\ (tokens = {} \/ Abs(Gained(w, SOL)) >= SideLegMin) THEN {SOL} ELSE {}
      amount(a) == IF a \notin nfts THEN Gained(w, a) ELSE IF Gained(w, a) < 0 THEN -1 ELSE 1
  IN  {<<a, amount(a)>> : a \in tokens \cup native}

(* Both mappers show exactly what the wallet gained and lost: no asset is  *)
(* missing, invented, or in the wrong amount or direction, but for a small *)
(* amount of SOL beside a token (wallet-delta.js, buildLegs); the mapper   *)
(* of parsed transactions while token accounts stay in one hand.           *)
LegsExact ==
  tx.instrs # <<>> => \A w \in Wallets :
    /\ LET p == ParseTransaction(tx)
       IN  KeptInHand => Shown(TransformTransaction(p, w)) = ToShow(w, NftMints(p))
    /\ Shown(BuildResource(tx, w)) = ToShow(w, {})

(* An account whose owner at the end is not the one it had all along.      *)
ChangedHands(a) ==
  \E i \in DOMAIN tx.instrs :
    LET ix == tx.instrs[i]
    IN  /\ Field(ix, "account") = a
        /\ \/ ix.op = "setAuthority"
           \/ ix.op = "create" /\ a \in DOMAIN tx.pre.tokens /\ tx.pre.tokens[a].owner # ix.wallet

(* Who a leg names moved that asset to, or took it from, the wallet, and   *)
(* is someone else (counterpartyFor), unless an account of the asset       *)
(* changed hands: a transfer names an account, and the parser its owner at *)
(* the end.                                                                *)
Moved(from, to, asset) ==
  \E i \in DOMAIN moves : moves[i].from = from /\ moves[i].to = to /\ moves[i].asset = asset

Handed == {AccountMap(tx, a).mint : a \in {b \in ToSet(Accounts) : ChangedHands(b)}}

NamesTheOther(item, w) ==
  /\ \A leg \in item.inputs :
       leg.asset \notin Handed /\ leg.other # None => leg.other # w /\ Moved(leg.other, w, leg.asset)
  /\ \A leg \in item.outputs :
       leg.asset \notin Handed /\ leg.other # None => leg.other # w /\ Moved(w, leg.other, leg.asset)

CounterpartyTrue ==
  tx.instrs # <<>> => \A w \in Wallets : NamesTheOther(TransformTransaction(ParseTransaction(tx), w), w)

HiddenIsMinor(item, w) ==
  /\ IsSpamReceive(item, w) \/ IsHousekeeping(item) =>
       \A a \in Assets : Gained(w, a) > (IF a = SOL THEN -SideLegMin ELSE -1)
  /\ IsSpamReceive(item, w) => \A m \in Verified : Gained(w, m) = 0

(* What the history leaves out cost the wallet nothing but a small amount  *)
(* of SOL, and as spam it brought only tokens the catalog does not verify  *)
(* (isSpamReceive, isHousekeeping), while token accounts stay in one hand. *)
HiddenLosesNothing ==
  tx.instrs # <<>> /\ KeptInHand =>
    \A w \in Wallets : HiddenIsMinor(TransformTransaction(ParseTransaction(tx), w), w)
=============================================================================
