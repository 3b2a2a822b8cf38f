------------------------- MODULE TransactionParser -------------------------
(***************************************************************************)
(* What the local parser makes of a `jsonParsed` transaction: its native   *)
(* and token transfers, the change of every account, a type and a source.  *)
(*                                                                         *)
(* A transaction is a record: `keys`, its accounts, the fee payer first;   *)
(* `fee`; `pre` and `post`, each with the lamports of every key and the    *)
(* token accounts open at that moment; `instrs`, the instructions with     *)
(* `inner` telling calls from instructions of the message; and `logs`, the *)
(* operations that Bubblegum wrote to the log.  An instruction has a       *)
(* program, an op, and the fields of its `info`.                           *)
(***************************************************************************)
EXTENDS Integers, FiniteSets, Sequences, SequencesExt, FiniteSetsExt, Functions, Selections

CONSTANTS None,   \* null, or undefined
          Mints

Field(ix, f) == IF f \in DOMAIN ix THEN ix[f] ELSE None

(* Instructions of the message first, then the calls they made.            *)
Walk(tx) ==
  Where(tx.instrs, LAMBDA ix : ~ix.inner) \o Where(tx.instrs, LAMBDA ix : ix.inner)

-----------------------------------------------------------------------------
(* Who owns a token account, and what it holds: the balance lists say, and *)
(* for an account opened and closed on the way, the first instruction that *)
(* initialised it.                                                         *)

InitializeOps == {"initializeAccount", "initializeAccount2", "initializeAccount3",
                  "create", "createIdempotent"}

Listed(tx) == DOMAIN tx.pre.tokens \cup DOMAIN tx.post.tokens
BalanceRow(tx, a) == IF a \in DOMAIN tx.post.tokens THEN tx.post.tokens[a] ELSE tx.pre.tokens[a]

AccountMap(tx, a) ==
  LET opening == Where(Walk(tx), LAMBDA ix : ix.op \in InitializeOps /\ Field(ix, "account") = a)
  IN  IF a \in Listed(tx) THEN BalanceRow(tx, a)
      ELSE IF opening # <<>> THEN [owner |-> Head(opening).wallet, mint |-> Head(opening).mint]
      ELSE [owner |-> None, mint |-> None]

-----------------------------------------------------------------------------
(* The parsers of the programs, dispatched by program.                     *)

Transfers == {"transfer", "transferChecked"}

NativeTransfers(tx) ==
  LET sent == Where(Walk(tx), LAMBDA ix : ix.program = "system" /\ ix.op \in {"transfer", "transferWithSeed"})
  IN  [i \in DOMAIN sent |-> [from |-> sent[i].source, to |-> sent[i].destination, amount |-> sent[i].lamports]]

(* Decimals 0 and amount 1 read as an NFT.                                 *)
BuildTokenStandard(ix) == Field(ix, "decimals") = 0 /\ ix.amount = 1

TokenTransfer(tx, ix) ==
  LET held == AccountMap(tx, IF ix.op \in Transfers THEN ix.source ELSE ix.account)
      stated == Field(ix, "mint")
  IN  [from   |-> IF ix.op = "mintTo" THEN None ELSE ix.authority,
       to     |-> CASE ix.op \in Transfers -> AccountMap(tx, ix.destination).owner
                    [] ix.op = "mintTo"    -> held.owner
                    [] ix.op = "burn"      -> None,
       mint   |-> IF stated # None THEN stated ELSE held.mint,
       amount |-> ix.amount,
       nft    |-> BuildTokenStandard(ix)]

TokenTransfers(tx) ==
  LET moved == Where(Walk(tx), LAMBDA ix : ix.program = "token" /\ ix.op \in Transfers \cup {"mintTo", "burn"})
  IN  [i \in DOMAIN moved |-> TokenTransfer(tx, moved[i])]

(* Bubblegum is told by the discriminator of the data, or else by the      *)
(* first operation that its logs name.                                     *)
CnftHint   == [mint |-> "hasCnftMint", transfer |-> "hasCnftTransfer", burn |-> "hasCnftBurn"]
Classified(op) == IF op \in DOMAIN CnftHint THEN {CnftHint[op]} ELSE {}

ClassifyFromLogs(tx) ==
  LET named == Where(tx.logs, LAMBDA op : op \in DOMAIN CnftHint)
  IN  IF named = <<>> THEN {} ELSE Classified(Head(named))

BubblegumHints(tx, ix) ==
  {"hasBubblegum"} \cup IF ix.readable THEN Classified(ix.op) ELSE ClassifyFromLogs(tx)

(* An instruction of the stake program that was not decoded has no op.     *)
StakeOps   == {"delegate", "redelegate", "authorize", "initialize", "split", "merge", "setLockup", None}
UnstakeOps == {"deactivate", "withdraw"}

InstructionHints(tx, ix) ==
  CASE ix.program = "token" /\ ix.op = "mintTo"                         -> {"hasMint"}
    [] ix.program = "token" /\ ix.op = "burn"                           -> {"hasBurn"}
    [] ix.program = "metaplex" /\ ix.op \in {"createMetadataAccountV3", "createMasterEditionV3", "mint"} -> {"hasNftMint"}
    [] ix.program = "metaplex" /\ ix.op \in {"burn", "burnNft"}         -> {"hasNftBurn"}
    [] ix.program = "bubblegum"                                         -> BubblegumHints(tx, ix)
    [] ix.program = "stake" /\ ix.op \in StakeOps                       -> {"hasStake"}
    [] ix.program = "stake" /\ ix.op \in UnstakeOps                     -> {"hasUnstake"}
    [] ix.program = "marinade"                                          -> {"hasLiquidStake"}
    [] ix.program = "kamino"                                            -> {"hasLoan"}
    [] ix.program = "memo"                                              -> {"hasMemo"}
    [] OTHER                                                            -> {}

Hints(tx) == UNION {InstructionHints(tx, tx.instrs[i]) : i \in DOMAIN tx.instrs}

(* The first memo is the note.                                             *)
Memo(tx) ==
  LET notes == Where(Walk(tx), LAMBDA ix : ix.program = "memo")
  IN  IF notes = <<>> THEN None ELSE Head(notes).text

-----------------------------------------------------------------------------
(* The change of every account: lamports, and its balance of each mint,    *)
(* which counts from or to zero when it is on one side only, for the last  *)
(* owner that a balance list names.                                        *)

Holds(side, a, m)  == a \in DOMAIN side.tokens /\ side.tokens[a].mint = m
Amount(side, a, m) == IF Holds(side, a, m) THEN side.tokens[a].amount ELSE 0
Holder(tx, a, m)   == (IF Holds(tx.post, a, m) THEN tx.post ELSE tx.pre).tokens[a].owner

Change(tx, a, m) == Amount(tx.post, a, m) - Amount(tx.pre, a, m)
TokenBalanceChanges(tx, a) ==
  {[owner |-> Holder(tx, a, m), mint |-> m, amount |-> Change(tx, a, m)] : m \in {n \in Mints : Change(tx, a, n) # 0}}

AccountRow(tx, a) ==
  [account |-> a, native |-> tx.post.lamports[a] - tx.pre.lamports[a], tokens |-> TokenBalanceChanges(tx, a)]
CollectAccountData(tx) == {r \in {AccountRow(tx, a) : a \in ToSet(tx.keys)} : r.native # 0 \/ r.tokens # {}}

-----------------------------------------------------------------------------
(* Type and source.                                                        *)

TypePrecedence ==
  << <<"hasCnftMint", "COMPRESSED_NFT_MINT">>, <<"hasCnftBurn", "COMPRESSED_NFT_BURN">>,
     <<"hasCnftTransfer", "COMPRESSED_NFT_TRANSFER">>, <<"hasNftMint", "NFT_MINT">>,
     <<"hasNftBurn", "BURN_NFT">>, <<"hasMint", "TOKEN_MINT">>, <<"hasBurn", "BURN">>,
     <<"hasLoan", "OFFER_LOAN">>, <<"hasLiquidStake", "STAKE_TOKEN">>,
     <<"hasUnstake", "UNSTAKE_TOKEN">>, <<"hasStake", "STAKE_TOKEN">> >>

DeriveType(tx) ==
  LET hints == Hints(tx)
      told  == Where(TypePrecedence, LAMBDA row : row[1] \in hints)
  IN  IF told # <<>> THEN Head(told)[2]
      ELSE IF NativeTransfers(tx) # <<>> \/ TokenTransfers(tx) # <<>> THEN "TRANSFER"
      ELSE IF "hasMemo" \in hints THEN "MEMO"
      ELSE IF "hasBubblegum" \in hints THEN "COMPRESSED_NFT_TRANSFER" ELSE "UNKNOWN"

(* SOURCE_PRIORITY, one source of each band.  A program not listed has no  *)
(* source.                                                                 *)
SourcePriority ==
  [aggregator |-> 0, market |-> 1, kamino |-> 2, marinade |-> 2, amm |-> 3, bubblegum |-> 4,
   metaplex |-> 5, stake |-> 6, token |-> 7, ata |-> 8, memo |-> 11, system |-> 12]

PickPrimarySource(tx) ==
  LET found == Where(Walk(tx), LAMBDA ix : ix.program \in DOMAIN SourcePriority)
      rank(i) == SourcePriority[found[i].program]
  IN  IF found = <<>> THEN None
      ELSE found[CHOOSE i \in DOMAIN found :
                   \A j \in DOMAIN found : rank(i) < rank(j) \/ (rank(i) = rank(j) /\ i <= j)].program

ParseTransaction(tx) ==
  [type |-> DeriveType(tx), source |-> PickPrimarySource(tx), memo |-> Memo(tx),
   feePayer |-> Head(tx.keys), fee |-> tx.fee,
   nativeTransfers |-> NativeTransfers(tx), tokenTransfers |-> TokenTransfers(tx),
   accountData |-> CollectAccountData(tx)]
=============================================================================
