--------------------------- MODULE WalletServices ---------------------------
(***************************************************************************)
(* The services that answer a wallet out of the chain, the index and the   *)
(* store: its transactions, its balance, its SKR and native stake, its    *)
(* NFTs and what is done with them, a Bitcoin address of it, and the       *)
(* ingest of its usage events.  None reads what another keeps, so that a   *)
(* behaviour follows one of them.                                          *)
(***************************************************************************)
EXTENDS LedgerTransactions, SkrStaking, StakeAccounts, NftListing, NftActions, AnalyticsIngest,
        BitcoinAccount, Balances

VARIABLE service

serviceVars == <<service, ledgerVars, skrVars, stakeVars, nftVars, actionVars, ingestVars, btcVars, balanceVars>>

Services == {"transactions", "skr", "stakes", "nfts", "nft actions", "events", "bitcoin", "balance"}

(* Where a service starts in one of many states, the others see one.       *)
One(set) == {CHOOSE x \in set : TRUE}

ServicesInit ==
  /\ service \in Services /\ SkrInit /\ StakesInit /\ IngestInit /\ BtcInit /\ BalancesInit
  /\ PaidBy(IF service = "transactions" THEN Wallets ELSE One(Wallets))
  /\ Holding(IF service = "nfts" THEN Holdings ELSE One(Holdings))
  /\ IF service = "nft actions" THEN ActionsInit ELSE AssetsOf(One(Kinds), One(People))

Transactions == service = "transactions" /\ LedgerNext
                /\ UNCHANGED <<skrVars, stakeVars, nftVars, actionVars, ingestVars, btcVars, balanceVars>>
SkrStake     == service = "skr" /\ SkrNext
                /\ UNCHANGED <<ledgerVars, stakeVars, nftVars, actionVars, ingestVars, btcVars, balanceVars>>
Staking      == service = "stakes" /\ StakesNext
                /\ UNCHANGED <<ledgerVars, skrVars, nftVars, actionVars, ingestVars, btcVars, balanceVars>>
Nfts         == service = "nfts" /\ NftNext
                /\ UNCHANGED <<ledgerVars, skrVars, stakeVars, actionVars, ingestVars, btcVars, balanceVars>>
NftAction    == service = "nft actions" /\ ActionsNext
                /\ UNCHANGED <<ledgerVars, skrVars, stakeVars, nftVars, ingestVars, btcVars, balanceVars>>
Events       == service = "events" /\ IngestNext
                /\ UNCHANGED <<ledgerVars, skrVars, stakeVars, nftVars, actionVars, btcVars, balanceVars>>
Bitcoin      == service = "bitcoin" /\ BtcNext
                /\ UNCHANGED <<ledgerVars, skrVars, stakeVars, nftVars, actionVars, ingestVars, balanceVars>>
Balance      == service = "balance" /\ BalancesNext
                /\ UNCHANGED <<ledgerVars, skrVars, stakeVars, nftVars, actionVars, ingestVars, btcVars>>

ServicesNext ==
  (Transactions \/ SkrStake \/ Staking \/ Nfts \/ NftAction \/ Events \/ Bitcoin \/ Balance) /\ UNCHANGED service

ServicesSpec == ServicesInit /\ [][ServicesNext]_serviceVars
=============================================================================
