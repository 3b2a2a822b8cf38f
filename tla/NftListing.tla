---------------------------- MODULE NftListing ----------------------------
(***************************************************************************)
(* A page of a wallet's NFTs: what the index and the Token-2022 program    *)
(* hold, the metadata read on chain and off chain, and the spam score that *)
(* hides an item.  Each of the reads can fail on its own, and the document *)
(* of each NFT is kept, or the fact that it could not be had.  Of the      *)
(* index's list the first page is read, and no other.                      *)
(*                                                                         *)
(* An NFT's texts are the class of what the detector finds in them.        *)
(***************************************************************************)
EXTENDS Integers, FiniteSets, Sequences, SequencesExt, FiniteSetsExt, Selections

CONSTANTS
  Holdings,               \* what a wallet may hold: sequences of NFTs
  Limit,                 \* a page's length
  DasLimit,              \* the limit of the index's first page: 1000
  DuplicateNameMinCount, \* DUPLICATE_NAME_MIN_COUNT
  MaxPages               \* bound on the pages asked for

Names == {"plain", "domain", "ticker", "airdrop", "lure", "mixed", "hidden", "emoji", "none"}
Documents == [description : {"plain", "phishing", "url", "qr", "none"}, attributes : {"plain", "url", "huge", "none"},
              collectionName : BOOLEAN, image : BOOLEAN]
Items == [mint : Nat, name : Names, indexName : Names, indexed : BOOLEAN, token2022 : BOOLEAN,
          metadata : {"own", "group", "other", "none"}, json : Documents, collectionVerified : BOOLEAN,
          image : BOOLEAN, uri : BOOLEAN, held : BOOLEAN, blacklisted : BOOLEAN]

(* A mint is of a Token-2022 NFT or in the index, or both, which then has  *)
(* its name or none.                                                       *)
ASSUME ListingAssumption ==
  /\ Limit \in Nat \ {0} /\ DasLimit \in Nat \ {0} /\ DuplicateNameMinCount \in Nat /\ MaxPages \in Nat
  /\ Holdings \subseteq Seq(Items)
  /\ \A held \in Holdings : \A i, j \in DOMAIN held :
       /\ held[i].mint = held[j].mint => i = j
       /\ held[i].indexed \/ held[i].token2022
       /\ held[i].indexName \in {held[i].name, "none"}

VARIABLES
  wallet,
  docCache,   \* nft_offchain_metadata: by mint, the stored document, or that it failed
  page,       \* the request
  pagesAsked

nftVars == <<wallet, docCache, page, pagesAsked>>

NoDocument == [description |-> "none", attributes |-> "none", collectionName |-> FALSE, image |-> FALSE]
NoPage == [pc |-> "idle", offset |-> 0, das |-> <<>>, token2022 |-> <<>>, total |-> <<>>, nfts |-> <<>>,
           failed |-> FALSE, shown |-> {}]

-----------------------------------------------------------------------------
(* nft-spam-detector.js                                                    *)

NameReasons(name) ==
  CASE name = "domain"  -> {"domain_in_name"}
    [] name = "ticker"  -> {"ticker_name"}
    [] name = "airdrop" -> {"spam_name_keyword", "lure_word"}
    [] name = "lure"    -> {"lure_word"}
    [] name = "mixed"   -> {"mixed_script"}
    [] name = "hidden"  -> {"hidden_char_obfuscation"}
    [] name = "emoji"   -> {"emoji_in_name"}
    [] name = "none"    -> {"empty_name"}
    [] OTHER            -> {}

DescriptionReasons(description) ==
  CASE description = "phishing" -> {"phishing_description"}
    [] description = "url"      -> {"url_in_description"}
    [] description = "qr"       -> {"qr_code_lure"}
    [] OTHER                    -> {}

HasUrl(nft) == nft.json.description \in {"phishing", "url"} \/ nft.json.attributes = "url"

BelongsToCollection(nft) == nft.json.collectionName \/ nft.collectionVerified

(* Wrong on purpose: what could not be read counts as not there.         *)
IsBarebonesNftUnresolved(nft) ==
  nft.json.description = "none" /\ nft.json.attributes = "none" /\ ~BelongsToCollection(nft)

IsBarebonesNft(nft) ==
  /\ nft.metadataResolved
  /\ nft.json.description = "none" /\ nft.json.attributes = "none" /\ ~BelongsToCollection(nft)

SpamReasons(nft, names) ==
  NameReasons(nft.name) \cup DescriptionReasons(nft.json.description) \cup
  {r \in {"url_in_attributes"}   : nft.json.attributes = "url"} \cup
  {r \in {"barebones_with_urls"} : HasUrl(nft) /\ ~nft.json.image /\ ~nft.image /\ ~BelongsToCollection(nft)} \cup
  {r \in {"barebones_nft"}       : IsBarebonesNft(nft)} \cup
  {r \in {"duplicate_name"}      : nft.name # "none" /\ names[nft.name] >= DuplicateNameMinCount}

WeakReasons == {"lure_word", "empty_name", "emoji_in_name", "qr_code_lure", "url_in_description", "duplicate_name"}
SpamThreshold == 2
SpamScore(nft, names) ==
  Cardinality(SpamReasons(nft, names)) + Cardinality(SpamReasons(nft, names) \ WeakReasons)

CountNames(nfts) ==
  [n \in {nfts[i].name : i \in DOMAIN nfts} |-> Cardinality({i \in DOMAIN nfts : nfts[i].name = n})]

-----------------------------------------------------------------------------
(* What is stored of a document: attributes that are too large go.         *)
ToStoredMetadata(document) ==
  [document EXCEPT !.attributes = IF @ = "huge" THEN "none" ELSE @]

Read(nft, name, json, resolved) ==
  [mint |-> nft.mint, name |-> name, uri |-> nft.uri /\ name # "none", collectionVerified |-> nft.collectionVerified,
   image |-> nft.indexed /\ nft.image, json |-> json, metadataResolved |-> resolved]

TransformDasAsset(nft) == Read(nft, nft.indexName, NoDocument, FALSE)

(* An NFT of the index's list is held if it is not burnt and has a balance.*)
IsHeldByOwner(nft) == nft.held

(* Of those the Token-2022 program holds too, the index's own copy counts  *)
(* if it has a name.                                                       *)
(* Wrong on purpose: it counts in any case.                              *)
DasNftsAll(nfts, token2022) ==
  SelectAt(nfts, {i \in DOMAIN nfts : nfts[i].indexed /\ IsHeldByOwner(nfts[i])})

DasNfts(nfts, token2022) ==
  SelectAt(nfts, {i \in DOMAIN nfts :
    /\ nfts[i].indexed /\ IsHeldByOwner(nfts[i])
    /\ nfts[i].indexName # "none" \/ nfts[i].mint \notin {token2022[j].mint : j \in DOMAIN token2022}})

(* The metadata is the mint's own, or that of its own group.               *)
PickMetadata(nft) == IF nft.metadata \in {"own", "group"} THEN nft.name ELSE "none"

-----------------------------------------------------------------------------
Holding(holdings) == wallet \in holdings /\ docCache = <<>> /\ page = NoPage /\ pagesAsked = 0

NftInit == Holding(Holdings)

AskPage ==
  /\ page.pc = "idle" /\ pagesAsked < MaxPages /\ pagesAsked' = pagesAsked + 1
  /\ \E k \in {0, 1} : page' = [NoPage EXCEPT !.pc = "das", !.offset = k * Limit]
  /\ UNCHANGED <<wallet, docCache>>

(* How much of the wallet the index's first page takes in: what is burnt   *)
(* or sent away takes its place in it as long as the index lists it.       *)
FirstPage(held) == Max({k \in 0 .. Len(held) : Cardinality({i \in 1 .. k : held[i].indexed}) <= DasLimit})

(* An error inside an answer of the index reads as an empty list; a failed *)
(* call ends the request.                                                  *)
DasGetAssetsByOwner ==
  /\ page.pc = "das"
  /\ \/ page' = [page EXCEPT !.pc = "token2022", !.das = SubSeq(wallet, 1, FirstPage(wallet))]
     \/ page' = [page EXCEPT !.pc = "token2022", !.failed = TRUE]
  /\ UNCHANGED <<wallet, docCache, pagesAsked>>

FetchToken2022NftsByOwner ==
  /\ page.pc = "token2022"
  /\ page' = [page EXCEPT !.pc = "metadata",
                !.token2022 = SelectAt(wallet, {i \in DOMAIN wallet : wallet[i].token2022 /\ IsHeldByOwner(wallet[i])})]
  /\ UNCHANGED <<wallet, docCache, pagesAsked>>

PaginateNfts(nfts, offset) == SubSeq(nfts, offset + 1, Min({offset + Limit, Len(nfts)}))

(* The list of both, cut to the page.  A metadata read that fails leaves   *)
(* the Token-2022 NFTs without a name.                                     *)
GetNftsByOwner ==
  LET das  == DasNfts(page.das, page.token2022)
      name(n, named) == IF named THEN PickMetadata(n) ELSE "none"
      list(named) ==
        [i \in DOMAIN das |-> TransformDasAsset(das[i])]
        \o [i \in DOMAIN page.token2022 |-> Read(page.token2022[i], name(page.token2022[i], named), NoDocument, FALSE)]
  IN  /\ page.pc = "metadata"
      /\ \E named \in BOOLEAN :
           page' = [page EXCEPT !.pc = "hydrate", !.total = list(named), !.nfts = PaginateNfts(list(named), page.offset)]
      /\ UNCHANGED <<wallet, docCache, pagesAsked>>

Whole(mint) == wallet[CHOOSE i \in DOMAIN wallet : wallet[i].mint = mint]

(* A document not kept is fetched: it is kept as it is stored, its failure *)
(* too, and nothing when the page's budget ran out.                        *)
Failed == [ok |-> FALSE, json |-> NoDocument]
FetchOffchainMetadata(mint) == {[ok |-> TRUE, json |-> ToStoredMetadata(Whole(mint).json)], Failed}

Hydrate(i) ==
  LET mint == page.nfts[i].mint
      take(read) == page' = [page EXCEPT !.nfts[i].json = read.json, !.nfts[i].metadataResolved = read.ok,
                                         !.nfts[i].uri = FALSE]
      keep(read) == docCache' = [m \in DOMAIN docCache \cup {mint} |-> IF m = mint THEN read ELSE docCache[m]]
  IN  /\ page.pc = "hydrate" /\ page.nfts[i].uri
      /\ \/ mint \in DOMAIN docCache /\ take(docCache[mint]) /\ UNCHANGED docCache
         \/ /\ mint \notin DOMAIN docCache
            /\ \/ \E read \in FetchOffchainMetadata(mint) : take(read) /\ keep(read)
               \/ take(Failed) /\ UNCHANGED docCache
      /\ UNCHANGED <<wallet, pagesAsked>>

FilterSpam ==
  /\ page.pc = "hydrate" /\ \A i \in DOMAIN page.nfts : ~page.nfts[i].uri
  /\ page' = [page EXCEPT !.pc = "replied",
                !.shown = {i \in DOMAIN page.nfts :
                             /\ ~Whole(page.nfts[i].mint).blacklisted
                             /\ SpamScore(page.nfts[i], CountNames(page.nfts)) < SpamThreshold}]
  /\ UNCHANGED <<wallet, docCache, pagesAsked>>

(* A call fails, or the page is shown; entries lapse.                      *)
PageOver == page.pc # "idle" /\ page' = NoPage /\ UNCHANGED <<wallet, docCache, pagesAsked>>
DocLapses(m) ==
  /\ docCache' = [n \in DOMAIN docCache \ {m} |-> docCache[n]] /\ UNCHANGED <<wallet, page, pagesAsked>>

NftNext ==
  \/ AskPage \/ DasGetAssetsByOwner \/ FetchToken2022NftsByOwner \/ GetNftsByOwner
  \/ (\E i \in DOMAIN page.nfts : Hydrate(i)) \/ FilterSpam \/ PageOver
  \/ \E m \in DOMAIN docCache : DocLapses(m)

NftSpec == NftInit /\ [][NftNext]_nftVars

-----------------------------------------------------------------------------
(* The page as it would be with everything read and nothing dropped.       *)
AllRead(i) ==
  LET nft == Whole(page.nfts[i].mint) IN [page.nfts[i] EXCEPT !.name = nft.name, !.json = nft.json,
                                                              !.metadataResolved = TRUE]

(* An NFT whose whole metadata is not spam is not hidden because some of   *)
(* it could not be read: fail-open (nft-metadata-hydrator.js).  Only the   *)
(* attributes that are too large to store, when they are all it has, count *)
(* as missing.                                                             *)
UnreadHidesNothing ==
  page.pc = "replied" =>
    LET whole == [i \in DOMAIN page.nfts |-> AllRead(i)]
    IN  \A i \in DOMAIN page.nfts :
          /\ SpamScore(whole[i], CountNames(whole)) < SpamThreshold
          /\ whole[i].json.attributes # "huge" /\ ~Whole(page.nfts[i].mint).blacklisted
          => i \in page.shown

(* Unless the index answered an error, each NFT the wallet holds is once   *)
(* in the list its pages are cut from, and nothing else, as long as the    *)
(* index's first page reaches it or the Token-2022 program holds it; one   *)
(* that both name is there twice.  What is past the first page is lost     *)
(* without an error, to every page of the wallet (dasGetAssetsByOwner,     *)
(* getNftsByOwner).                                                        *)
EachHeldListedOnce ==
  page.pc = "replied" /\ ~page.failed =>
    LET times(n) == Cardinality({j \in DOMAIN page.total : page.total[j].mint = n.mint})
    IN  \A i \in DOMAIN wallet :
          LET n == wallet[i]
              reached == n.indexed /\ i <= FirstPage(wallet)
          IN  times(n) = CASE ~n.held -> 0
                           [] n.held /\ n.token2022 /\ reached /\ n.indexName # "none" -> 2
                           [] n.held /\ ~n.token2022 /\ ~reached -> 0
                           [] OTHER -> 1

(* What is held is listed as far as the first page goes, and what is       *)
(* listed is shown, however much of its metadata could be read.            *)
HoldingsShown == UnreadHidesNothing /\ EachHeldListedOnce
=============================================================================
