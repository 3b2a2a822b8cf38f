------------------------------ MODULE Balances ------------------------------
(***************************************************************************)
(* The balance of a Solana wallet: its token accounts off the node, what   *)
(* the index and the catalog say of their mints, what of them is hidden,   *)
(* the amounts that are shown of the mints that scale theirs, and prices.  *)
(* An issuer may change a mint's multiplier, at once or for later; the     *)
(* market quotes what is shown, so that a unit's worth stays what it was.  *)
(*                                                                         *)
(* Time counts in ticks.  Amounts and multipliers are whole here.          *)
(***************************************************************************)
EXTENDS Integers, FiniteSets, Sequences, SequencesExt, FiniteSetsExt

CONSTANTS
  HeldMints, MintOf,        \* mints, and what each is
  Multipliers,            \* what an issuer may set; each divides every worth
  ShortTtl,               \* PRICE_CACHE_TTL and CACHE_TTL_SECONDS of the extensions
  MaxMintsPerBatch,       \* MAX_MINTS_PER_BATCH
  LastClock, MaxSettings, MaxLookups, MaxLookupFailures,
  Unset

ASSUME BalancesAssumption ==
  /\ IsFiniteSet(HeldMints) /\ \A m \in HeldMints : MintOf[m].accounts \in Seq(Nat) /\ MintOf[m].worth \in Nat \ {0}
  /\ \A m \in HeldMints : MintOf[m].scaled => \A x \in Multipliers : MintOf[m].worth % x = 0
  /\ Multipliers \subseteq Nat \ {0} /\ ShortTtl \in Nat \ {0} /\ MaxMintsPerBatch \in Nat \ {0}
  /\ LastClock \in Nat /\ MaxSettings \in Nat /\ MaxLookups \in Nat /\ MaxLookupFailures \in Nat
  /\ Unset \notin Int /\ Unset \notin [multiplier : Nat, next : Nat, from : Nat \cup {Unset}, set : Nat]

VARIABLES
  clock,
  settings,           \* history: by mint, the multipliers its issuer set, and when
  extensions,         \* token_ui_extensions: by mint, the setting kept, or Unset
  quotes,             \* token_price: by mint, the quote kept, or Unset
  balance,            \* the request
  lookups, lookupFailures

balanceVars == <<clock, settings, extensions, quotes, balance, lookups, lookupFailures>>

Scaled == {m \in HeldMints : MintOf[m].scaled}

NoBalance == [pc |-> "idle", includeSpam |-> FALSE, available |-> FALSE, metadata |-> {}, visible |-> <<>>,
              toRead |-> <<>>, known |-> {}, ui |-> <<>>, prices |-> <<>>, asked |-> 0, uiAt |-> 0, repliedAt |-> 0]

BalancesInit ==
  /\ clock = 0
  /\ settings = [m \in Scaled |-> <<[multiplier |-> 1, next |-> 1, from |-> 0, set |-> 0]>>]
  /\ extensions = [m \in HeldMints |-> Unset] /\ quotes = [m \in HeldMints |-> Unset]
  /\ balance = NoBalance /\ lookups = 0 /\ lookupFailures = 0

-----------------------------------------------------------------------------
(* token-ui-amount-service.js: a setting names the multiplier to come and  *)
(* when it comes, or Unset.                                                 *)

ScaledUiMultiplier(setting, at) ==
  IF setting.from # Unset /\ at >= setting.from THEN setting.next ELSE setting.multiplier

InForce(m, at) == ScaledUiMultiplier(Last(settings[m]), at)

(* What a unit that is shown is quoted at: it is the raw one that has worth. *)
MarketPrice(m) == IF m \in Scaled THEN MintOf[m].worth \div InForce(m, clock) ELSE MintOf[m].worth

-----------------------------------------------------------------------------
(* solana-rpc-balance-provider.js: all token accounts in one batch, and a  *)
(* balance for each mint; an answer with an error in it ends the request.  *)

Raw(m) == SumFunction(MintOf[m].accounts)

Chain == UNCHANGED <<clock, settings, lookups>>

AskBalance(includeSpam) ==
  /\ balance.pc \in {"idle", "replied", "failed"} /\ lookups < MaxLookups /\ lookups' = lookups + 1
  /\ balance' = [NoBalance EXCEPT !.pc = "accounts", !.includeSpam = includeSpam, !.asked = clock]
  /\ UNCHANGED <<clock, settings, extensions, quotes, lookupFailures>>

ReadAccounts ==
  /\ balance.pc = "accounts" /\ balance' = [balance EXCEPT !.pc = "metadata"]
  /\ Chain /\ UNCHANGED <<extensions, quotes, lookupFailures>>

(* The accounts, or the prices, cannot be had.                             *)
BalanceFails ==
  /\ balance.pc \in {"accounts", "prices"} /\ lookupFailures < MaxLookupFailures
  /\ balance.pc = "prices" => \E m \in Range(balance.visible) : quotes[m] = Unset
  /\ lookupFailures' = lookupFailures + 1 /\ balance' = [balance EXCEPT !.pc = "failed"]
  /\ Chain /\ UNCHANGED <<extensions, quotes>>

-----------------------------------------------------------------------------
(* solana-ft-service.js: what the index and the catalog say, together.     *)

Merge(m) ==
  [mint |-> m, verified |-> MintOf[m].listing = "verified",
   token2022 |-> MintOf[m].indexed /\ MintOf[m].program = "token-2022"]

GetByMints ==
  {Merge(m) : m \in {a \in HeldMints : MintOf[a].decimals > 0 /\ (MintOf[a].indexed \/ MintOf[a].listing # "none")}}

-----------------------------------------------------------------------------
(* solana-balance-provider.js                                              *)

(* Wrong on purpose: an unknown token is hidden all the same.              *)
VisibleVerified(includeSpam, available, metadata) ==
  {m \in HeldMints : Raw(m) > 0 /\ (includeSpam \/ \E t \in metadata : t.mint = m /\ t.verified)}

(* Without metadata nothing is told to be spam, and nothing is hidden.     *)
Visible(includeSpam, available, metadata) ==
  {m \in HeldMints : Raw(m) > 0 /\ (includeSpam \/ ~available \/ \E t \in metadata : t.mint = m /\ t.verified)}

(* Only mints of the new program, as the index names it, may scale: their  *)
(* settings are read, in batches, those that are not in the cache.         *)
Decorate(available, metadata) ==
  LET visible == Visible(balance.includeSpam, available, metadata)
      scaling == {m \in visible : \E t \in metadata : t.mint = m /\ t.token2022}
  IN  balance' = [balance EXCEPT !.available = available, !.metadata = metadata, !.visible = SetToSeq(visible),
                    !.known  = {[mint |-> m, setting |-> extensions[m].setting] : m \in {x \in scaling : extensions[x] # Unset}},
                    !.toRead = SetToSeq({x \in scaling : extensions[x] = Unset}),
                    !.pc     = IF scaling = {} THEN "prices" ELSE "extensions"]

ReadMetadata ==
  /\ balance.pc = "metadata"
  /\ Decorate(TRUE, GetByMints)
  /\ Chain /\ UNCHANGED <<extensions, quotes, lookupFailures>>

(* The catalog fails, or the index does.                                   *)
MetadataFails ==
  /\ balance.pc = "metadata" /\ lookupFailures < MaxLookupFailures /\ lookupFailures' = lookupFailures + 1
  /\ Decorate(FALSE, {})
  /\ Chain /\ UNCHANGED <<extensions, quotes>>

(* Wrong on purpose: what is kept is the multiplier it comes to.           *)
ExtensionAsInForce(m) ==
  IF m \in Scaled THEN [Last(settings[m]) EXCEPT !.multiplier = InForce(m, clock), !.from = Unset] ELSE Unset

(* The setting is kept, never the multiplier that it comes to.             *)
Extension(m) == IF m \in Scaled THEN Last(settings[m]) ELSE Unset

GetMintExtensions ==
  LET slice == SubSeq(balance.toRead, 1, Min({MaxMintsPerBatch, Len(balance.toRead)}))
  IN  /\ balance.pc = "extensions" /\ balance.toRead # <<>>
      /\ balance' = [balance EXCEPT !.toRead = SubSeq(@, Len(slice) + 1, Len(@)),
                       !.known = @ \cup {[mint |-> m, setting |-> Extension(m)] : m \in Range(slice)}]
      /\ extensions' = [m \in HeldMints |-> IF m \in Range(slice) THEN [setting |-> Extension(m), until |-> clock + ShortTtl]
                                         ELSE extensions[m]]
      /\ Chain /\ UNCHANGED <<quotes, lookupFailures>>

(* A batch that fails leaves every amount as it is, those known too.       *)
ExtensionsFail ==
  /\ balance.pc = "extensions" /\ balance.toRead # <<>> /\ lookupFailures < MaxLookupFailures
  /\ lookupFailures' = lookupFailures + 1
  /\ balance' = [balance EXCEPT !.pc = "prices", !.toRead = <<>>, !.known = {}]
  /\ Chain /\ UNCHANGED <<extensions, quotes>>

UiAmount(m, setting) ==
  IF setting = Unset \/ ScaledUiMultiplier(setting, clock) = 1 THEN Unset ELSE Raw(m) * ScaledUiMultiplier(setting, clock)

GetUiAmounts ==
  /\ balance.pc = "extensions" /\ balance.toRead = <<>>
  /\ balance' = [balance EXCEPT !.pc = "prices", !.uiAt = clock,
                   !.ui = [m \in {k.mint : k \in balance.known} |->
                             UiAmount(m, (CHOOSE k \in balance.known : k.mint = m).setting)]]
  /\ Chain /\ UNCHANGED <<extensions, quotes, lookupFailures>>

-----------------------------------------------------------------------------
(* coingecko-service.js (getTokenPrices), price-cache.js: the quotes kept, *)
(* and one call for the others.  A mint that is not listed has no quote.   *)

GetTokenPrices ==
  LET priced == {m \in Range(balance.visible) : MintOf[m].listing # "none"}
      quote(m) == IF quotes[m] # Unset THEN quotes[m].price ELSE MarketPrice(m)
  IN  /\ balance.pc = "prices"
      /\ balance' = [balance EXCEPT !.pc = "replied", !.repliedAt = clock,
                       !.prices = [m \in priced |-> quote(m)]]
      /\ quotes' = [m \in HeldMints |-> IF m \in priced /\ quotes[m] = Unset
                                     THEN [price |-> MarketPrice(m), until |-> clock + ShortTtl] ELSE quotes[m]]
      /\ Chain /\ UNCHANGED <<extensions, lookupFailures>>

(* usd-balance.js                                                          *)
ShownAmount(m) == IF m \in DOMAIN balance.ui /\ balance.ui[m] # Unset THEN balance.ui[m] ELSE Raw(m)
ComputeUsdBalance(m) == ShownAmount(m) * balance.prices[m]

-----------------------------------------------------------------------------
(* The issuer sets a multiplier for now, for later, or none for later.     *)
SetMultiplier(m, x, from) ==
  /\ Len(settings[m]) <= MaxSettings
  /\ settings' = [settings EXCEPT ![m] = Append(@, [multiplier |-> InForce(m, clock), next |-> x, from |-> from, set |-> clock])]
  /\ UNCHANGED <<clock, extensions, quotes, balance, lookups, lookupFailures>>

ClockOn ==
  LET kept(e) == IF e # Unset /\ e.until <= clock + 1 THEN Unset ELSE e
  IN  /\ clock < LastClock /\ clock' = clock + 1
      /\ extensions' = [m \in HeldMints |-> kept(extensions[m])] /\ quotes' = [m \in HeldMints |-> kept(quotes[m])]
      /\ UNCHANGED <<settings, balance, lookups, lookupFailures>>

BalancesNext ==
  \/ \E includeSpam \in BOOLEAN : AskBalance(includeSpam)
  \/ ReadAccounts \/ ReadMetadata \/ MetadataFails \/ GetMintExtensions \/ ExtensionsFail
  \/ GetUiAmounts \/ GetTokenPrices \/ BalanceFails \/ ClockOn
  \/ \E m \in Scaled, x \in Multipliers, from \in {Unset, clock, LastClock} : SetMultiplier(m, x, from)

BalancesSpec == BalancesInit /\ [][BalancesNext]_balanceVars

-----------------------------------------------------------------------------
(* The issuer's settings from a TTL before the request on, up to a time.   *)
SettingsOf(m, end) ==
  {settings[m][i] : i \in {j \in DOMAIN settings[m] :
     settings[m][j].set <= end /\ (j = Len(settings[m]) \/ settings[m][j + 1].set > balance.asked - ShortTtl)}}

(* All this while one multiplier was in force.                             *)
OneMultiplier(m) ==
  /\ \A i \in DOMAIN settings[m] : i > 1 => settings[m][i].set \notin (balance.asked - ShortTtl) .. balance.repliedAt
  /\ \A s \in {settings[m][i] : i \in {j \in DOMAIN settings[m] : settings[m][j].set <= balance.asked}} :
       s.from \notin (balance.asked - ShortTtl) .. balance.repliedAt

(* No token that the catalog verified is hidden, nor any other when it     *)
(* cannot be told which are (getBalance: "showing possible spam beats      *)
(* hiding real funds").                                                    *)
NothingHeldHidden ==
  \A m \in HeldMints :
    Raw(m) > 0 /\ (balance.available => MintOf[m].listing = "verified" /\ MintOf[m].decimals > 0) => m \in Range(balance.visible)

(* What is shown of a mint whose setting was had is scaled by a setting    *)
(* that was the issuer's less than a TTL before the request, and as it     *)
(* stands at that moment, though it was read before; and the price is one  *)
(* the market gave less than a TTL before it.  The two come of reads of    *)
(* their own: if one multiplier was in force all this time the value is    *)
(* exact, and else what is shown may be of a new multiplier and the price  *)
(* of an old one, or the reverse, until both entries lapse (getUiAmounts,  *)
(* getTokenPrices, computeUsdBalance).                                     *)
ShownAsIssued ==
  \A m \in Scaled :
    /\ m \in DOMAIN balance.ui =>
         \E s \in SettingsOf(m, balance.uiAt) : ShownAmount(m) = Raw(m) * ScaledUiMultiplier(s, balance.uiAt)
    /\ m \in DOMAIN balance.prices =>
         \E s \in SettingsOf(m, balance.repliedAt), t \in (balance.asked - ShortTtl + 1) .. balance.repliedAt :
           balance.prices[m] = MintOf[m].worth \div ScaledUiMultiplier(s, t)
    /\ OneMultiplier(m) /\ m \in DOMAIN balance.ui \cap DOMAIN balance.prices =>
         ComputeUsdBalance(m) = Raw(m) * MintOf[m].worth

BalanceAsHeld == balance.pc = "replied" => NothingHeldHidden /\ ShownAsIssued

(* "`amount` stays the unit every transfer, fee and price calculation is   *)
(* denominated in, and the multiplier is display-only"                     *)
(* (token-ui-amount-service.js): a value is the raw amount's.              *)
PricedInRaw ==
  balance.pc = "replied" =>
    \A m \in Scaled \cap DOMAIN balance.prices : ComputeUsdBalance(m) = Raw(m) * balance.prices[m]
=============================================================================
