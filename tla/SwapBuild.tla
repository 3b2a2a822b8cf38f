----------------------------- MODULE SwapBuild -----------------------------
(***************************************************************************)
(* One swap build, from the provider the availability gate chose to the    *)
(* unsigned transaction: the fee side, the provider's answers, the cleanup *)
(* of pass-through accounts, the simulation, and the guards on what it     *)
(* says.  Between the reads the chain moves on (fee accounts are made,     *)
(* other transactions of the taker land, an RPC node lags a slot behind)   *)
(* and each provider call spends part of the request's budget.             *)
(*                                                                         *)
(* An amount of the taker's funds stands for any of the balances the guard *)
(* compares; what the swap itself may take is Allowed.                     *)
(***************************************************************************)
EXTENDS Integers, Sequences

CONSTANTS
  Budget,        \* the request budget, in ticks
  RetryFloor,    \* RETRY_MIN_REMAINING_MS, in ticks
  CallTicks,     \* the longest provider call, in ticks
  MaxAnswers,    \* JUPITER_BUILD_ATTEMPTS
  Million, Ppm,  \* the fee: Ppm parts of Million
  Grosses,       \* amounts a fee is taken from
  Allowed,       \* what the swap may take from the taker
  Effects,       \* what a provider's instructions do take
  MaxFunds, MaxSlots   \* bounds on the taker's funds and the slots of a build

ASSUME TimesAssumption == {Budget, RetryFloor, CallTicks} \subseteq Nat
ASSUME CountAssumption == MaxAnswers \in Nat \ {0} /\ MaxFunds \in Nat /\ MaxSlots \in Nat \ {0, 1}
ASSUME FeeAssumption   == Million \in Nat /\ Ppm \in 1..(Million - 1) /\ Grosses \subseteq Nat
ASSUME FundsAssumption == Allowed \in Nat /\ Effects \subseteq Nat /\ Effects # {}

Providers == {"0x", "jupiter"}
Sides     == {"buy", "sell"}

VARIABLES
  pc, outcome,   \* the build's next await, or "ended" and what came of it
  provider,      \* locals.availability.provider
  native,        \* the side whose mint is native SOL, if any
  feeOn,         \* SWAP_FEE_BPS and SWAP_FEE_ACCOUNT_OWNER are set
  feeAccounts,   \* chain: the sides whose fee token account exists
  feeAtStart,    \* history: feeAccounts when the build began
  fee,           \* the side the fee is taken from, or "none"
  left,          \* remainingMs
  answers,       \* the provider's answers so far
  retryFailed,   \* a retry threw
  quote,         \* what the chosen answer's instructions turn out to do
  cleanup,       \* a CloseAccount is appended
  funds,         \* chain: the taker's funds, slot by slot, newest last
  readAt,        \* the slot the taker's accounts were read at
  simulated,     \* what the last simulation ran and what it saw
  shown          \* the response's salmonFee, beside what is really deducted

feeVars   == <<provider, native, feeOn, feeAccounts, feeAtStart, fee>>
askVars   == <<left, answers, retryFailed, quote>>
txVars    == <<cleanup, funds, readAt, simulated, shown>>
vars      == <<pc, outcome, feeVars, askVars, txVars>>

Lesser(a, b)  == IF a < b THEN a ELSE b
CeilDiv(a, b) == (a + b - 1) \div b

(* An answer, as far as the choice among answers goes.  The adapter knows  *)
(* two router calls; an answer with any other is refused as invalid.       *)
Routes  == {"route_v2", "shared", "invalid"}
Answers == [route : Routes, size : {"fits", "tooBig", "unknown"}]
IsValid(a) == a.route # "invalid"

(* What the chosen instructions do, drawn when the choice is made: whether *)
(* they pay a fee that is due, whether programs and signers are as they    *)
(* must be, whether the account they pass through keeps something, and     *)
(* what they take.                                                         *)
Quotes == [wired : BOOLEAN, proper : BOOLEAN, residue : BOOLEAN, takes : Effects]

NoQuote == [wired |-> FALSE, proper |-> FALSE, residue |-> FALSE,
            takes |-> CHOOSE e \in Effects : TRUE]
NotRun  == [with |-> FALSE, ok |-> FALSE, before |-> 0, after |-> 0]
NoFee   == [fee |-> 0, deducted |-> 0]

Refusals == {"upstream_unavailable", "token_not_supported", "provider_error",
             "provider_bad_response", "provider_fee_mismatch", "provider_mismatch",
             "simulation_failed", "simulation_unavailable", "internal_error"}

TypeOK ==
  /\ pc \in {"idle", "routable", "feeBuy", "feeSell", "ask", "more", "choose", "cleanup",
             "read", "simulate", "again", "check", "ended"}
  /\ outcome \in Refusals \union {"none", "returned"}
  /\ provider \in Providers /\ native \in Sides \union {"none"}
  /\ feeOn \in BOOLEAN
  /\ feeAccounts \subseteq Sides /\ feeAtStart \subseteq feeAccounts
  /\ fee \in Sides \union {"none"}
  /\ left \in -1..Budget
  /\ answers \in Seq(Answers) /\ Len(answers) <= MaxAnswers
  /\ retryFailed \in BOOLEAN
  /\ quote \in Quotes
  /\ cleanup \in BOOLEAN
  /\ funds \in Seq(0..MaxFunds) /\ Len(funds) <= MaxSlots
  /\ readAt \in 0..Len(funds)
  /\ simulated \in [with : BOOLEAN, ok : BOOLEAN, before : 0..MaxFunds, after : 0..MaxFunds]
  /\ shown \in [fee : Nat, deducted : Nat]

Init ==
  /\ pc = "idle" /\ outcome = "none"
  /\ provider = "jupiter" /\ native = "none" /\ feeOn = FALSE
  /\ feeAccounts = {} /\ feeAtStart = {} /\ fee = "none"
  /\ left = 0 /\ answers = <<>> /\ retryFailed = FALSE /\ quote = NoQuote
  /\ cleanup = FALSE /\ funds = <<>> /\ readAt = 0 /\ simulated = NotRun /\ shown = NoFee

-----------------------------------------------------------------------------
Go(place) == pc' = place /\ UNCHANGED outcome

Throw(code) == pc' = "ended" /\ outcome' = code

(* The request arrives.  resolveAdapter answers 503 for a provider without *)
(* a credential and never tries the other one.                             *)
Start ==
  /\ pc = "idle"
  /\ provider' \in Providers /\ native' \in Sides \union {"none"} /\ feeOn' \in BOOLEAN
  /\ feeAccounts' \in SUBSET Sides /\ feeAtStart' = feeAccounts'
  /\ left' = Budget
  /\ Go("routable") \/ Throw("upstream_unavailable")
  /\ UNCHANGED <<fee, answers, retryFailed, quote, txVars>>

(* Where the fee's accounts stood is not looked at once its side is known: *)
(* it is forgotten, so that no two states differ in nothing else.          *)
FeeDecided ==
  /\ Go("ask")
  /\ native' = "none" /\ feeOn' = FALSE /\ feeAccounts' = {} /\ feeAtStart' = {}

(* assertRoutable, then the fee's configuration.                           *)
AssertRoutable ==
  /\ pc = "routable"
  /\ \/ Throw("token_not_supported") /\ UNCHANGED feeVars
     \/ feeOn /\ Go("feeBuy") /\ UNCHANGED feeVars
     \/ ~feeOn /\ FeeDecided /\ UNCHANGED <<provider, fee>>
  /\ UNCHANGED <<askVars, txVars>>

(* existingFeeAccount: only 0x takes a fee in native SOL to a wallet.      *)
FeeAccountExists(side) ==
  (native = side /\ provider = "0x") \/ side \in feeAccounts

(* Jupiter takes the fee from the output alone.                            *)
HasSellSide == provider = "0x"

(* Wrong on purpose: the input side is asked first.                        *)
ResolveFeeSellFirst ==
  /\ pc \in {"feeBuy", "feeSell"}
  /\ LET side == IF pc = "feeBuy" /\ HasSellSide THEN "sell" ELSE "buy" IN
       \/ FeeAccountExists(side) /\ fee' = side /\ FeeDecided
       \/ /\ ~FeeAccountExists(side) /\ side = "sell"
          /\ Go("feeSell")
          /\ UNCHANGED <<native, feeOn, feeAccounts, feeAtStart, fee>>
       \/ ~FeeAccountExists(side) /\ side = "buy" /\ FeeDecided /\ UNCHANGED fee
  /\ UNCHANGED <<provider, askVars, txVars>>

(* resolveFee: output first, then input, among the adapter's sides; with   *)
(* no account on either the swap is built without a fee.                   *)
ResolveFee ==
  /\ pc \in {"feeBuy", "feeSell"}
  /\ LET side == IF pc = "feeBuy" THEN "buy" ELSE "sell" IN
       \/ FeeAccountExists(side) /\ fee' = side /\ FeeDecided
       \/ /\ ~FeeAccountExists(side) /\ side = "buy" /\ HasSellSide
          /\ Go("feeSell")
          /\ UNCHANGED <<native, feeOn, feeAccounts, feeAtStart, fee>>
       \/ /\ ~FeeAccountExists(side) /\ ~(side = "buy" /\ HasSellSide)
          /\ FeeDecided
          /\ UNCHANGED fee
  /\ UNCHANGED <<provider, askVars, txVars>>

-----------------------------------------------------------------------------
(* A provider call spends some of the budget and ends within a tick of the *)
(* deadline (ProviderClient!WithinBudget).                                 *)
Spend == \E d \in 0..Lesser(CallTicks, left + 1) : left' = left - d

Answered(a) == left > 0 /\ answers' = Append(answers, a) /\ Spend

(* The first answer.  That of 0x is its only one: it is verified by its    *)
(* signature, and a response that does not verify is refused at once.      *)
Ask ==
  /\ pc = "ask"
  /\ \/ \E a \in Answers :
          /\ Answered(a)
          /\ \/ provider = "jupiter" /\ Go("more")
             \/ provider = "0x" /\ IsValid(a) /\ Go("choose")
             \/ provider = "0x" /\ ~IsValid(a) /\ Throw("provider_bad_response")
     \/ Throw("provider_error") /\ UNCHANGED <<answers, left>>
  /\ UNCHANGED <<feeVars, retryFailed, quote, txVars>>

Fits(a) == a.size # "tooBig"

(* Installed wallets verify only route_v2, and nothing too big can be sent.*)
WantsAnother(a) == a.route = "shared" \/ (a.route = "route_v2" /\ ~Fits(a))

MayRetry ==
  /\ WantsAnother(answers[Len(answers)])
  /\ Len(answers) < MaxAnswers
  /\ ~retryFailed
  /\ left > RetryFloor

(* Wrong on purpose: a new answer takes the place of the last, so that the *)
(* loop's count never grows.                                               *)
RetryUncounted ==
  /\ pc = "more" /\ MayRetry
  /\ \/ \E a \in Answers :
          /\ answers' = [answers EXCEPT ![Len(answers)] = a]
          /\ Spend
          /\ UNCHANGED retryFailed
     \/ retryFailed' = TRUE /\ Spend /\ UNCHANGED answers
  /\ UNCHANGED <<pc, outcome, feeVars, quote, txVars>>

(* A retry, on a token free now; one that throws ends the loop.            *)
Retry ==
  /\ pc = "more" /\ MayRetry
  /\ \/ \E a \in Answers : Answered(a) /\ UNCHANGED retryFailed
     \/ retryFailed' = TRUE /\ Spend /\ UNCHANGED answers
  /\ UNCHANGED <<pc, outcome, feeVars, quote, txVars>>

EnoughAnswers ==
  /\ pc = "more" /\ ~MayRetry
  /\ Go("choose")
  /\ UNCHANGED <<feeVars, askVars, txVars>>

(* Of the answers that pass every check, the first route_v2 that fits,     *)
(* else the first that fits, else the first.                               *)
Valid    == {i \in DOMAIN answers : IsValid(answers[i])}
Fitting  == {i \in Valid : Fits(answers[i])}
Verified == {i \in Fitting : answers[i].route = "route_v2"}

First(S) == CHOOSE i \in S : \A j \in S : i <= j

(* Wrong on purpose: the newest valid answer is the best.                  *)
ChosenLast == CHOOSE i \in Valid : \A j \in Valid : i >= j

Best == IF Verified # {} THEN Verified ELSE IF Fitting # {} THEN Fitting ELSE Valid

Chosen == First(Best)

(* The choice; the other answers and the budget are not looked at again.   *)
(* A valid Jupiter answer names the fee's recipient, that of 0x is checked *)
(* by assertFeeInstructionPresent.                                         *)
Choose ==
  /\ pc = "choose"
  /\ \/ /\ Valid = {}
        /\ Throw("provider_bad_response")
        /\ UNCHANGED <<answers, quote>>
     \/ /\ Valid # {}
        /\ answers' = <<answers[Chosen]>>
        /\ \E q \in Quotes :
             /\ fee = "none" \/ provider = "jupiter" => q.wired
             /\ quote' = q
             /\ IF fee # "none" /\ ~q.wired
                THEN Throw("provider_fee_mismatch") ELSE Go("cleanup")
  /\ left' = 0 /\ retryFailed' = FALSE
  /\ UNCHANGED <<feeVars, txVars>>

-----------------------------------------------------------------------------
(* intermediateAccountCleanup: a close is appended when the instructions   *)
(* open an account to pass through that does not exist yet.                *)
IntermediateAccountCleanup ==
  /\ pc = "cleanup"
  /\ cleanup' \in BOOLEAN
  /\ Go("read")
  /\ UNCHANGED <<feeVars, askVars, funds, readAt, simulated, shown>>

(* readTakerAccounts, on a node that is at the newest slot or the one      *)
(* before it.                                                              *)
NodeSlots == {s \in DOMAIN funds : s >= Len(funds) - 1}

ReadTakerAccounts ==
  /\ pc = "read"
  /\ \E older, newest \in 0..MaxFunds : funds' = <<older, newest>>
  /\ readAt' \in {1, 2}
  /\ Go("simulate")
  /\ UNCHANGED <<feeVars, askVars, cleanup, simulated, shown>>

(* Wrong on purpose: the simulation may run on any node's state.           *)
RecentEnoughAny(s) == s \in DOMAIN funds

(* minContextSlot: a node that lags behind the read cannot simulate.       *)
RecentEnough(s) == s >= readAt

(* The close fails on what the route leaves in the account; a transaction  *)
(* too big to send, or that takes what the taker has not, fails too.       *)
CanSucceed(with, s) ==
  /\ RecentEnough(s)
  /\ ~(with /\ quote.residue)
  /\ answers[1].size # "tooBig"
  /\ funds[s] >= quote.takes

(* simulate: one run, which may also fail for reasons of its own.          *)
Simulation(with) ==
  \/ \E s \in NodeSlots :
       /\ CanSucceed(with, s)
       /\ simulated' = [with |-> with, ok |-> TRUE,
                        before |-> funds[readAt], after |-> funds[s] - quote.takes]
  \/ simulated' = [NotRun EXCEPT !.with = with]

(* compileUnsigned: simulate with the cleanup, and when that is rejected   *)
(* drop it and simulate again.                                             *)
Simulate ==
  /\ pc = "simulate"
  /\ Simulation(cleanup)
  /\ Go(IF cleanup /\ ~simulated'.ok THEN "again" ELSE "check")
  /\ UNCHANGED <<feeVars, askVars, cleanup, funds, readAt, shown>>

(* Wrong on purpose: the close is left in what is returned.                *)
SimulateAgainKeeping ==
  /\ pc = "again"
  /\ Simulation(FALSE)
  /\ Go("check")
  /\ UNCHANGED <<feeVars, askVars, cleanup, funds, readAt, shown>>

SimulateAgain ==
  /\ pc = "again"
  /\ cleanup' = FALSE
  /\ Simulation(FALSE)
  /\ Go("check")
  /\ UNCHANGED <<feeVars, askVars, funds, readAt, shown>>

(* Wrong on purpose: the fee as a share of the net amount.                 *)
EstimateOfNet(side, amountIn, amountOut) ==
  CeilDiv((IF side = "sell" THEN amountIn ELSE amountOut) * Ppm, Million)

(* estimateFeeAmount: of the input before it is routed, or of an output    *)
(* that is already net of it.                                              *)
EstimateFeeAmount(side, amountIn, amountOut) ==
  IF side = "sell" THEN CeilDiv(amountIn * Ppm, Million)
                   ELSE CeilDiv(amountOut * Ppm, Million - Ppm)

(* What the provider deducts from a gross amount, rounded up.              *)
Deducted(gross) == CeilDiv(gross * Ppm, Million)

Return ==
  /\ Throw("returned")
  /\ \/ fee = "none" /\ UNCHANGED shown
     \/ /\ fee # "none"
        /\ \E gross \in Grosses :
             shown' = [fee      |-> EstimateFeeAmount(fee, gross, gross - Deducted(gross)),
                       deducted |-> Deducted(gross)]

(* The last guards, in the code's order: programs and signers, then the    *)
(* simulation's verdict, then what it says of the taker's funds; a node    *)
(* that reports no accounts leaves nothing to judge.                       *)
Check ==
  /\ pc = "check"
  /\ \/ ~quote.proper /\ Throw("provider_mismatch") /\ UNCHANGED shown
     \/ /\ quote.proper /\ ~simulated.ok
        /\ Throw("simulation_failed") \/ Throw("simulation_unavailable")
        /\ UNCHANGED shown
     \/ /\ quote.proper /\ simulated.ok
        /\ \/ Throw("simulation_unavailable") /\ UNCHANGED shown
           \/ /\ simulated.before - simulated.after > Allowed
              /\ Throw("provider_bad_response")
              /\ UNCHANGED shown
           \/ simulated.before - simulated.after <= Allowed /\ Return
  /\ UNCHANGED <<feeVars, askVars, cleanup, funds, readAt, simulated>>

(* The response is sent and the request forgotten.                         *)
Done ==
  /\ pc = "ended"
  /\ pc' = "idle" /\ outcome' = "none"
  /\ provider' = "jupiter" /\ native' = "none" /\ feeOn' = FALSE
  /\ feeAccounts' = {} /\ feeAtStart' = {} /\ fee' = "none"
  /\ left' = 0 /\ answers' = <<>> /\ retryFailed' = FALSE /\ quote' = NoQuote
  /\ cleanup' = FALSE /\ funds' = <<>> /\ readAt' = 0 /\ simulated' = NotRun /\ shown' = NoFee

-----------------------------------------------------------------------------
(* Meanwhile the chain moves where the build is about to look: a fee       *)
(* account is made, a transaction of the taker's lands.                    *)
FeeAccountMade(side) ==
  /\ pc \in {"routable", "feeBuy", "feeSell"}
  /\ feeAccounts' = feeAccounts \union {side}
  /\ UNCHANGED <<pc, outcome, provider, native, feeOn, feeAtStart, fee, askVars, txVars>>

TransactionLands ==
  /\ pc \in {"simulate", "again"}
  /\ Len(funds) < MaxSlots
  /\ \E f \in 0..MaxFunds : funds' = Append(funds, f)
  /\ UNCHANGED <<pc, outcome, feeVars, askVars, cleanup, readAt, simulated, shown>>

(* A read of the chain fails, and nothing in the build catches it; only a  *)
(* simulation's own failure is an answer.                                  *)
ReadThrows ==
  /\ pc \in {"routable", "feeBuy", "feeSell", "cleanup", "read", "simulate"}
  /\ Throw("internal_error")
  /\ UNCHANGED <<feeVars, askVars, txVars>>

BuildStep ==
  \/ AssertRoutable \/ ResolveFee \/ Ask \/ Retry \/ EnoughAnswers \/ Choose
  \/ IntermediateAccountCleanup \/ ReadTakerAccounts \/ Simulate \/ SimulateAgain \/ Check
  \/ ReadThrows

Next ==
  \/ Start \/ BuildStep \/ Done
  \/ \E side \in Sides : FeeAccountMade(side)
  \/ TransactionLands

(* Every await of the build settles.                                       *)
Fairness == WF_vars(BuildStep)

Spec == Init /\ [][Next]_vars /\ Fairness

-----------------------------------------------------------------------------
Returned == outcome = "returned"

(* The instructions returned are the ones that were simulated, cleanup     *)
(* included (compileUnsigned, build): the user never signs what failed, or *)
(* what was never run.                                                     *)
ReturnedAsSimulated ==
  Returned => simulated.ok /\ simulated.with = cleanup /\ ~(cleanup /\ quote.residue)

(* The fee is neither skipped nor taken from the input while the account   *)
(* of a side that comes first stands from the start of the build           *)
(* (resolveFee).                                                           *)
FeeSideRight ==
  [][pc # "ask" /\ pc' = "ask" /\ feeOn =>
       /\ fee' # "buy" => "buy" \notin feeAtStart /\ (provider = "0x" => native # "buy")
       /\ fee' = "none" /\ provider = "0x" => "sell" \notin feeAtStart /\ native # "sell"
       /\ fee' = "sell" => provider = "0x"]_vars

(* Asking again only helps: a first answer that was good is never lost to  *)
(* what the retries came to, and the answer chosen is one that installed   *)
(* wallets accept, or at least one that can be sent, whenever there is one *)
(* (requestSwapInstructions of the Jupiter adapter).                       *)
RetriesOnlyHelp ==
  [][LET good(i) == answers[i].route = "route_v2" /\ Fits(answers[i])
         sendable(i) == IsValid(answers[i]) /\ Fits(answers[i])
     IN  /\ pc = "more" => outcome' # "provider_error"
         /\ pc = "choose" /\ IsValid(answers[1]) =>
              /\ IsValid(answers'[1])
              /\ (\E i \in DOMAIN answers : sendable(i)) => Fits(answers'[1])
              /\ (\E i \in DOMAIN answers : good(i)) => answers'[1].route = "route_v2"]_vars

(* While nothing of the taker's lands after its accounts were read, a      *)
(* build that takes more than the swap may is refused, whichever nodes the *)
(* read and the simulation reached (readTakerAccounts, assertBalances).    *)
GuardCatchesExcess ==
  Returned /\ (\A s \in readAt..Len(funds) : funds[s] = funds[readAt]) => quote.takes <= Allowed

(* The fee shown is the fee deducted, or on the buy side one base unit     *)
(* less: rounding leaves two gross amounts with one net amount             *)
(* (estimateFeeAmount).                                                    *)
ShownFeeExact ==
  shown.deducted - shown.fee \in (IF fee = "buy" THEN {0, 1} ELSE {0})

(* Every build ends, whatever Jupiter answers: the retry loop of its       *)
(* adapter cannot run for ever.                                            *)
EveryBuildEnds == (pc \notin {"idle", "ended"}) ~> (pc = "ended")
=============================================================================
