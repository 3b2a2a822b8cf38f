-------------------------- MODULE SwapBuildProofs --------------------------
(* What holds of a swap build for every budget, every fee and amount, and  *)
(* whatever the provider's instructions do.                                *)
EXTENDS SwapBuild, SequenceTheorems, WellFoundedInduction, TLAPS

(* The build is over exactly when something came of it.                    *)
EndsOnce == pc = "ended" <=> outcome # "none"

(* What a build has not come to yet is as it was when the request arrived. *)
NotYet ==
  /\ pc \in {"idle", "routable", "feeBuy", "feeSell"} => fee = "none"
  /\ pc \in {"idle", "routable", "feeBuy", "feeSell", "ask"} => answers = <<>>
  /\ pc \notin {"again", "check", "ended"} => simulated = NotRun
  /\ pc # "ended" => shown = NoFee

(* The choice is made among one answer at least.                           *)
Answering == pc \in {"more", "choose"} => answers # <<>>

(* The input side is asked only of 0x, and for want of an output account.  *)
SecondChoice ==
  pc = "feeSell" => provider = "0x" /\ native # "buy" /\ "buy" \notin feeAtStart

(* What a simulation that succeeded says of the chain and of the close.    *)
SimulatedTrue ==
  /\ pc \in {"simulate", "again", "check"} => readAt \in DOMAIN funds
  /\ pc = "again" => ~simulated.ok
  /\ pc = "check" => simulated.with = cleanup
  /\ simulated.ok =>
       /\ readAt \in DOMAIN funds
       /\ ~(simulated.with /\ quote.residue)
       /\ simulated.before = funds[readAt]
       /\ \E s \in readAt..Len(funds) : simulated.after = funds[s] - quote.takes

(* What is returned passed the last guards.                                *)
Guarded ==
  Returned =>
    /\ simulated.ok /\ simulated.with = cleanup
    /\ simulated.before - simulated.after <= Allowed

(* The inductive invariant.                                                *)
IInv ==
  TypeOK /\ EndsOnce /\ NotYet /\ Answering /\ SecondChoice /\ SimulatedTrue /\ Guarded

-----------------------------------------------------------------------------
(* A division that rounds up.                                              *)
LEMMA CeilDivBounds ==
  ASSUME NEW a \in Nat, NEW b \in Nat \ {0}
  PROVE  /\ CeilDiv(a, b) \in Nat
         /\ a <= b * CeilDiv(a, b) /\ b * CeilDiv(a, b) < a + b
  BY DEF CeilDiv

LEMMA BelowTwo ==
  ASSUME NEW k \in Nat \ {0}, NEW x \in Int, -k < k * x, k * x < 2 * k
  PROVE  x \in {0, 1}
  OBVIOUS

(* A fee takes no more than there is.                                      *)
LEMMA DeductedBounded ==
  ASSUME NEW gross \in Nat
  PROVE  Deducted(gross) \in 0..gross
<1>1. Million \in Nat \ {0} /\ Ppm \in Nat /\ Ppm <= Million - 1
  BY FeeAssumption
<1>2. gross * Ppm \in Nat /\ gross * Ppm <= gross * (Million - 1)
  BY <1>1
<1>3. Deducted(gross) \in Nat /\ Million * Deducted(gross) < gross * Ppm + Million
  BY <1>1, <1>2, CeilDivBounds DEF Deducted
<1>4. Million * Deducted(gross) < Million * (gross + 1)
  BY <1>1, <1>2, <1>3
<1>5. Deducted(gross) < gross + 1
  BY <1>1, <1>3, <1>4
<1> QED BY <1>3, <1>5

(* The estimate of the input's fee is what is deducted; that of the output *)
(* is made from the net amount, and with a fee of at most a half it is one *)
(* base unit less at most.                                                 *)
LEMMA EstimateExact ==
  ASSUME NEW gross \in Nat, NEW side \in Sides, 2 * Ppm <= Million
  PROVE  Deducted(gross) - EstimateFeeAmount(side, gross, gross - Deducted(gross))
           \in (IF side = "buy" THEN {0, 1} ELSE {0})
<1> DEFINE due   == Deducted(gross)
           net   == gross - due
           keeps == Million - Ppm
           said  == CeilDiv(net * Ppm, keeps)
<1>1. Million \in Nat \ {0} /\ Ppm \in Nat \ {0} /\ keeps \in Nat \ {0}
  BY FeeAssumption
<1>2. due \in Nat /\ net \in Nat
  BY DeductedBounded
<1>3. CASE side = "sell"
  <2>1. EstimateFeeAmount(side, gross, net) = due
    BY <1>3 DEF EstimateFeeAmount, Deducted
  <2> QED BY <1>2, <1>3, <2>1
<1>4. CASE side = "buy"
  <2>1. gross * Ppm \in Nat /\ net * Ppm \in Nat
    BY <1>1, <1>2
  <2>2. gross * Ppm <= Million * due /\ Million * due < gross * Ppm + Million
    BY <1>1, <2>1, CeilDivBounds DEF Deducted
  <2>3. said \in Nat /\ net * Ppm <= keeps * said /\ keeps * said < net * Ppm + keeps
    BY <1>1, <2>1, CeilDivBounds
  <2>4. EstimateFeeAmount(side, gross, net) = said
    BY <1>4 DEF EstimateFeeAmount
  <2> HIDE DEF said
  <2>5. keeps * due - net * Ppm = Million * due - gross * Ppm
    BY <1>1, <1>2
  <2>6. keeps * (due - said) = (keeps * due - net * Ppm) - (keeps * said - net * Ppm)
    BY <1>1, <1>2, <2>3
  <2> HIDE DEF due, net
  <2>7. -keeps < keeps * (due - said) /\ keeps * (due - said) < 2 * keeps
    BY <1>1, <1>2, <2>1, <2>2, <2>3, <2>5, <2>6
  <2>8. due - said \in {0, 1}
    BY <1>1, <1>2, <2>3, <2>7, BelowTwo
  <2> QED BY <1>4, <2>4, <2>8 DEF due, net
<1> QED BY <1>3, <1>4 DEF Sides

(* What is shown of a fee is an amount.                                    *)
LEMMA EstimateTyped ==
  ASSUME NEW gross \in Nat, NEW side
  PROVE  EstimateFeeAmount(side, gross, gross - Deducted(gross)) \in Nat
<1>1. Million \in Nat \ {0} /\ Ppm \in Nat /\ Million - Ppm \in Nat \ {0}
  BY FeeAssumption
<1>2. gross * Ppm \in Nat /\ (gross - Deducted(gross)) * Ppm \in Nat
  BY <1>1, DeductedBounded
<1> QED BY <1>1, <1>2, CeilDivBounds DEF EstimateFeeAmount

-----------------------------------------------------------------------------
(* A set of positions has a first one.                                     *)
LEMMA FirstIsLeast ==
  ASSUME NEW S, S \subseteq Nat, S # {}
  PROVE  First(S) \in S /\ \A j \in S : First(S) <= j
<1> DEFINE Below == {ss \in Nat \X Nat : ss[1] < ss[2]}
<1>1. IsWellFoundedOn(Below, Nat)
  BY NatLessThanWellFounded DEF OpToRel
<1>2. PICK i \in S : \A j \in S : ~(<<j, i>> \in Below)
  BY <1>1, WFMin, Zenon
<1>3. ASSUME NEW j \in S PROVE i <= j
  <2>1. ~(<<j, i>> \in Below)
    BY <1>2
  <2>2. j \in Nat /\ i \in Nat /\ (j < i => <<j, i>> \in Below)
    OBVIOUS
  <2> QED BY <2>1, <2>2
<1>4. \E k \in S : \A j \in S : k <= j
  BY <1>3
<1> QED BY <1>4, Zenon DEF First

(* The choice is a valid answer, one that fits where there is one, and one *)
(* that installed wallets verify where there is one that fits.             *)
LEMMA ChosenIsBest ==
  ASSUME answers \in Seq(Answers), Valid # {}
  PROVE  /\ Chosen \in Valid
         /\ Fitting # {} => Chosen \in Fitting
         /\ Verified # {} => Chosen \in Verified
<1>1. /\ Valid \subseteq Nat /\ Fitting \subseteq Nat /\ Verified \subseteq Nat
      /\ Fitting \subseteq Valid /\ Verified \subseteq Fitting
  BY DEF Valid, Fitting, Verified
<1>2. Best \subseteq Valid /\ Best # {}
  BY <1>1 DEF Best
<1>3. Chosen \in Best
  BY <1>1, <1>2, FirstIsLeast DEF Chosen
<1> QED BY <1>1, <1>2, <1>3 DEF Best

-----------------------------------------------------------------------------
LEMMA InitIInv == Init => IInv
<1> SUFFICES ASSUME Init PROVE IInv
  OBVIOUS
<1>1. NoQuote \in Quotes
  BY FundsAssumption DEF NoQuote, Quotes
<1>2. Budget \in Nat /\ MaxAnswers \in Nat /\ MaxFunds \in Nat /\ MaxSlots \in Nat
  BY TimesAssumption, CountAssumption
<1>3. <<>> \in Seq(Answers) /\ <<>> \in Seq(0..MaxFunds) /\ Len(<<>>) = 0
  OBVIOUS
<1>4. NotRun \in [with : BOOLEAN, ok : BOOLEAN, before : 0..MaxFunds, after : 0..MaxFunds]
      /\ NoFee \in [fee : Nat, deducted : Nat]
  BY <1>2 DEF NotRun, NoFee
<1>5. TypeOK
  <2>1. answers \in Seq(Answers) /\ Len(answers) <= MaxAnswers
    BY <1>2, <1>3 DEF Init
  <2>2. funds \in Seq(0..MaxFunds) /\ Len(funds) <= MaxSlots /\ readAt \in 0..Len(funds)
    BY <1>2, <1>3 DEF Init
  <2>3. left \in -1..Budget
    BY <1>2 DEF Init
  <2> QED BY <1>1, <1>4, <2>1, <2>2, <2>3 DEF Init, TypeOK, Providers, Sides
<1> QED
  BY <1>5 DEF Init, IInv, EndsOnce, NotYet, Answering, SecondChoice, SimulatedTrue, Guarded,
              Returned, NotRun

(* A build that is over before anything was simulated keeps the invariant. *)
LEMMA StartIInv == IInv /\ Start => IInv'
  BY TimesAssumption
     DEF IInv, Start, Go, Throw, txVars, TypeOK, Refusals, EndsOnce, NotYet, Answering,
         SecondChoice, SimulatedTrue, Guarded, Returned, NotRun

LEMMA FeeIInv == IInv /\ (AssertRoutable \/ ResolveFee) => IInv'
<1> SUFFICES ASSUME IInv, AssertRoutable \/ ResolveFee PROVE IInv'
  OBVIOUS
<1> USE DEF IInv
<1>1. CASE AssertRoutable
  BY <1>1
     DEF AssertRoutable, FeeDecided, Go, Throw, feeVars, askVars, txVars, TypeOK, Refusals,
         EndsOnce, NotYet, Answering, SecondChoice, SimulatedTrue, Guarded, Returned, NotRun
<1>2. CASE ResolveFee
  <2>1. TypeOK'
    BY <1>2 DEF ResolveFee, FeeDecided, Go, askVars, txVars, TypeOK, Sides
  <2>2. EndsOnce' /\ NotYet' /\ Answering'
    BY <1>2 DEF ResolveFee, FeeDecided, Go, askVars, txVars, EndsOnce, NotYet, Answering
  <2>3. SecondChoice'
    BY <1>2 DEF ResolveFee, FeeDecided, FeeAccountExists, HasSellSide, Go, TypeOK, SecondChoice
  <2>4. SimulatedTrue' /\ Guarded'
    BY <1>2
       DEF ResolveFee, FeeDecided, Go, askVars, txVars, EndsOnce, NotYet, SimulatedTrue, Guarded,
           Returned, NotRun
  <2> QED BY <2>1, <2>2, <2>3, <2>4
<1> QED BY <1>1, <1>2

(* A provider call leaves the budget within a tick of its end.             *)
LEMMA SpendTyped == TypeOK /\ left >= -1 /\ Spend => left' \in -1..Budget
  BY TimesAssumption DEF TypeOK, Spend, Lesser

LEMMA AskIInv == IInv /\ (Ask \/ Retry \/ EnoughAnswers) => IInv'
<1> SUFFICES ASSUME IInv, Ask \/ Retry \/ EnoughAnswers PROVE IInv'
  OBVIOUS
<1> USE DEF IInv
<1>1. /\ UNCHANGED <<feeVars, quote, txVars>>
      /\ pc \in {"ask", "more"} /\ pc' \in {"more", "choose", "ended"}
      /\ outcome' \in Refusals \union {"none"} /\ (pc' = "ended" <=> outcome' # "none")
      /\ retryFailed' \in BOOLEAN
  BY DEF Ask, Answered, Retry, EnoughAnswers, Go, Throw, feeVars, askVars, txVars, TypeOK,
         EndsOnce, Refusals
<1>2. left' \in -1..Budget
  BY SpendTyped DEF Ask, Answered, Retry, EnoughAnswers, askVars, TypeOK
<1>3. answers' \in Seq(Answers) /\ Len(answers') <= MaxAnswers
  <2>1. CASE UNCHANGED answers
    BY <2>1 DEF TypeOK
  <2>2. CASE \E a \in Answers : answers' = Append(answers, a)
    <3>1. Len(answers) < MaxAnswers
      BY <2>2, CountAssumption DEF Ask, Retry, MayRetry, EnoughAnswers, askVars, TypeOK, NotYet
    <3> QED BY <2>2, <3>1, CountAssumption DEF TypeOK
  <2> QED BY <2>1, <2>2 DEF Ask, Answered, Retry, EnoughAnswers, askVars
<1>4. pc' # "ended" => answers' # <<>>
  BY DEF Ask, Answered, Retry, EnoughAnswers, askVars, TypeOK, NotYet, Answering, Throw
<1>5. TypeOK'
  BY <1>1, <1>2, <1>3 DEF TypeOK, feeVars, txVars
<1>6. EndsOnce' /\ Answering' /\ SecondChoice'
  BY <1>1, <1>4 DEF EndsOnce, Answering, SecondChoice
<1>7. NotYet' /\ SimulatedTrue' /\ Guarded'
  BY <1>1
     DEF txVars, EndsOnce, NotYet, SimulatedTrue, Guarded, Returned, NotRun, Refusals
<1> QED BY <1>5, <1>6, <1>7

LEMMA ChooseIInv == IInv /\ Choose => IInv'
<1> SUFFICES ASSUME IInv, Choose PROVE IInv'
  OBVIOUS
<1> USE DEF IInv
<1>1. /\ UNCHANGED <<feeVars, txVars>>
      /\ pc = "choose" /\ pc' \in {"cleanup", "ended"}
      /\ outcome' \in Refusals \union {"none"} /\ (pc' = "ended" <=> outcome' # "none")
      /\ left' = 0 /\ retryFailed' = FALSE /\ quote' \in Quotes
  BY DEF Choose, Go, Throw, TypeOK, EndsOnce, Refusals
<1>2. answers' \in Seq(Answers) /\ Len(answers') <= MaxAnswers
  <2>1. CASE Valid = {}
    BY <2>1 DEF Choose, TypeOK
  <2>2. CASE Valid # {}
    <3>1. Chosen \in DOMAIN answers
      BY <2>2, ChosenIsBest DEF TypeOK, Valid
    <3>2. answers[Chosen] \in Answers
      BY <3>1 DEF TypeOK
    <3>3. answers' = <<answers[Chosen]>>
      BY <2>2 DEF Choose
    <3> HIDE DEF Chosen
    <3> QED BY <3>2, <3>3, CountAssumption
  <2> QED BY <2>1, <2>2
<1>3. TypeOK'
  <2>1. left' \in -1..Budget
    BY <1>1, TimesAssumption
  <2> QED BY <1>1, <1>2, <2>1 DEF TypeOK, feeVars, txVars
<1>4. EndsOnce' /\ NotYet' /\ Answering' /\ SecondChoice'
  BY <1>1 DEF EndsOnce, NotYet, Answering, SecondChoice, txVars
<1>5. SimulatedTrue' /\ Guarded'
  BY <1>1 DEF txVars, NotYet, SimulatedTrue, Guarded, Returned, NotRun, Refusals
<1> QED BY <1>3, <1>4, <1>5

LEMMA CleanupIInv == IInv /\ IntermediateAccountCleanup => IInv'
  BY DEF IInv, IntermediateAccountCleanup, Go, feeVars, askVars, TypeOK, EndsOnce, NotYet,
         Answering, SecondChoice, SimulatedTrue, Guarded, Returned, NotRun

LEMMA ReadIInv == IInv /\ ReadTakerAccounts => IInv'
<1> SUFFICES ASSUME IInv, ReadTakerAccounts PROVE IInv'
  OBVIOUS
<1> USE DEF IInv
<1>1. PICK older, newest \in 0..MaxFunds : funds' = <<older, newest>>
  BY DEF ReadTakerAccounts
<1>2. /\ funds' \in Seq(0..MaxFunds) /\ Len(funds') = 2 /\ DOMAIN funds' = {1, 2}
      /\ Len(funds') <= MaxSlots /\ readAt' \in {1, 2}
  BY <1>1, CountAssumption DEF ReadTakerAccounts
<1>3. TypeOK'
  BY <1>2 DEF ReadTakerAccounts, Go, feeVars, askVars, TypeOK
<1>4. EndsOnce' /\ NotYet' /\ Answering' /\ SecondChoice'
  BY DEF ReadTakerAccounts, Go, feeVars, askVars, EndsOnce, NotYet, Answering, SecondChoice
<1>5. SimulatedTrue' /\ Guarded'
  BY <1>2 DEF ReadTakerAccounts, Go, EndsOnce, NotYet, NotRun, SimulatedTrue, Guarded, Returned
<1> QED BY <1>3, <1>4, <1>5

(* A simulation that succeeds ran on a slot no older than the read's, and  *)
(* what it says of the funds is true there.                                *)
LEMMA SimulationTrue ==
  ASSUME TypeOK, readAt \in DOMAIN funds, NEW with \in BOOLEAN, Simulation(with)
  PROVE  /\ simulated' \in [with : BOOLEAN, ok : BOOLEAN, before : 0..MaxFunds, after : 0..MaxFunds]
         /\ simulated'.with = with
         /\ simulated'.ok =>
              /\ ~(with /\ quote.residue)
              /\ simulated'.before = funds[readAt]
              /\ \E s \in readAt..Len(funds) : simulated'.after = funds[s] - quote.takes
<1>1. CASE simulated' = [NotRun EXCEPT !.with = with]
  <2>1. simulated' = [with |-> with, ok |-> FALSE, before |-> 0, after |-> 0]
    BY <1>1 DEF NotRun
  <2>2. 0 \in 0..MaxFunds
    BY CountAssumption
  <2> QED BY <2>1, <2>2
<1>2. CASE \E s \in NodeSlots :
             /\ CanSucceed(with, s)
             /\ simulated' = [with |-> with, ok |-> TRUE,
                             before |-> funds[readAt], after |-> funds[s] - quote.takes]
  <2>1. PICK s \in NodeSlots :
          /\ CanSucceed(with, s)
          /\ simulated' = [with |-> with, ok |-> TRUE,
                          before |-> funds[readAt], after |-> funds[s] - quote.takes]
    BY <1>2
  <2>2. s \in DOMAIN funds /\ s \in readAt..Len(funds)
    BY <2>1 DEF NodeSlots, CanSucceed, RecentEnough, TypeOK
  <2>3. funds[s] \in 0..MaxFunds /\ funds[readAt] \in 0..MaxFunds
    <3>1. funds \in Seq(0..MaxFunds)
      BY DEF TypeOK
    <3>2. s \in 1..Len(funds) /\ readAt \in 1..Len(funds)
      BY <2>2, <3>1
    <3> QED BY <3>1, <3>2, ElementOfSeq
  <2>4. quote.takes \in Nat /\ funds[s] >= quote.takes /\ ~(with /\ quote.residue)
    BY <2>1, FundsAssumption DEF CanSucceed, TypeOK, Quotes
  <2>5. funds[s] - quote.takes \in 0..MaxFunds
    BY <2>3, <2>4, CountAssumption
  <2> QED BY <2>1, <2>2, <2>3, <2>4, <2>5
<1> QED BY <1>1, <1>2 DEF Simulation

LEMMA SimulateIInv == IInv /\ (Simulate \/ SimulateAgain) => IInv'
<1> SUFFICES ASSUME IInv, Simulate \/ SimulateAgain PROVE IInv'
  OBVIOUS
<1> USE DEF IInv
<1>1. /\ UNCHANGED <<feeVars, askVars, funds, readAt, shown, outcome>>
      /\ pc \in {"simulate", "again"} /\ pc' \in {"again", "check"}
      /\ Simulation(cleanup') /\ cleanup' \in BOOLEAN
      /\ pc' = "again" => ~simulated'.ok
  BY DEF Simulate, SimulateAgain, Go, TypeOK
<1>2. readAt \in DOMAIN funds
  BY <1>1 DEF SimulatedTrue
<1>3. /\ simulated' \in [with : BOOLEAN, ok : BOOLEAN, before : 0..MaxFunds, after : 0..MaxFunds]
      /\ simulated'.with = cleanup'
      /\ simulated'.ok =>
           /\ ~(cleanup' /\ quote.residue)
           /\ simulated'.before = funds[readAt]
           /\ \E s \in readAt..Len(funds) : simulated'.after = funds[s] - quote.takes
  BY <1>1, <1>2, SimulationTrue
<1>4. TypeOK'
  BY <1>1, <1>3 DEF TypeOK, feeVars, askVars
<1>5. EndsOnce' /\ NotYet' /\ Answering' /\ SecondChoice' /\ Guarded'
  BY <1>1 DEF feeVars, askVars, EndsOnce, NotYet, Answering, SecondChoice, Guarded, Returned
<1>6. SimulatedTrue'
  BY <1>1, <1>2, <1>3 DEF askVars, SimulatedTrue
<1> QED BY <1>4, <1>5, <1>6

LEMMA CheckIInv == IInv /\ Check => IInv'
<1> SUFFICES ASSUME IInv, Check PROVE IInv'
  OBVIOUS
<1> USE DEF IInv
<1>1. /\ UNCHANGED <<feeVars, askVars, cleanup, funds, readAt, simulated>>
      /\ pc = "check" /\ pc' = "ended"
      /\ outcome' \in Refusals \union {"returned"}
  BY DEF Check, Throw, Return, Refusals
<1>2. shown' \in [fee : Nat, deducted : Nat]
  <2>1. CASE UNCHANGED shown
    BY <2>1 DEF TypeOK
  <2>2. CASE shown' # shown
    <3>1. PICK gross \in Grosses :
            shown' = [fee      |-> EstimateFeeAmount(fee, gross, gross - Deducted(gross)),
                      deducted |-> Deducted(gross)]
      BY <2>2 DEF Check, Return
    <3>2. gross \in Nat
      BY FeeAssumption
    <3> QED BY <3>1, <3>2, EstimateTyped, DeductedBounded
  <2> QED BY <2>1, <2>2
<1>3. TypeOK'
  BY <1>1, <1>2 DEF TypeOK, feeVars, askVars
<1>4. EndsOnce' /\ NotYet' /\ Answering' /\ SecondChoice'
  BY <1>1 DEF feeVars, askVars, EndsOnce, NotYet, Answering, SecondChoice, Refusals
<1>5. SimulatedTrue'
  BY <1>1 DEF askVars, SimulatedTrue
<1>6. Guarded'
  <2>1. outcome' = "returned" =>
          simulated.ok /\ simulated.before - simulated.after <= Allowed
    BY DEF Check, Throw, Return
  <2> QED BY <1>1, <2>1 DEF SimulatedTrue, Guarded, Returned
<1> QED BY <1>3, <1>4, <1>5, <1>6

LEMMA DoneIInv == IInv /\ Done => IInv'
<1> SUFFICES ASSUME IInv, Done PROVE IInv'
  OBVIOUS
<1>1. Init'
  BY DEF Done, Init
<1>2. Init' => IInv'
  BY InitIInv, PTL
<1> QED BY <1>1, <1>2

(* What happens on the chain meanwhile.                                    *)
LEMMA ChainIInv == IInv /\ ((\E side \in Sides : FeeAccountMade(side)) \/ TransactionLands) => IInv'
<1> SUFFICES ASSUME IInv, (\E side \in Sides : FeeAccountMade(side)) \/ TransactionLands PROVE IInv'
  OBVIOUS
<1> USE DEF IInv
<1>1. CASE \E side \in Sides : FeeAccountMade(side)
  BY <1>1
     DEF FeeAccountMade, askVars, txVars, TypeOK, EndsOnce, NotYet, Answering, SecondChoice,
         SimulatedTrue, Guarded, Returned
<1>2. CASE TransactionLands
  <2>1. PICK f \in 0..MaxFunds : funds' = Append(funds, f)
    BY <1>2 DEF TransactionLands
  <2>2. /\ UNCHANGED <<pc, outcome, feeVars, askVars, cleanup, readAt, simulated, shown>>
        /\ pc \in {"simulate", "again"} /\ Len(funds) < MaxSlots
    BY <1>2 DEF TransactionLands
  <2>3. /\ funds' \in Seq(0..MaxFunds) /\ Len(funds') = Len(funds) + 1
        /\ DOMAIN funds \subseteq DOMAIN funds'
    BY <2>1 DEF TypeOK
  <2>4. TypeOK'
    <3>1. Len(funds') <= MaxSlots /\ readAt' \in 0..Len(funds')
      BY <2>2, <2>3, CountAssumption DEF TypeOK
    <3> QED BY <2>2, <2>3, <3>1 DEF TypeOK, feeVars, askVars
  <2>5. EndsOnce' /\ NotYet' /\ Answering' /\ SecondChoice' /\ Guarded'
    BY <2>2 DEF feeVars, askVars, EndsOnce, NotYet, Answering, SecondChoice, Guarded, Returned
  <2>6. ~simulated.ok
    BY <2>2 DEF NotYet, NotRun, SimulatedTrue
  <2>7. SimulatedTrue'
    <3>1. readAt' \in DOMAIN funds'
      BY <2>2, <2>3 DEF SimulatedTrue
    <3> QED BY <2>2, <2>6, <3>1 DEF SimulatedTrue
  <2> QED BY <2>4, <2>5, <2>7
<1> QED BY <1>1, <1>2

LEMMA ThrowIInv == IInv /\ ReadThrows => IInv'
  BY DEF IInv, ReadThrows, Throw, feeVars, askVars, txVars, TypeOK, Refusals, EndsOnce,
         NotYet, NotRun, Answering, SecondChoice, SimulatedTrue, Guarded, Returned

LEMMA StutterIInv == IInv /\ UNCHANGED vars => IInv'
  BY DEF IInv, vars, feeVars, askVars, txVars, TypeOK, EndsOnce, NotYet, Answering,
         SecondChoice, SimulatedTrue, Guarded, Returned

LEMMA NextIInv == IInv /\ [Next]_vars => IInv'
  BY StartIInv, FeeIInv, AskIInv, ChooseIInv, CleanupIInv, ReadIInv, SimulateIInv, CheckIInv,
     DoneIInv, ChainIInv, ThrowIInv, StutterIInv DEF Next, BuildStep
-----------------------------------------------------------------------------
(* Every variable of a build keeps its type: the budget never runs below a *)
(* tick past its end, and no provider is asked more often than it may be.  *)
THEOREM TypeCorrect == Spec => []TypeOK
<1>1. IInv => TypeOK
  BY DEF IInv
<1> QED BY <1>1, InitIInv, NextIInv, PTL DEF Spec

(* What is returned to be signed is what was simulated last, its closing   *)
(* of accounts included, and it succeeded (compileUnsigned, build).        *)
THEOREM SignedAsSimulated == Spec => []ReturnedAsSimulated
<1>1. IInv => ReturnedAsSimulated
  BY DEF IInv, Guarded, SimulatedTrue, ReturnedAsSimulated
<1> QED BY <1>1, InitIInv, NextIInv, PTL DEF Spec

(* The guard on the taker's funds sees every excess, for any effect of the *)
(* instructions and any number of slots between the read and the           *)
(* simulation, as long as no other transaction of the taker's lands there  *)
(* (readTakerAccounts, assertBalances).                                    *)
THEOREM ExcessCaught == Spec => []GuardCatchesExcess
<1>1. IInv => GuardCatchesExcess
  <2> SUFFICES ASSUME IInv, Returned, \A s \in readAt..Len(funds) : funds[s] = funds[readAt]
               PROVE  quote.takes <= Allowed
    BY DEF GuardCatchesExcess
  <2>1. PICK s \in readAt..Len(funds) : simulated.after = funds[s] - quote.takes
    BY DEF IInv, Guarded, SimulatedTrue
  <2>2. simulated.before - simulated.after <= Allowed /\ simulated.before = funds[s]
    BY <2>1 DEF IInv, Guarded, SimulatedTrue
  <2>3. quote.takes \in Nat /\ simulated.before \in Nat /\ Allowed \in Nat
    <3>1. quote \in Quotes /\ simulated.before \in 0..MaxFunds
      BY DEF IInv, TypeOK
    <3>2. quote.takes \in Effects
      BY <3>1 DEF Quotes
    <3>3. simulated.before \in Nat
      BY <3>1, CountAssumption
    <3> QED BY <3>2, <3>3, FundsAssumption
  <2> QED BY <2>1, <2>2, <2>3
<1> QED BY <1>1, InitIInv, NextIInv, PTL DEF Spec

(* The fee shown is the fee deducted, or one base unit less on the output  *)
(* side, for every amount and every fee of at most a half (feeConfig sets  *)
(* no bound on SWAP_FEE_BPS: above a half the estimate can be lower still).*)
THEOREM FeeShownExact ==
  ASSUME 2 * Ppm <= Million
  PROVE  Spec => []ShownFeeExact
<1>1. IInv /\ ShownFeeExact /\ [Next]_vars => ShownFeeExact'
  <2> SUFFICES ASSUME IInv, ShownFeeExact, [Next]_vars PROVE ShownFeeExact'
    OBVIOUS
  <2>1. CASE shown' = NoFee
    BY <2>1 DEF NoFee, ShownFeeExact
  <2>2. CASE shown' # NoFee /\ UNCHANGED shown
    <3>1. UNCHANGED fee
      BY <2>2
         DEF IInv, NotYet, Next, BuildStep, Start, AssertRoutable, ResolveFee, Ask, Retry,
             EnoughAnswers, Choose, IntermediateAccountCleanup, ReadTakerAccounts, Simulate,
             SimulateAgain, Check, Done, FeeAccountMade, TransactionLands, ReadThrows, vars, feeVars
    <3> QED BY <2>2, <3>1 DEF ShownFeeExact
  <2>3. CASE shown' # NoFee /\ shown' # shown
    <3>1. Check /\ fee' = fee
      BY <2>3
         DEF Next, BuildStep, Start, AssertRoutable, ResolveFee, Ask, Retry, EnoughAnswers,
             Choose, IntermediateAccountCleanup, ReadTakerAccounts, Simulate, SimulateAgain,
             Check, Done, FeeAccountMade, TransactionLands, ReadThrows, vars, feeVars, txVars
    <3>2. fee \in Sides /\ \E gross \in Grosses :
            shown' = [fee      |-> EstimateFeeAmount(fee, gross, gross - Deducted(gross)),
                      deducted |-> Deducted(gross)]
      BY <2>3, <3>1 DEF Check, Return, IInv, TypeOK
    <3>3. PICK gross \in Nat :
            shown' = [fee      |-> EstimateFeeAmount(fee, gross, gross - Deducted(gross)),
                      deducted |-> Deducted(gross)]
      BY <3>2, FeeAssumption
    <3>4. Deducted(gross) - EstimateFeeAmount(fee, gross, gross - Deducted(gross))
            \in (IF fee = "buy" THEN {0, 1} ELSE {0})
      BY <3>2, EstimateExact
    <3> QED BY <3>1, <3>3, <3>4 DEF ShownFeeExact
  <2> QED BY <2>1, <2>2, <2>3
<1>2. Init => ShownFeeExact
  BY DEF Init, NoFee, ShownFeeExact
<1> QED BY <1>1, <1>2, InitIInv, NextIInv, PTL DEF Spec

(* The fee's side comes first where its account stands from the start,     *)
(* whatever accounts are made while the build looks (resolveFee).          *)
THEOREM FeeSideFirst == Spec => FeeSideRight
<1> DEFINE Right ==
      pc # "ask" /\ pc' = "ask" /\ feeOn =>
        /\ fee' # "buy" => "buy" \notin feeAtStart /\ (provider = "0x" => native # "buy")
        /\ fee' = "none" /\ provider = "0x" => "sell" \notin feeAtStart /\ native # "sell"
        /\ fee' = "sell" => provider = "0x"
<1>1. ASSUME IInv, [Next]_vars PROVE [Right]_vars
  <2> SUFFICES ASSUME Next, pc # "ask", pc' = "ask", feeOn PROVE Right
    BY <1>1
  <2>1. ResolveFee
    BY DEF Next, BuildStep, Start, AssertRoutable, Ask, Retry, EnoughAnswers, Choose,
           IntermediateAccountCleanup, ReadTakerAccounts, Simulate, SimulateAgain, Check, Done,
           FeeAccountMade, TransactionLands, ReadThrows, Go, Throw, Return
  <2>2. feeAtStart \subseteq feeAccounts /\ provider \in Providers /\ fee = "none"
    BY <1>1, <2>1 DEF IInv, TypeOK, NotYet, ResolveFee
  <2>3. CASE pc = "feeBuy"
    BY <2>1, <2>2, <2>3 DEF ResolveFee, FeeDecided, FeeAccountExists, HasSellSide, Go
  <2>4. CASE pc = "feeSell"
    BY <1>1, <2>1, <2>2, <2>4
       DEF ResolveFee, FeeDecided, FeeAccountExists, HasSellSide, Go, IInv, SecondChoice
  <2> QED BY <2>1, <2>3, <2>4 DEF ResolveFee
<1>2. IInv /\ [Next]_vars => [Right]_vars
  BY <1>1
<1> QED BY <1>2, InitIInv, NextIInv, PTL DEF Spec, FeeSideRight

(* However the retries end, a first answer that was good is not lost, and  *)
(* the choice is the best of the answers (requestSwapInstructions).        *)
THEOREM BestAnswerChosen == Spec => RetriesOnlyHelp
<1> DEFINE good(i)     == answers[i].route = "route_v2" /\ Fits(answers[i])
           sendable(i) == IsValid(answers[i]) /\ Fits(answers[i])
           Helps ==
             /\ pc = "more" => outcome' # "provider_error"
             /\ pc = "choose" /\ IsValid(answers[1]) =>
                  /\ IsValid(answers'[1])
                  /\ (\E i \in DOMAIN answers : sendable(i)) => Fits(answers'[1])
                  /\ (\E i \in DOMAIN answers : good(i)) => answers'[1].route = "route_v2"
<1>1. ASSUME IInv, Next PROVE Helps
  <2>1. ASSUME pc = "more" PROVE outcome' # "provider_error"
    <3>1. outcome = "none"
      BY <1>1, <2>1 DEF IInv, EndsOnce
    <3> QED
      BY <1>1, <2>1, <3>1
         DEF Next, BuildStep, Start, AssertRoutable, ResolveFee, Ask, Retry, EnoughAnswers,
             Choose, IntermediateAccountCleanup, ReadTakerAccounts, Simulate, SimulateAgain,
             Check, Done, FeeAccountMade, TransactionLands, ReadThrows, Go
  <2>2. ASSUME pc = "choose", IsValid(answers[1])
        PROVE  /\ IsValid(answers'[1])
               /\ (\E i \in DOMAIN answers : sendable(i)) => Fits(answers'[1])
               /\ (\E i \in DOMAIN answers : good(i)) => answers'[1].route = "route_v2"
    <3>1. Choose
      BY <1>1, <2>2
         DEF Next, BuildStep, Start, AssertRoutable, ResolveFee, Ask, Retry, EnoughAnswers,
             IntermediateAccountCleanup, ReadTakerAccounts, Simulate, SimulateAgain, Check, Done,
             FeeAccountMade, TransactionLands, ReadThrows
    <3>2. 1 \in Valid
      BY <1>1, <2>2 DEF IInv, TypeOK, Answering, Valid
    <3>3. answers' = <<answers[Chosen]>>
      BY <3>1, <3>2 DEF Choose
    <3>4. answers'[1] = answers[Chosen]
      BY <3>3
    <3>5. /\ Chosen \in Valid
          /\ Fitting # {} => Chosen \in Fitting
          /\ Verified # {} => Chosen \in Verified
      BY <1>1, <3>2, ChosenIsBest DEF IInv, TypeOK
    <3>6. (\E i \in DOMAIN answers : sendable(i)) => Fitting # {}
      BY DEF Fitting, Valid
    <3>7. (\E i \in DOMAIN answers : good(i)) => Verified # {}
      BY DEF Verified, Fitting, Valid, IsValid
    <3> HIDE DEF good, sendable
    <3> QED BY <3>4, <3>5, <3>6, <3>7 DEF Valid, Fitting, Verified
  <2> QED BY <2>1, <2>2
<1>2. IInv /\ [Next]_vars => [Helps]_vars
  BY <1>1
<1> QED BY <1>2, InitIInv, NextIInv, PTL DEF Spec, RetriesOnlyHelp
=============================================================================
