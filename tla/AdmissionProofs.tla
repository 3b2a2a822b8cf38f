-------------------------- MODULE AdmissionProofs --------------------------
(***************************************************************************)
(* Who is let in.  What holds of the gate for every document that may be   *)
(* put in the parameter, every set of countries, platforms and requests;   *)
(* and what screening rests on when refreshes do not overlap, for any list *)
(* of addresses, any number of checks and any interleaving and failure.    *)
(***************************************************************************)
EXTENDS PowerupGate, Sanctions, FiniteSetTheorems, TLAPS

(* What a capability and a provider may be open to.                        *)
MayUse(capability, country, chosen) ==
  /\ capability \in Regulated => country \in Countries \ Blocked
  /\ chosen # "none" => country \notin Embargoed
  /\ chosen = "jupiter" => country \notin Prohibited

(* The country and the screening of a request past the decision.           *)
RequestOK(r) ==
  /\ Admitted(r) => MayUse(caller[r].capability, caller[r].country, provider[r])
  /\ pc[r] = "controller" /\ provider[r] = "jupiter" => ~caller[r].valid

IInv ==
  /\ pc \in [Requests -> Places]
  /\ caller \in [Requests -> Callers]
  /\ DOMAIN provider = Requests
  /\ provider = [r \in Requests |-> provider[r]]
  /\ ValidTable(current)
  /\ \A r \in Requests : RequestOK(r)

(* There is a caller to put where there is none.                           *)
LEMMA NoCallerIsOne == NoCaller \in Callers
<1>1. [capability |-> "swap", country |-> Unknown, valid |-> TRUE] \in Callers
  BY SwapAssumption DEF Callers
<1>2. QED BY <1>1 DEF NoCaller

(* A platform without a row of its own has the capability's rows: checking *)
(* those and every override checks every platform.                         *)
LEMMA RowsAreValid ==
  ASSUME NEW table, ValidTable(table), NEW name \in DOMAIN table, NEW platform \in Platforms
  PROVE  ValidRows(name, RowsFor(table[name], platform))
<1>1. CASE platform \in DOMAIN table[name].platforms
  BY <1>1 DEF ValidTable
<1>2. CASE platform \notin DOMAIN table[name].platforms
  <2>1. "__none__" \notin DOMAIN table[name].platforms
    BY PlatformsAssumption DEF ValidTable
  <2>2. RowsFor(table[name], platform) = RowsFor(table[name], "__none__")
    BY <1>2, <2>1 DEF RowsFor
  <2>3. QED BY <2>2 DEF ValidTable
<1>3. QED BY <1>1, <1>2

(* The decision of a valid table, on any platform, for any caller.         *)
LEMMA DecisionIsSafe ==
  ASSUME NEW table, ValidTable(table), NEW platform \in Platforms, NEW c \in Callers,
         Decide(table, platform, c) \notin {"off", "region"}
  PROVE  MayUse(c.capability, c.country, Decide(table, platform, c))
<1> DEFINE rows == RowsFor(table[c.capability], platform)
<1>1. CASE c.capability \notin DOMAIN table
  <2>1. c.capability \notin Regulated
    BY <1>1 DEF ValidTable
  <2>2. Decide(table, platform, c) = "none"
    BY <1>1 DEF Decide
  <2>3. QED BY <2>1, <2>2 DEF MayUse
<1>2. CASE c.capability \in DOMAIN table
  <2>1. ValidRows(c.capability, rows)
    BY <1>2, RowsAreValid
  <2>2. rows.enabled /\ ~Closed(rows, c)
    BY <1>2 DEF Decide
  <2>3. CASE c.country = Unknown
    <3>1. c.capability \notin Regulated
      BY <2>2, <2>3 DEF Closed
    <3>2. c.country \notin Embargoed /\ c.country \notin Prohibited
      BY <2>3, CountriesAssumption
    <3>3. QED BY <3>1, <3>2 DEF MayUse
  <2>4. CASE c.country # Unknown
    <3>1. c.country \in Countries /\ c.country \notin rows.unavailable
      BY <2>2, <2>4 DEF Closed, Callers
    <3>2. c.country \notin Embargoed
      BY <2>1, <2>2, <3>1 DEF ValidRows
    <3>3. c.capability \in Regulated => c.country \notin NotOffered
      BY <2>1, <2>2, <3>1 DEF ValidRows
    <3>4. Decide(table, platform, c) = ProviderFor(rows, c.country)
      BY <1>2, <2>2, <2>4 DEF Decide
    <3>5. ProviderFor(rows, c.country) = "jupiter" => c.country \notin Prohibited
      BY <2>1, <2>2, <3>1 DEF ValidRows, ServedByJupiter
    <3>6. QED BY <3>1, <3>2, <3>3, <3>4, <3>5 DEF MayUse, Blocked
  <2>5. QED BY <2>3, <2>4
<1>3. QED BY <1>1, <1>2

(* The built-in table meets its own rules.                                 *)
LEMMA DefaultIsValid == ValidTable(DEFAULT_TABLE)
<1> DEFINE entry == DEFAULT_TABLE["swap"]
           row   == [default |-> "jupiter", unavailable |-> Blocked,
                     providers |-> <<[name |-> "0x", countries |-> Prohibited \ Blocked]>>]
           full  == [f \in DOMAIN RowDefaults |->
                       IF f \in DOMAIN row THEN row[f] ELSE RowDefaults[f]]
<1>1. DOMAIN DEFAULT_TABLE = {"swap"} /\ entry.row = row /\ entry.platforms = [p \in {"ios"} |-> <<>>]
  BY DEF DEFAULT_TABLE
<1>2. DOMAIN <<>> = {}
  OBVIOUS
<1>3. \A platform : RowsFor(entry, platform) = full
  <2> SUFFICES ASSUME NEW platform PROVE RowsFor(entry, platform) = full
    OBVIOUS
  <2> DEFINE override ==
        IF platform \in DOMAIN entry.platforms THEN entry.platforms[platform] ELSE <<>>
  <2>1. override = <<>>
    BY <1>1
  <2>2. DOMAIN override = {}
    BY <2>1, <1>2
  <2> HIDE DEF override
  <2>3. RowsFor(entry, platform) =
          [f \in DOMAIN RowDefaults |->
             IF f \in DOMAIN override THEN override[f]
             ELSE IF f \in DOMAIN entry.row THEN entry.row[f] ELSE RowDefaults[f]]
    BY DEF RowsFor, override
  <2>4. QED BY <2>2, <2>3, <1>1
<1>4. /\ full.enabled = TRUE /\ full.default = "jupiter" /\ full.unavailable = Blocked
      /\ full.providers = <<[name |-> "0x", countries |-> Prohibited \ Blocked]>>
  BY DEF RowDefaults
<1> HIDE DEF full, row, entry
<1>5. \A name : ValidRows(name, full)
  <2>1. \A country \in Prohibited : ~ServedByJupiter(full, country)
    <3> SUFFICES ASSUME NEW country \in Prohibited, country \notin Blocked
                 PROVE  ProviderFor(full, country) # "jupiter"
      BY <1>4 DEF ServedByJupiter
    <3> DEFINE lists == {i \in DOMAIN full.providers : country \in full.providers[i].countries}
    <3>1. DOMAIN full.providers = {1} /\ full.providers[1] = [name |-> "0x", countries |-> Prohibited \ Blocked]
      BY <1>4
    <3>2. lists = {1}
      BY <3>1
    <3>3. (CHOOSE i \in lists : \A j \in lists : i <= j) = 1
      BY <3>2
    <3>4. QED BY <3>1, <3>2, <3>3 DEF ProviderFor
  <2>2. /\ \A i \in DOMAIN full.providers : full.providers[i].name \in Providers
        /\ full.default \in Providers \union {"none"}
    BY <1>4 DEF Providers
  <2>3. Embargoed \subseteq full.unavailable /\ NotOffered \subseteq full.unavailable
    BY <1>4 DEF Blocked
  <2>4. QED BY <1>4, <2>1, <2>2, <2>3 DEF ValidRows
<1>6. QED
  BY <1>1, <1>3, <1>5, SwapAssumption, PlatformsAssumption DEF ValidTable, entry
-----------------------------------------------------------------------------
(* A request whose place, caller and provider are left alone stays right.  *)
LEMMA OthersStay ==
  ASSUME IInv, NEW r \in Requests,
         pc'[r] = pc[r], caller'[r] = caller[r], provider'[r] = provider[r]
  PROVE  RequestOK(r)'
BY DEF IInv, RequestOK, Admitted, MayUse

(* A request that ends.                                                    *)
LEMMA EndKeeps ==
  ASSUME IInv, NEW r \in Requests, End(r), ValidTable(current)'
  PROVE  IInv'
<1>1. pc' \in [Requests -> Places] /\ caller' \in [Requests -> Callers]
  BY NoCallerIsOne DEF IInv, End, Places
<1>2. DOMAIN provider' = Requests /\ provider' = [q \in Requests |-> provider'[q]]
  BY DEF IInv, End
<1>3. ASSUME NEW q \in Requests PROVE RequestOK(q)'
  <2>1. CASE q = r
    <3>1. pc'[q] = "idle"
      BY <2>1 DEF IInv, End
    <3>2. QED BY <3>1 DEF RequestOK, Admitted
  <2>2. CASE q # r
    <3>1. pc'[q] = pc[q] /\ caller'[q] = caller[q] /\ provider'[q] = provider[q]
      BY <2>2 DEF IInv, End
    <3>2. QED BY <3>1, OthersStay
  <2>3. QED BY <2>1, <2>2
<1>4. QED BY <1>1, <1>2, <1>3 DEF IInv

(* A request that the gate decides on with a valid table.                  *)
LEMMA GateKeeps ==
  ASSUME IInv, NEW r \in Requests, NEW table, ValidTable(table), Gate(r, table),
         ValidTable(current)'
  PROVE  IInv'
<1>1. PICK platform \in Platforms, c \in Callers :
        LET decision == Decide(table, platform, c) IN
          \/ decision \in {"off", "region"} /\ End(r)
          \/ /\ decision \notin {"off", "region"}
             /\ pc' = [pc EXCEPT ![r] =
                         IF decision \in ScreenedBySalmon /\ c.valid THEN "screen" ELSE "controller"]
             /\ caller' = [caller EXCEPT ![r] = c]
             /\ provider' = [provider EXCEPT ![r] = decision]
  BY DEF Gate
<1> DEFINE decision == Decide(table, platform, c)
<1>2. CASE End(r)
  BY <1>2, EndKeeps
<1>3. CASE ~End(r)
  <2>1. /\ decision \notin {"off", "region"}
        /\ pc' = [pc EXCEPT ![r] =
                    IF decision \in ScreenedBySalmon /\ c.valid THEN "screen" ELSE "controller"]
        /\ caller' = [caller EXCEPT ![r] = c]
        /\ provider' = [provider EXCEPT ![r] = decision]
    BY <1>1, <1>3
  <2>2. MayUse(c.capability, c.country, decision)
    BY <2>1, DecisionIsSafe
  <2> HIDE DEF decision
  <2>3. pc' \in [Requests -> Places] /\ caller' \in [Requests -> Callers]
    BY <2>1 DEF IInv, Places
  <2>4. DOMAIN provider' = Requests /\ provider' = [q \in Requests |-> provider'[q]]
    BY <2>1 DEF IInv
  <2>5. ASSUME NEW q \in Requests PROVE RequestOK(q)'
    <3>1. CASE q = r
      <4>1. caller'[q] = c /\ provider'[q] = decision
        BY <2>1, <3>1 DEF IInv
      <4>2. pc'[q] = "controller" => ~(decision = "jupiter" /\ c.valid)
        BY <2>1, <3>1 DEF IInv, ScreenedBySalmon
      <4>3. QED BY <2>2, <4>1, <4>2 DEF RequestOK, MayUse
    <3>2. CASE q # r
      <4>1. pc'[q] = pc[q] /\ caller'[q] = caller[q] /\ provider'[q] = provider[q]
        BY <2>1, <3>2 DEF IInv
      <4>2. QED BY <4>1, OthersStay
    <3>3. QED BY <3>1, <3>2
  <2>6. QED BY <2>3, <2>4, <2>5 DEF IInv
<1>4. QED BY <1>2, <1>3

(* A request that goes on to a place where what was decided of it stands.  *)
LEMMA MoveKeeps ==
  ASSUME IInv, NEW r \in Requests, NEW place \in Places \ {"controller"},
         pc' = [pc EXCEPT ![r] = place], place \in {"screen", "build"} => Admitted(r),
         UNCHANGED <<current, caller, provider>>
  PROVE  IInv'
<1>1. pc' \in [Requests -> Places] /\ caller' \in [Requests -> Callers] /\ ValidTable(current)'
  BY DEF IInv, Places
<1>2. ASSUME NEW q \in Requests PROVE RequestOK(q)'
  <2>1. CASE q = r
    <3>1. pc'[q] = place
      BY <2>1 DEF IInv
    <3>2. QED BY <2>1, <3>1 DEF IInv, RequestOK, Admitted, MayUse
  <2>2. CASE q # r
    <3>1. pc'[q] = pc[q]
      BY <2>2 DEF IInv
    <3>2. QED BY <3>1, OthersStay
  <2>3. QED BY <2>1, <2>2
<1>3. QED BY <1>1, <1>2 DEF IInv

-----------------------------------------------------------------------------
LEMMA InitOK == Init => IInv
<1> SUFFICES ASSUME Init PROVE IInv
  OBVIOUS
<1>1. pc \in [Requests -> Places] /\ caller \in [Requests -> Callers]
  BY NoCallerIsOne DEF Init, Places
<1>2. DOMAIN provider = Requests /\ provider = [r \in Requests |-> provider[r]]
  BY DEF Init
<1>3. ValidTable(current)
  BY DefaultIsValid DEF Init
<1>4. \A r \in Requests : RequestOK(r)
  BY DEF Init, RequestOK, Admitted
<1>5. QED BY <1>1, <1>2, <1>3, <1>4 DEF IInv

(* What is kept when a read fails is valid too.                            *)
LEMMA LastGoodIsValid == IInv => ValidTable(LastGood)
BY DefaultIsValid DEF IInv, LastGood

LEMMA StepOK == IInv /\ [Next]_vars => IInv'
<1> SUFFICES ASSUME IInv, [Next]_vars PROVE IInv'
  OBVIOUS
<1>1. ASSUME NEW r \in Requests, Arrive(r) PROVE IInv'
  <2>1. ValidTable(current) /\ ValidTable(current)' /\ Gate(r, current)
    BY <1>1 DEF Arrive, IInv, tableVars
  <2>2. QED BY <2>1, GateKeeps
<1>2. ASSUME NEW r \in Requests, Fetch(r) PROVE IInv'
  <2>1. /\ pc' = [pc EXCEPT ![r] = "reading"] /\ UNCHANGED <<current, caller, provider>>
        /\ "reading" \in Places \ {"controller"}
    BY <1>2 DEF Fetch, Places
  <2>2. QED BY <2>1, MoveKeeps
<1>3. ASSUME NEW r \in Requests, Read(r) PROVE IInv'
  <2>1. /\ pc' = [pc EXCEPT ![r] = "replied"] /\ UNCHANGED <<current, caller, provider>>
        /\ "replied" \in Places \ {"controller"}
    BY <1>3 DEF Read, Places, tableVars
  <2>2. QED BY <2>1, MoveKeeps
<1>4. ASSUME NEW r \in Requests, ReadFails(r) PROVE IInv'
  <2>1. ValidTable(LastGood) /\ current' = LastGood /\ Gate(r, LastGood)
    BY <1>4, LastGoodIsValid DEF ReadFails
  <2>2. ValidTable(current')
    BY <2>1
  <2>3. QED BY <2>1, <2>2, GateKeeps DEF ValidTable
<1>5. ASSUME NEW r \in Requests, Settle(r) PROVE IInv'
  <2>1. CASE HasProblems(reply[r])
    <3>1. ValidTable(LastGood) /\ current' = LastGood /\ Gate(r, LastGood)
      BY <1>5, <2>1, LastGoodIsValid DEF Settle
    <3>2. ValidTable(current')
      BY <3>1
    <3>3. QED BY <3>1, <3>2, GateKeeps DEF ValidTable
  <2>2. CASE ~HasProblems(reply[r])
    <3>1. ValidTable(reply[r]) /\ current' = reply[r] /\ Gate(r, reply[r])
      BY <1>5, <2>2 DEF Settle, HasProblems
    <3>2. ValidTable(current')
      BY <3>1
    <3>3. QED BY <3>1, <3>2, GateKeeps DEF ValidTable
  <2>3. QED BY <2>1, <2>2
<1>6. ASSUME NEW r \in Requests, Screen(r) PROVE IInv'
  <2>1. CASE End(r)
    BY <1>6, <2>1, EndKeeps DEF Screen, IInv, tableVars
  <2>2. CASE ~End(r)
    <3>1. /\ pc' = [pc EXCEPT ![r] = "build"] /\ UNCHANGED <<current, caller, provider>>
          /\ "build" \in Places \ {"controller"} /\ Admitted(r)
      BY <1>6, <2>2 DEF Screen, Places, Admitted, tableVars
    <3>2. QED BY <3>1, MoveKeeps
  <2>3. QED BY <2>1, <2>2
<1>7. ASSUME NEW r \in Requests, Controller(r) PROVE IInv'
  <2>1. CASE End(r)
    BY <1>7, <2>1, EndKeeps DEF Controller, IInv, tableVars
  <2>2. CASE ~End(r)
    <3>1. /\ pc' = [pc EXCEPT ![r] = "build"] /\ UNCHANGED <<current, caller, provider>>
          /\ "build" \in Places \ {"controller"} /\ Admitted(r)
      BY <1>7, <2>2 DEF Controller, Places, Admitted, tableVars
    <3>2. QED BY <3>1, MoveKeeps
  <2>3. QED BY <2>1, <2>2
<1>8. ASSUME NEW r \in Requests, Built(r) PROVE IInv'
  BY <1>8, EndKeeps DEF Built, IInv, tableVars
<1>9. CASE Restart
  <2>1. pc' \in [Requests -> Places] /\ caller' \in [Requests -> Callers]
    BY <1>9, NoCallerIsOne DEF Restart, Places
  <2>2. DOMAIN provider' = Requests /\ provider' = [r \in Requests |-> provider'[r]]
    BY <1>9 DEF Restart
  <2>3. ValidTable(current')
    BY <1>9, DefaultIsValid DEF Restart
  <2>4. \A r \in Requests : RequestOK(r)'
    BY <1>9 DEF Restart, RequestOK, Admitted
  <2>5. QED BY <2>1, <2>2, <2>3, <2>4 DEF IInv, ValidTable
<1>10. CASE Edit \/ Tick \/ UNCHANGED vars
  <2>1. UNCHANGED <<current, pc, caller, provider>>
    BY <1>10 DEF Edit, Tick, vars, tableVars, requestVars
  <2>2. QED BY <2>1 DEF IInv, RequestOK, Admitted, MayUse
<1>11. QED
  BY <1>1, <1>2, <1>3, <1>4, <1>5, <1>6, <1>7, <1>8, <1>9, <1>10 DEF Next, Step

(* Whatever is put in the parameter and whichever reads fail, nobody is    *)
(* let into a capability his country is blocked from, and Jupiter is never *)
(* chosen for one of its prohibited countries (validateTable, decide).     *)
THEOREM BlockedForEveryDocument == Spec => []BlockedStaysBlocked
<1>1. IInv => BlockedStaysBlocked
  BY DEF IInv, RequestOK, MayUse, BlockedStaysBlocked
<1>2. QED BY <1>1, InitOK, StepOK, PTL DEF Spec

(* No build with Jupiter starts but from a screening that cleared the      *)
(* wallet: what the gate leaves unscreened has no valid address, and the   *)
(* controller refuses it (powerupGate, build).                             *)
THEOREM EveryJupiterBuildScreened == Spec => JupiterOnlyScreened
<1> DEFINE Cleared ==
      \A r \in Requests :
        pc[r] # "build" /\ pc'[r] = "build" /\ provider[r] = "jupiter" => pc[r] = "screen"
<1>1. ASSUME IInv, Next PROVE Cleared
  <2> SUFFICES ASSUME NEW r \in Requests, pc[r] # "build", pc'[r] = "build",
                      provider[r] = "jupiter", pc[r] # "screen"
               PROVE  FALSE
    OBVIOUS
  <2>1. PICK q \in Requests : Step(q)
    <3>1. CASE Restart
      BY <3>1 DEF Restart
    <3>2. CASE Edit \/ Tick
      BY <3>2 DEF Edit, Tick, requestVars
    <3>3. QED BY <1>1, <3>1, <3>2 DEF Next
  <2>2. q = r
    BY <1>1, <2>1 DEF Step, Arrive, Fetch, Read, ReadFails, Settle, Screen, Controller, Built,
                      Gate, End, IInv
  <2>3. Controller(r)
    BY <1>1, <2>1, <2>2 DEF Step, Arrive, Fetch, Read, ReadFails, Settle, Screen, Built,
                            Gate, End, IInv
  <2>4. caller[r].valid /\ pc[r] = "controller"
    BY <1>1, <2>3 DEF Controller, End, IInv
  <2>5. QED BY <1>1, <2>4 DEF IInv, RequestOK
<1>2. IInv /\ [Next]_vars => [Cleared]_vars
  BY <1>1
<1>3. QED BY <1>2, InitOK, StepOK, PTL DEF Spec, JupiterOnlyScreened
-----------------------------------------------------------------------------
(* How the table is kept up.  The ages, and where the requests are.        *)
Typed ==
  /\ parameter \in Docs
  /\ sinceEdit \in 0..Ttl /\ sinceFetch \in 0..Ttl /\ sinceGood \in 0..Oldest
  /\ pc \in [Requests -> Places]
  /\ reply \in [Requests -> Docs \union {DEFAULT_TABLE}]

NoneReading == \A r \in Requests : ~Reading(r)

(* A read that ended left no table past the ceiling, and since then the    *)
(* table has aged no faster than the read.                                 *)
AgesTogether ==
  NoneReading /\ sinceFetch < Ttl /\ current # DEFAULT_TABLE => sinceGood <= MaxStale + sinceFetch

(* What a lone read was answered is what the parameter holds, if that was  *)
(* put before the read began.                                              *)
ReplyFresh ==
  ~overlapped /\ sinceEdit > sinceFetch =>
    \A r \in Requests : pc[r] = "replied" => reply[r] = parameter

(* And it is what is served once that read has ended.                      *)
ServedFresh ==
  ~overlapped /\ ~failed /\ NoneReading /\ sinceEdit > sinceFetch => current = parameter

KeptUp == Typed /\ AgesTogether /\ ReplyFresh /\ ServedFresh

(* What the gate does to a request: it is past its read, or at rest.       *)
LEMMA GateMoves ==
  ASSUME Typed, NEW r \in Requests, NEW table, Gate(r, table)
  PROVE  /\ pc' \in [Requests -> Places] /\ reply' \in [Requests -> Docs \union {DEFAULT_TABLE}]
         /\ pc'[r] \in {"idle", "screen", "controller"}
         /\ \A q \in Requests \ {r} : pc'[q] = pc[q] /\ reply'[q] = reply[q]
<1>1. PICK place \in {"idle", "screen", "controller"} :
        pc' = [pc EXCEPT ![r] = place] /\ reply' = [reply EXCEPT ![r] = DEFAULT_TABLE]
  BY DEF Gate, End
<1> QED BY <1>1 DEF Typed, Places

(* The table kept when a read fails is the default, or within the ceiling. *)
LEMMA LastGoodWithin ==
  Typed /\ LastGood # DEFAULT_TABLE => LastGood = current /\ sinceGood <= MaxStale
BY TimesAssumption DEF Typed, LastGood, Oldest

LEMMA InitKeptUp == Init => KeptUp
BY TimesAssumption
   DEF Init, KeptUp, Typed, Places, Oldest, AgesTogether, ReplyFresh, ServedFresh

(* A request that does not end a read leaves what is kept up alone.        *)
LEMMA QuietKeepsUp ==
  ASSUME KeptUp, NEW r \in Requests, UNCHANGED <<parameter, sinceEdit, tableVars, historyVars>>,
         pc' \in [Requests -> Places], reply' \in [Requests -> Docs \union {DEFAULT_TABLE}],
         ~Reading(r), ~Reading(r)',
         \A q \in Requests \ {r} : pc'[q] = pc[q] /\ reply'[q] = reply[q]
  PROVE  KeptUp'
<1>1. NoneReading' <=> NoneReading
  BY DEF NoneReading, Reading
<1>2. \A q \in Requests : pc'[q] = "replied" => pc[q] = "replied" /\ reply'[q] = reply[q]
  BY DEF Reading
<1> QED
  BY <1>1, <1>2
     DEF KeptUp, Typed, tableVars, historyVars, AgesTogether, ReplyFresh, ServedFresh

(* A read begins.                                                          *)
LEMMA FetchKeepsUp ==
  ASSUME KeptUp, NEW r \in Requests, Fetch(r)
  PROVE  KeptUp'
<1>1. Typed'
  BY TimesAssumption DEF Fetch, KeptUp, Typed, Places
<1>2. ~NoneReading'
  BY DEF Fetch, KeptUp, Typed, NoneReading, Reading
<1>3. ReplyFresh'
  <2> SUFFICES ASSUME ~overlapped', NEW q \in Requests, pc'[q] = "replied" PROVE FALSE
    BY DEF ReplyFresh
  <2>1. pc[q] = "replied"
    BY DEF Fetch, KeptUp, Typed
  <2> QED BY <2>1 DEF Fetch, Reading
<1> QED BY <1>1, <1>2, <1>3 DEF KeptUp, AgesTogether, ServedFresh

(* SSM reads the parameter.                                                *)
LEMMA ReadKeepsUp ==
  ASSUME KeptUp, NEW r \in Requests, Read(r)
  PROVE  KeptUp'
<1>1. Typed'
  BY DEF Read, KeptUp, Typed, Places, tableVars
<1>2. ~NoneReading'
  BY DEF Read, KeptUp, Typed, NoneReading, Reading
<1>3. ReplyFresh'
  <2> SUFFICES ASSUME ~overlapped', sinceEdit' > sinceFetch', NEW q \in Requests, pc'[q] = "replied"
               PROVE  reply'[q] = parameter'
    BY DEF ReplyFresh
  <2>1. CASE q = r
    BY <2>1 DEF Read, KeptUp, Typed
  <2>2. CASE q # r
    BY <2>2 DEF Read, KeptUp, Typed, ReplyFresh, tableVars, historyVars
  <2> QED BY <2>1, <2>2
<1> QED BY <1>1, <1>2, <1>3 DEF KeptUp, AgesTogether, ServedFresh

(* A read fails, or what it read has problems: the last good table.        *)
LEMMA FailureKeepsUp ==
  ASSUME KeptUp, NEW r \in Requests, current' = LastGood, Gate(r, LastGood), failed' = TRUE,
         UNCHANGED <<parameter, sinceEdit, sinceFetch, sinceGood, overlapped>>
  PROVE  KeptUp'
<1>1. Typed'
  BY GateMoves DEF KeptUp, Typed
<1>2. AgesTogether'
  BY LastGoodWithin, TimesAssumption DEF KeptUp, Typed, AgesTogether
<1>3. ReplyFresh'
  BY GateMoves DEF KeptUp, ReplyFresh
<1> QED BY <1>1, <1>2, <1>3 DEF KeptUp, ServedFresh

(* A read succeeds.                                                        *)
LEMMA GoodReadKeepsUp ==
  ASSUME KeptUp, NEW r \in Requests, pc[r] = "replied", current' = reply[r], sinceGood' = 0,
         Gate(r, reply[r]), failed' = FALSE,
         UNCHANGED <<parameter, sinceEdit, sinceFetch, overlapped>>
  PROVE  KeptUp'
<1>1. Typed'
  BY GateMoves, TimesAssumption DEF KeptUp, Typed, Oldest
<1>2. AgesTogether'
  BY <1>1, TimesAssumption DEF Typed, AgesTogether
<1>3. ReplyFresh'
  BY GateMoves DEF KeptUp, ReplyFresh
<1>4. ServedFresh'
  BY DEF KeptUp, ReplyFresh, ServedFresh
<1> QED BY <1>1, <1>2, <1>3, <1>4 DEF KeptUp

LEMMA TickKeepsUp == KeptUp /\ Tick => KeptUp'
<1> SUFFICES ASSUME KeptUp, Tick PROVE KeptUp'
  OBVIOUS
<1>1. Typed'
  BY TimesAssumption DEF Tick, KeptUp, Typed, Lesser, Oldest, requestVars
<1>2. UNCHANGED <<parameter, current, pc, reply, failed, overlapped>> /\ NoneReading' = NoneReading
  BY DEF Tick, requestVars, historyVars, NoneReading, Reading
<1>3. AgesTogether'
  BY <1>2, TimesAssumption DEF Tick, KeptUp, Typed, Lesser, Oldest, AgesTogether
<1>4. sinceEdit' > sinceFetch' => sinceEdit > sinceFetch
  BY TimesAssumption DEF Tick, KeptUp, Typed, Lesser
<1> QED BY <1>1, <1>2, <1>3, <1>4 DEF KeptUp, ReplyFresh, ServedFresh

LEMMA StepKeepsUp == KeptUp /\ [Next]_vars => KeptUp'
<1> SUFFICES ASSUME KeptUp, [Next]_vars PROVE KeptUp'
  OBVIOUS
<1>1. ASSUME NEW r \in Requests, Arrive(r) PROVE KeptUp'
  <2>1. Gate(r, current) /\ ~Reading(r)
    BY <1>1 DEF Arrive, Reading
  <2>2. ~Reading(r)'
    BY <2>1, GateMoves DEF KeptUp, Reading
  <2> QED BY <1>1, <2>1, <2>2, GateMoves, QuietKeepsUp DEF Arrive, KeptUp
<1>2. ASSUME NEW r \in Requests, ReadFails(r) PROVE KeptUp'
  BY <1>2, FailureKeepsUp DEF ReadFails
<1>3. ASSUME NEW r \in Requests, Settle(r) PROVE KeptUp'
  <2>1. CASE HasProblems(reply[r])
    BY <1>3, <2>1, FailureKeepsUp DEF Settle
  <2>2. CASE ~HasProblems(reply[r])
    BY <1>3, <2>2, GoodReadKeepsUp DEF Settle
  <2> QED BY <2>1, <2>2
<1>4. ASSUME NEW r \in Requests, Screen(r) \/ Controller(r) \/ Built(r) PROVE KeptUp'
  <2>1. /\ UNCHANGED <<parameter, sinceEdit, tableVars, historyVars>>
        /\ pc[r] \in {"screen", "controller", "build"}
        /\ \E place \in {"idle", "build"} : pc' = [pc EXCEPT ![r] = place]
        /\ reply' = reply \/ reply' = [reply EXCEPT ![r] = DEFAULT_TABLE]
    BY <1>4 DEF Screen, Controller, Built, End
  <2>2. /\ pc' \in [Requests -> Places] /\ reply' \in [Requests -> Docs \union {DEFAULT_TABLE}]
        /\ ~Reading(r) /\ ~Reading(r)'
        /\ \A q \in Requests \ {r} : pc'[q] = pc[q] /\ reply'[q] = reply[q]
    BY <2>1 DEF KeptUp, Typed, Places, Reading
  <2> QED BY <2>1, <2>2, QuietKeepsUp
<1>5. CASE Edit
  <2>1. Typed' /\ sinceEdit' = 0
    BY <1>5, TimesAssumption DEF Edit, KeptUp, Typed, tableVars, requestVars
  <2>2. ~(sinceEdit' > sinceFetch')
    BY <2>1, TimesAssumption DEF Typed
  <2>3. AgesTogether'
    BY <1>5 DEF Edit, KeptUp, tableVars, requestVars, AgesTogether, NoneReading, Reading
  <2> QED BY <2>1, <2>2, <2>3 DEF KeptUp, ReplyFresh, ServedFresh
<1>6. CASE Restart
  BY <1>6, TimesAssumption
     DEF Restart, KeptUp, Typed, Places, Oldest, AgesTogether, ReplyFresh, ServedFresh
<1>7. CASE UNCHANGED vars
  BY <1>7
     DEF vars, tableVars, requestVars, historyVars, KeptUp, Typed, AgesTogether, ReplyFresh,
         ServedFresh, NoneReading, Reading
<1> QED
  BY <1>1, <1>2, <1>3, <1>4, <1>5, <1>6, <1>7, FetchKeepsUp, ReadKeepsUp, TickKeepsUp DEF Next, Step

(* For every TTL and every ceiling, and however reads fail and overlap: a  *)
(* table that cannot be refreshed stops serving within a TTL of the        *)
(* ceiling, and an edit is served within a TTL when the container's last   *)
(* read was alone and did not fail (createTableLoader, lastGood).          *)
THEOREM TableIsKeptUp == Spec => []TableKeptUp
<1>1. KeptUp => CeilingKept
  <2> SUFFICES ASSUME KeptUp, \A r \in Requests : ~Reading(r), sinceFetch < Ttl,
                      current # DEFAULT_TABLE
               PROVE  sinceGood < MaxStale + Ttl
    BY DEF CeilingKept
  <2>1. sinceGood <= MaxStale + sinceFetch
    BY DEF KeptUp, AgesTogether, NoneReading
  <2> QED BY <2>1, TimesAssumption DEF KeptUp, Typed
<1>2. KeptUp => EditsReach
  BY TimesAssumption DEF KeptUp, ServedFresh, NoneReading, EditsReach
<1>3. KeptUp => TableKeptUp
  BY <1>1, <1>2 DEF TableKeptUp
<1> QED BY <1>3, InitKeptUp, StepKeepsUp, PTL DEF Spec

-----------------------------------------------------------------------------
(* Screening (Sanctions).                                                  *)

(* At most one invocation of the job is under way.                         *)
Solo == \A i, j \in Jobs : job[i] # "idle" /\ job[j] # "idle" => i = j

(* What is in `:next` and what is still to be added make the whole list,   *)
(* which was found not too small for the live one.                         *)
Filling ==
  \A j \in Jobs :
    /\ job[j] = "fill" => next \union todo[j] = list[j]
    /\ job[j] \in {"del", "fill"} => ~TooSmall(list[j])

(* The stamp follows the replacement within the day.                       *)
Stamping == \A j \in Jobs : job[j] = "stamp" => liveAge = 0

Served == {"member", "trmCache", "trm", "saveYes", "saveNo", "cleared"}

(* What the reads a check is past have established, and still holds.       *)
Established ==
  \A r \in Checks :
    /\ check[r] = "age" => live # {}
    /\ check[r] \in Served => live # {} /\ fetchedAge <= MaxAge

(* The history variable tells the truth, and empties as the check reads.   *)
HeldTrue ==
  \A r \in Checks :
    /\ "live" \in held[r] => address[r] \in live
    /\ "blocked" \in held[r] => address[r] \in blocked
    /\ check[r] \in {"exists", "age", "member"} => "blocked" \notin held[r]
    /\ check[r] \in Served \ {"member"} => held[r] = {}

(* The inductive invariant.                                                *)
ListsInv ==
  /\ ListsTyped /\ Solo /\ Filling /\ Stamping
  /\ ReplacedAtomically /\ StampNeverFlatters
  /\ Established /\ HeldTrue

USE DownloadsAssumption, AddressesAssumption, ChunkAssumption, AgeAssumption, OverlapAssumption
USE DEF JobPlaces, CheckPlaces, Outcomes, TooOld, Served, Goes, redisVars, jobVars, checkVars

LEMMA ScreeningStarts == ScreeningInit => ListsInv
  BY DEF ScreeningInit, ListsInv, ListsTyped, Solo, Filling, Stamping, ReplacedAtomically, StampNeverFlatters,
         Established, HeldTrue

(* A step of the job other than the replacement leaves what readers and    *)
(* history see alone.                                                      *)
LEMMA QuietJobStep ==
  ASSUME ListsInv, UNCHANGED <<live, fetchedAge, blocked, trm, checkVars, applied, liveAge, held>>
  PROVE  ReplacedAtomically' /\ StampNeverFlatters' /\ Established' /\ HeldTrue'
  BY DEF ListsInv, ReplacedAtomically, StampNeverFlatters, Established, HeldTrue

LEMMA JobKeeps ==
  ASSUME ~Overlap, ListsInv, NEW j \in Jobs, JobStep(j)
  PROVE  ListsInv'
<1> USE DEF ListsInv
<1>1. CASE Download(j)
  <2>1. ListsTyped' /\ Solo'
    BY <1>1 DEF Download, ListsTyped, Solo
  <2>2. Filling' /\ Stamping'
    BY <1>1 DEF Download, ListsTyped, Filling, Stamping, TooSmall
  <2> QED BY <1>1, <2>1, <2>2, QuietJobStep DEF Download
<1>2. CASE Size(j)
  <2>1. ListsTyped' /\ Solo'
    BY <1>2 DEF Size, JobEnds, ListsTyped, Solo
  <2>2. Filling' /\ Stamping'
    BY <1>2 DEF Size, JobEnds, ListsTyped, Filling, Stamping, TooSmall
  <2> QED BY <1>2, <2>1, <2>2, QuietJobStep DEF Size
<1>3. CASE Del(j)
  <2>1. ListsTyped' /\ Solo'
    BY <1>3 DEF Del, ListsTyped, Solo
  <2>2. Filling' /\ Stamping'
    BY <1>3 DEF Del, ListsTyped, Solo, Filling, Stamping, TooSmall
  <2> QED BY <1>3, <2>1, <2>2, QuietJobStep DEF Del
<1>4. CASE Fill(j)
  <2>1. PICK chunk \in SUBSET todo[j] :
          next' = next \union chunk /\ todo' = [todo EXCEPT ![j] = @ \ chunk]
    BY <1>4 DEF Fill
  <2>2. ListsTyped' /\ Solo'
    BY <1>4, <2>1 DEF Fill, ListsTyped, Solo
  <2>3. Filling' /\ Stamping'
    BY <1>4, <2>1 DEF Fill, ListsTyped, Solo, Filling, Stamping, TooSmall
  <2> QED BY <1>4, <2>2, <2>3, QuietJobStep DEF Fill
<1>5. CASE Rename(j)
  <2>1. ListsTyped' /\ Solo'
    BY <1>5 DEF Rename, ListsTyped, Solo, StillHeld
  <2>2. Filling' /\ Stamping'
    BY <1>5 DEF Rename, ListsTyped, Solo, Filling, Stamping
  <2>3. ReplacedAtomically' /\ StampNeverFlatters'
    <3>1. live' = list[j] /\ applied' = list[j] /\ liveAge' = 0 /\ fetchedAge' = fetchedAge
      BY <1>5 DEF Rename, ListsTyped, Filling
    <3> QED BY <3>1 DEF ListsTyped, ReplacedAtomically, StampNeverFlatters
  <2>4. Established'
    BY <1>5 DEF Rename, Established
  <2>5. HeldTrue'
    BY <1>5 DEF Rename, ListsTyped, StillHeld, HeldTrue
  <2> QED BY <2>1, <2>2, <2>3, <2>4, <2>5
<1>6. CASE SetFetchedAt(j)
  <2>1. ListsTyped' /\ Solo'
    BY <1>6 DEF SetFetchedAt, JobEnds, ListsTyped, Solo
  <2>2. Filling' /\ Stamping'
    BY <1>6 DEF SetFetchedAt, JobEnds, ListsTyped, Filling, Stamping, TooSmall
  <2>3. ReplacedAtomically' /\ Established' /\ HeldTrue'
    BY <1>6 DEF SetFetchedAt, ReplacedAtomically, Established, HeldTrue
  <2>4. StampNeverFlatters'
    BY <1>6 DEF SetFetchedAt, Stamping, StampNeverFlatters
  <2> QED BY <2>1, <2>2, <2>3, <2>4
<1>7. CASE JobFails(j)
  <2>1. ListsTyped' /\ Solo'
    BY <1>7 DEF JobFails, JobEnds, ListsTyped, Solo
  <2>2. Filling' /\ Stamping'
    BY <1>7 DEF JobFails, JobEnds, ListsTyped, Filling, Stamping, TooSmall
  <2> QED BY <1>7, <2>1, <2>2, QuietJobStep DEF JobFails
<1> QED BY <1>1, <1>2, <1>3, <1>4, <1>5, <1>6, <1>7 DEF JobStep

(* What a check does disturbs nothing of the job's.                        *)
LEMMA QuietCheckStep ==
  ASSUME ListsInv, UNCHANGED <<live, next, fetchedAge, jobVars, applied, liveAge>>
  PROVE  Solo' /\ Filling' /\ Stamping' /\ ReplacedAtomically' /\ StampNeverFlatters'
  BY DEF ListsInv, Solo, Filling, Stamping, TooSmall, ReplacedAtomically, StampNeverFlatters

LEMMA CheckKeeps ==
  ASSUME ListsInv, NEW r \in Checks, CheckStep(r)
  PROVE  ListsInv'
<1> USE DEF ListsInv
<1>1. UNCHANGED <<live, next, fetchedAge, blocked, jobVars, applied, liveAge>>
  BY DEF CheckStep, Ask, IsBlockedManually, HasLocalList, GetFetchedAt, IsListedLocally,
         GetTrmVerdict, AskTrm, SaveTrmVerdict, Return
<1>2. ListsTyped'
  BY <1>1 DEF CheckStep, Ask, IsBlockedManually, HasLocalList, GetFetchedAt, IsListedLocally,
         GetTrmVerdict, AskTrm, SaveTrmVerdict, Return, ListsTyped
<1>3. Established'
  BY <1>1 DEF CheckStep, Ask, IsBlockedManually, HasLocalList, GetFetchedAt, IsListedLocally,
         GetTrmVerdict, AskTrm, SaveTrmVerdict, Return, ListsTyped, Established
<1>4. HeldTrue'
  <2>1. CASE Ask(r)
    BY <1>1, <2>1 DEF Ask, ListsTyped, HeldTrue
  <2>2. CASE Return(r)
    BY <1>1, <2>2 DEF Return, ListsTyped, HeldTrue
  <2>3. CASE IsBlockedManually(r) \/ HasLocalList(r) \/ GetFetchedAt(r)
    BY <1>1, <2>3 DEF IsBlockedManually, HasLocalList, GetFetchedAt, ListsTyped, HeldTrue
  <2>4. CASE IsListedLocally(r)
    BY <1>1, <2>4 DEF IsListedLocally, ListsTyped, HeldTrue
  <2>5. CASE GetTrmVerdict(r) \/ AskTrm(r) \/ SaveTrmVerdict(r)
    BY <1>1, <2>5 DEF GetTrmVerdict, AskTrm, SaveTrmVerdict, ListsTyped, HeldTrue
  <2> QED BY <2>1, <2>2, <2>3, <2>4, <2>5 DEF CheckStep
<1> QED BY <1>1, <1>2, <1>3, <1>4, QuietCheckStep

LEMMA BlockKeeps ==
  ASSUME ListsInv, NEW a \in Screened, Block(a)
  PROVE  ListsInv'
<1> USE DEF ListsInv
<1>1. ListsTyped' /\ Established'
  BY DEF Block, ListsTyped, Established
<1>2. HeldTrue'
  BY DEF Block, ListsTyped, HeldTrue
<1> QED BY <1>1, <1>2, QuietCheckStep DEF Block

LEMMA DayKeeps == ListsInv /\ Day => ListsInv'
  BY DEF Day, Older, ListsInv, ListsTyped, Solo, Filling, Stamping, TooSmall, ReplacedAtomically,
         StampNeverFlatters, Established, HeldTrue

LEMMA ScreeningStutters == ListsInv /\ UNCHANGED screeningVars => ListsInv'
  BY DEF screeningVars, ListsInv, ListsTyped, Solo, Filling, Stamping, TooSmall, ReplacedAtomically,
         StampNeverFlatters, Established, HeldTrue

LEMMA ScreeningKeeps ==
  ASSUME ~Overlap PROVE ListsInv /\ [ScreeningNext]_screeningVars => ListsInv'
  BY JobKeeps, CheckKeeps, BlockKeeps, DayKeeps, ScreeningStutters DEF ScreeningNext

LEMMA FreshBehindCleared == ListsInv => ClearedOnFreshList
  BY DEF ListsInv, ListsTyped, Established, StampNeverFlatters, ClearedOnFreshList

(* Refreshes that do not overlap replace the list whole: whoever reads it  *)
(* between two steps of a job sees one download, never a part of one       *)
(* (replaceSet).                                                           *)
THEOREM ListReplacedWhole == ASSUME ~Overlap PROVE ScreeningSpec => []ReplacedAtomically
<1>1. ListsInv => ReplacedAtomically
  BY DEF ListsInv
<1> QED BY <1>1, ScreeningStarts, ScreeningKeeps, PTL DEF ScreeningSpec

(* An address is cleared without TRM only while the list that was read is  *)
(* whole and no older than the limit (getFetchedAt, isListedLocally).      *)
THEOREM ClearedOnlyWhenFresh == ASSUME ~Overlap PROVE ScreeningSpec => []ClearedOnFreshList
  BY FreshBehindCleared, ScreeningStarts, ScreeningKeeps, PTL DEF ScreeningSpec

(* Together with the stamp that never makes the list look younger than it  *)
(* is, no address that is on a list is cleared by it.                      *)
THEOREM ScreeningSound ==
  ASSUME ~Overlap
  PROVE  ScreeningSpec => [](ListsTyped /\ StampNeverFlatters /\ ListedNeverCleared)
<1>1. ListsInv => ListedNeverCleared
  BY DEF ListsInv, HeldTrue, ListedNeverCleared
<1>2. ListsInv => ListsTyped /\ StampNeverFlatters
  BY DEF ListsInv
<1> QED BY <1>1, <1>2, ScreeningStarts, ScreeningKeeps, PTL DEF ScreeningSpec

(* No refresh shrinks the live list below half of what it was.             *)
THEOREM ShrinkGuarded == ASSUME ~Overlap PROVE ScreeningSpec => NoSilentShrink
<1>1. ListsInv /\ [ScreeningNext]_screeningVars
        => [live' # live => 2 * Cardinality(live') >= Cardinality(live)]_screeningVars
  <2> SUFFICES ASSUME ListsInv, ScreeningNext, live' # live
               PROVE  2 * Cardinality(live') >= Cardinality(live)
    OBVIOUS
  <2>1. PICK j \in Jobs : Rename(j)
    BY DEF ScreeningNext, JobStep, CheckStep, Download, Size, Del, Fill, SetFetchedAt, JobFails,
           Ask, IsBlockedManually, HasLocalList, GetFetchedAt, IsListedLocally,
           GetTrmVerdict, AskTrm, SaveTrmVerdict, Return, Block, Day
  <2>2. live' = list[j] /\ ~TooSmall(list[j])
    BY <2>1 DEF Rename, ListsInv, Filling, ListsTyped
  <2>3. Cardinality(live) \in Nat /\ Cardinality(list[j]) \in Nat
    <3>1. IsFiniteSet(live) /\ IsFiniteSet(list[j])
      BY FS_Subset DEF ListsInv, ListsTyped
    <3> QED BY <3>1, FS_CardinalityType
  <2>4. CASE live = {}
    BY <2>2, <2>3, <2>4, FS_EmptySet
  <2> QED BY <2>2, <2>3, <2>4 DEF TooSmall
<1> QED BY <1>1, ScreeningStarts, ScreeningKeeps, PTL DEF ScreeningSpec, NoSilentShrink
=============================================================================
