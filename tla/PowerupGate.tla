---------------------------- MODULE PowerupGate ----------------------------
(***************************************************************************)
(* Where a capability is offered: the availability table a container reads *)
(* from its SSM parameter and keeps, the validation of what it reads, the  *)
(* decision for a caller's platform and country, and the gate before every *)
(* build, which screens the wallet when the provider does not.             *)
(*                                                                         *)
(* A document is a function from capabilities to rows.  One that does not  *)
(* parse, and the absence of the parameter, act as a document without the  *)
(* capability that is required: it has problems, and the last good table   *)
(* is kept.  Requests are the slots of one container.                      *)
(***************************************************************************)
EXTENDS Integers, Sequences, FiniteSets

CONSTANTS
  Requests,
  Capabilities, Regulated,   \* REGULATED: offered only where a row says so
  Platforms,
  Countries, Unknown,        \* Unknown: the resolver's null
  Prohibited,                \* JUPITER_PROHIBITED
  Embargoed, NotOffered,     \* EMBARGOED; PRECAUTIONARY and NOT_OFFERED
  Docs,                      \* what the parameter may hold
  Ttl, MaxStale              \* TTL_MS and MAX_STALE_MS, in ticks

ASSUME PlatformsAssumption == "__none__" \notin Platforms /\ "ios" \in Platforms
ASSUME CountriesAssumption ==
  /\ Unknown \notin Countries
  /\ Prohibited \subseteq Countries /\ Embargoed \subseteq Countries /\ NotOffered \subseteq Countries
ASSUME SwapAssumption  == Regulated = {"swap"} /\ "swap" \in Capabilities
ASSUME TimesAssumption == Ttl \in Nat \ {0} /\ MaxStale \in Nat

VARIABLES
  parameter, sinceEdit,       \* SSM: the document, and the ticks since it was put
  current,                    \* the container's table
  sinceFetch, sinceGood,      \* ticks since fetchedAt and goodAt
  pc, reply,                  \* per request: its place; the document SSM read for it
  caller, provider,           \* per request past the decision: who asks, who builds
  failed, overlapped          \* history: the last read failed; reads were in flight together

tableVars   == <<current, sinceFetch, sinceGood>>
requestVars == <<pc, reply, caller, provider>>
historyVars == <<failed, overlapped>>
vars == <<parameter, sinceEdit, tableVars, requestVars, historyVars>>

-----------------------------------------------------------------------------
(* The table.  The fields a row leaves out have defaults, and a platform's *)
(* row replaces the fields it names.  `providers` is in the object's order.*)

Providers  == {"jupiter", "0x"}
OffReasons == {"maintenance", "deprecated"}
RowDefaults ==
  [enabled |-> TRUE, reason |-> "none", default |-> "none", unavailable |-> {}, providers |-> <<>>]

RowsFor(entry, platform) ==
  LET override == IF platform \in DOMAIN entry.platforms THEN entry.platforms[platform] ELSE <<>>
  IN  [f \in DOMAIN RowDefaults |->
         IF f \in DOMAIN override THEN override[f]
         ELSE IF f \in DOMAIN entry.row THEN entry.row[f] ELSE RowDefaults[f]]

Blocked == Embargoed \union NotOffered

DEFAULT_TABLE ==
  [name \in {"swap"} |->
     [row |-> [default     |-> "jupiter",
               unavailable |-> Blocked,
               providers   |-> <<[name |-> "0x", countries |-> Prohibited \ Blocked]>>],
      platforms |-> [p \in {"ios"} |-> <<>>]]]

(* The first list that names the country, or the row's default.            *)
ProviderFor(rows, country) ==
  LET lists == {i \in DOMAIN rows.providers : country \in rows.providers[i].countries}
  IN  IF lists = {} THEN rows.default
      ELSE rows.providers[CHOOSE i \in lists : \A j \in lists : i <= j].name

ServedByJupiter(rows, country) ==
  country \notin rows.unavailable /\ ProviderFor(rows, country) = "jupiter"

ValidRows(name, rows) ==
  IF ~rows.enabled THEN rows.reason \in OffReasons
  ELSE /\ rows.default \in Providers \union {"none"}
       /\ \A i \in DOMAIN rows.providers : rows.providers[i].name \in Providers
       /\ Embargoed \subseteq rows.unavailable
       /\ name \in Regulated => NotOffered \subseteq rows.unavailable
       /\ \A country \in Prohibited : ~ServedByJupiter(rows, country)

(* Wrong on purpose: the platforms' rows are taken on trust.               *)
ValidTableBase(doc) ==
  /\ Regulated \subseteq DOMAIN doc
  /\ \A name \in DOMAIN doc : ValidRows(name, RowsFor(doc[name], "__none__"))

ValidTable(doc) ==
  /\ Regulated \subseteq DOMAIN doc
  /\ \A name \in DOMAIN doc :
       /\ ValidRows(name, RowsFor(doc[name], "__none__"))
       /\ \A platform \in DOMAIN doc[name].platforms :
            platform \in Platforms /\ ValidRows(name, RowsFor(doc[name], platform))

HasProblems(doc) == ~ValidTable(doc)

Tables == {doc \in Docs : ValidTable(doc)} \union {DEFAULT_TABLE}

(* What a caller is: the capability asked for, the country, and whether    *)
(* its publicKey is an address.                                            *)
Callers ==
  [capability : Capabilities, country : Countries \union {Unknown}, valid : BOOLEAN]

Closed(rows, c) ==
  \/ c.country = Unknown /\ c.capability \in Regulated
  \/ c.country # Unknown /\ c.country \in rows.unavailable

(* decide: "off", "region", or the provider, "none" where there is no      *)
(* choice of one.                                                          *)
Decide(table, platform, c) ==
  IF c.capability \notin DOMAIN table THEN "none"
  ELSE LET rows == RowsFor(table[c.capability], platform) IN
       IF ~rows.enabled THEN "off"
       ELSE IF Closed(rows, c) THEN "region"
       ELSE IF c.country = Unknown THEN rows.default ELSE ProviderFor(rows, c.country)

ScreenedBySalmon == {"jupiter"}

-----------------------------------------------------------------------------
Places == {"idle", "reading", "replied", "screen", "controller", "build"}

NoCaller == CHOOSE c \in Callers : TRUE
Oldest   == MaxStale + Ttl + 1     \* sinceGood saturates here

Lesser(a, b) == IF a < b THEN a ELSE b

TypeOK ==
  /\ parameter \in Docs /\ sinceEdit \in 0..Ttl
  /\ current \in Tables
  /\ sinceFetch \in 0..Ttl /\ sinceGood \in 0..Oldest
  /\ pc \in [Requests -> Places]
  /\ reply \in [Requests -> Docs \union {DEFAULT_TABLE}]
  /\ caller \in [Requests -> Callers]
  /\ provider \in [Requests -> Providers \union {"none"}]
  /\ failed \in BOOLEAN /\ overlapped \in BOOLEAN

Init ==
  /\ parameter \in Docs /\ sinceEdit = 0
  /\ current = DEFAULT_TABLE /\ sinceFetch = Ttl /\ sinceGood = Oldest
  /\ pc = [r \in Requests |-> "idle"]
  /\ reply = [r \in Requests |-> DEFAULT_TABLE]
  /\ caller = [r \in Requests |-> NoCaller]
  /\ provider = [r \in Requests |-> "none"]
  /\ failed = FALSE /\ overlapped = FALSE

Reading(r) == pc[r] \in {"reading", "replied"}

End(r) ==
  /\ pc' = [pc EXCEPT ![r] = "idle"]
  /\ reply' = [reply EXCEPT ![r] = DEFAULT_TABLE]
  /\ caller' = [caller EXCEPT ![r] = NoCaller]
  /\ provider' = [provider EXCEPT ![r] = "none"]

(* powerupGate once it has the table, up to its next await: the caller is  *)
(* refused, or its wallet is screened, or it goes on.  The swap route has  *)
(* checked the address before; the others leave a bad one to the           *)
(* controller's 400.                                                       *)
Gate(r, table) ==
  \E platform \in Platforms, c \in Callers :
    /\ c.capability = "swap" => c.valid
    /\ LET decision == Decide(table, platform, c) IN
         \/ decision \in {"off", "region"} /\ End(r)
         \/ /\ decision \notin {"off", "region"}
            /\ pc' = [pc EXCEPT ![r] =
                        IF decision \in ScreenedBySalmon /\ c.valid THEN "screen" ELSE "controller"]
            /\ reply' = [reply EXCEPT ![r] = DEFAULT_TABLE]
            /\ caller' = [caller EXCEPT ![r] = c]
            /\ provider' = [provider EXCEPT ![r] = decision]

(* The loader, within its TTL.                                             *)
Arrive(r) ==
  /\ pc[r] = "idle" /\ sinceFetch < Ttl
  /\ Gate(r, current)
  /\ UNCHANGED <<parameter, sinceEdit, tableVars, historyVars>>

(* The loader, past its TTL: fetchedAt is set before the await, so that    *)
(* the requests behind it are answered from the table held.                *)
Fetch(r) ==
  /\ pc[r] = "idle" /\ sinceFetch >= Ttl
  /\ sinceFetch' = 0
  /\ pc' = [pc EXCEPT ![r] = "reading"]
  /\ overlapped' = (\E q \in Requests : Reading(q))
  /\ UNCHANGED <<parameter, sinceEdit, current, sinceGood, reply, caller, provider, failed>>

(* SSM reads the parameter; the answer is on its way.                      *)
Read(r) ==
  /\ pc[r] = "reading"
  /\ pc' = [pc EXCEPT ![r] = "replied"]
  /\ reply' = [reply EXCEPT ![r] = parameter]
  /\ UNCHANGED <<parameter, sinceEdit, tableVars, caller, provider, historyVars>>

(* Wrong on purpose: keep-last-good without its ceiling.                   *)
LastGoodForEver == current

(* lastGood: the table held, unless it has not been refreshed for too long.*)
LastGood ==
  IF current # DEFAULT_TABLE /\ sinceGood > MaxStale THEN DEFAULT_TABLE ELSE current

ReadFails(r) ==
  /\ Reading(r)
  /\ current' = LastGood
  /\ Gate(r, LastGood)
  /\ failed' = TRUE
  /\ UNCHANGED <<parameter, sinceEdit, sinceFetch, sinceGood, overlapped>>

(* Wrong on purpose: fetchedAt is set once the answer is there.            *)
SettleStamping(r) ==
  /\ pc[r] = "replied"
  /\ \/ /\ HasProblems(reply[r])
        /\ current' = LastGood
        /\ Gate(r, LastGood)
        /\ failed' = TRUE
        /\ UNCHANGED sinceGood
     \/ /\ ~HasProblems(reply[r])
        /\ current' = reply[r]
        /\ sinceGood' = 0
        /\ Gate(r, reply[r])
        /\ failed' = FALSE
  /\ sinceFetch' = 0
  /\ UNCHANGED <<parameter, sinceEdit, overlapped>>

Settle(r) ==
  /\ pc[r] = "replied"
  /\ \/ /\ HasProblems(reply[r])
        /\ current' = LastGood
        /\ Gate(r, LastGood)
        /\ failed' = TRUE
        /\ UNCHANGED sinceGood
     \/ /\ ~HasProblems(reply[r])
        /\ current' = reply[r]
        /\ sinceGood' = 0
        /\ Gate(r, reply[r])
        /\ failed' = FALSE
  /\ UNCHANGED <<parameter, sinceEdit, sinceFetch, overlapped>>

(* isListed answers (Sanctions!Outcomes): only a cleared wallet goes on,   *)
(* a listed one is refused and what it throws ends the request.            *)
Screen(r) ==
  /\ pc[r] = "screen"
  /\ \/ pc' = [pc EXCEPT ![r] = "build"] /\ UNCHANGED <<reply, caller, provider>>
     \/ End(r)
  /\ UNCHANGED <<parameter, sinceEdit, tableVars, historyVars>>

(* Wrong on purpose: the controller trusts the gate with the address.      *)
ControllerTrusting(r) ==
  /\ pc[r] = "controller"
  /\ pc' = [pc EXCEPT ![r] = "build"]
  /\ UNCHANGED <<reply, caller, provider, parameter, sinceEdit, tableVars, historyVars>>

(* The controller's own check of the address.                              *)
Controller(r) ==
  /\ pc[r] = "controller"
  /\ \/ caller[r].valid /\ pc' = [pc EXCEPT ![r] = "build"] /\ UNCHANGED <<reply, caller, provider>>
     \/ ~caller[r].valid /\ End(r)
  /\ UNCHANGED <<parameter, sinceEdit, tableVars, historyVars>>

Built(r) ==
  /\ pc[r] = "build"
  /\ End(r)
  /\ UNCHANGED <<parameter, sinceEdit, tableVars, historyVars>>

-----------------------------------------------------------------------------
(* Around the container: the parameter is edited, the container replaced,  *)
(* time passes, for as long as a read may take.                            *)
Edit ==
  /\ parameter' \in Docs \ {parameter}
  /\ sinceEdit' = 0
  /\ UNCHANGED <<tableVars, requestVars, historyVars>>

Restart ==
  /\ current' = DEFAULT_TABLE /\ sinceFetch' = Ttl /\ sinceGood' = Oldest
  /\ pc' = [r \in Requests |-> "idle"]
  /\ reply' = [r \in Requests |-> DEFAULT_TABLE]
  /\ caller' = [r \in Requests |-> NoCaller]
  /\ provider' = [r \in Requests |-> "none"]
  /\ failed' = FALSE /\ overlapped' = FALSE
  /\ UNCHANGED <<parameter, sinceEdit>>

Tick ==
  /\ sinceEdit' = Lesser(sinceEdit + 1, Ttl)
  /\ sinceFetch' = Lesser(sinceFetch + 1, Ttl)
  /\ sinceGood' = Lesser(sinceGood + 1, Oldest)
  /\ UNCHANGED <<parameter, current, requestVars, historyVars>>

Step(r) ==
  \/ Arrive(r) \/ Fetch(r) \/ Read(r) \/ ReadFails(r) \/ Settle(r)
  \/ Screen(r) \/ Controller(r) \/ Built(r)

Next == (\E r \in Requests : Step(r)) \/ Edit \/ Restart \/ Tick

Spec == Init /\ [][Next]_vars

-----------------------------------------------------------------------------
Admitted(r) == pc[r] \in {"screen", "controller", "build"}

(* Whatever the parameter holds, however badly it is edited and whichever  *)
(* reads fail: a regulated capability is open only to callers whose country*)
(* is known and not blocked, no row serves an embargoed country, and       *)
(* Jupiter serves none of its prohibited ones (validateTable, decide).     *)
BlockedStaysBlocked ==
  \A r \in Requests : Admitted(r) =>
    /\ caller[r].capability \in Regulated => caller[r].country \in Countries \ Blocked
    /\ provider[r] # "none" => caller[r].country \notin Embargoed
    /\ provider[r] = "jupiter" => caller[r].country \notin Prohibited

(* Nothing is built with Jupiter for a wallet nobody screened: what the    *)
(* gate leaves unscreened, the controller refuses (powerupGate, build).    *)
JupiterOnlyScreened ==
  [][\A r \in Requests :
       pc[r] # "build" /\ pc'[r] = "build" /\ provider[r] = "jupiter" => pc[r] = "screen"]_vars

(* A table that cannot be refreshed stops serving: within a TTL of the     *)
(* ceiling the default has taken over, unless a read is still in flight    *)
(* (createTableLoader, lastGood).                                          *)
CeilingKept ==
  (\A r \in Requests : ~Reading(r)) /\ sinceFetch < Ttl /\ current # DEFAULT_TABLE =>
    sinceGood < MaxStale + Ttl

(* An edit that is valid is served a TTL later, wherever the container     *)
(* still answers from memory: unless its last read failed, or two reads    *)
(* were in flight together and may have come back in either order          *)
(* (createTableLoader).                                                    *)
EditsReach ==
  /\ sinceFetch < Ttl /\ sinceEdit = Ttl /\ ValidTable(parameter)
  /\ \A r \in Requests : ~Reading(r)
  /\ ~failed /\ ~overlapped
  => current = parameter

(* What is served is neither an old table for ever nor, once it is read,   *)
(* a table before the last edit (createTableLoader).                       *)
TableKeptUp == CeilingKept /\ EditsReach

(* "a failure never opens a country" (availability-table.js, header): a    *)
(* caller whose country a valid document has blocked for a TTL, on every   *)
(* platform, is not let in.                                                *)
FailureNeverOpens ==
  [][\A r \in Requests :
       ~Admitted(r) /\ Admitted(r)' /\ ValidTable(parameter) /\ sinceEdit = Ttl =>
         \E platform \in Platforms : Decide(parameter, platform, caller'[r]) # "region"]_vars
=============================================================================
