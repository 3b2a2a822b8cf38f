---------------------------- MODULE NftActions ----------------------------
(***************************************************************************)
(* The burn or the transfer of an NFT: the index says what it is, a node   *)
(* who holds it, and the unsigned transactions are built from both, for    *)
(* the wallet to sign and send one after another while others act too.  A  *)
(* compressed NFT whose burn does not fit gets a lookup table first.       *)
(***************************************************************************)
EXTENDS Integers, FiniteSets, Sequences, SequencesExt, FiniteSetsExt

CONSTANTS
  People,          \* wallets
  Kinds,           \* what the asset may be
  Addresses,       \* the accounts of a burn that a table may hold, in order
  ExtendChunkSize, \* LOOKUP_TABLE_EXTEND_CHUNK_SIZE
  MaxHandovers,        \* bound on transfers by others
  Nobody

ASSUME ActionsAssumption ==
  /\ Addresses \in Seq(Nat \ {0}) /\ ExtendChunkSize \in Nat \ {0} /\ MaxHandovers \in Nat /\ Nobody \notin People
  /\ Kinds \subseteq {"master", "print", "programmable", "programmableEdition", "token2022", "leafV1", "leafV2",
                      "fungible", "core"}

VARIABLES
  kind, holder,    \* of the chain: the asset, and who holds it
  handovers,
  seen,            \* the index's answer
  order,           \* the request, then the answer: its transactions, not yet landed
  table            \* the lookup table on the chain: its addresses, or NoTable

actionVars == <<kind, holder, handovers, seen, order, table>>

Compressed == {"leafV1", "leafV2"}
Programmable == {"programmable", "programmableEdition"}
NoTable == <<0>>
NoOrder == [pc |-> "idle", op |-> "none", owner |-> Nobody, to |-> Nobody, steps |-> <<>>, readHolder |-> Nobody,
            moved |-> 0]

AssetsOf(kinds, people) ==
  /\ kind \in kinds /\ holder \in people /\ handovers = 0
  /\ seen = [owner |-> Nobody, interface |-> "none", isOriginal |-> "none"]
  /\ order = NoOrder /\ table = NoTable

ActionsInit == AssetsOf(Kinds, People)

-----------------------------------------------------------------------------
(* The index, external: how it describes each kind, and an owner that may  *)
(* be missing or one of before.  A print may lack its edition number.      *)
Descriptions(k) ==
  CASE k = "master"              -> {[interface |-> "v1_nft", isOriginal |-> "true"],
                                     [interface |-> "v1_nft", isOriginal |-> "none"]}
    [] k = "print"               -> {[interface |-> "v1_print", isOriginal |-> "false"],
                                     [interface |-> "v1_print", isOriginal |-> "none"]}
    [] k \in Programmable        -> {[interface |-> "programmablenft", isOriginal |-> "none"]}
    [] k = "token2022"           -> {[interface |-> "v1_nft", isOriginal |-> "none"]}
    [] k \in Compressed          -> {[interface |-> "v1_nft", isOriginal |-> "none"]}
    [] k = "fungible"            -> {[interface |-> "fungibletoken", isOriginal |-> "none"]}
    [] k = "core"                -> {[interface |-> "mplcoreasset", isOriginal |-> "none"]}

-----------------------------------------------------------------------------
(* solana-nft-service.js                                                   *)

IsFungibleToken == seen.interface = "fungibletoken"
IsEditionToken == seen.isOriginal = "false"
IsMasterEditionToken == seen.isOriginal = "true" \/ seen.interface = "v1_nft"

(* An owner the index does not tell is not compared.                       *)
(* Wrong on purpose: no owner is.                                        *)
AssertOwnershipUnasked(owner) == TRUE

AssertOwnership(owner) == seen.owner \in {Nobody, owner}

(* Which transaction is built, by what the index says.                     *)
BurnRoute ==
  IF IsFungibleToken \/ ~AssertOwnership(order.owner) THEN "refused"
  ELSE IF kind \in Compressed THEN "leaf"
  ELSE IF seen.interface = "programmablenft" THEN "programmable"
  ELSE IF IsEditionToken THEN "print"
  ELSE IF IsMasterEditionToken THEN "master" ELSE "refused"

TransferRoute ==
  IF IsFungibleToken \/ seen.interface = "mplcoreasset" \/ ~AssertOwnership(order.owner) THEN "refused"
  ELSE IF kind \in Compressed THEN "leaf" ELSE "token"

Route == IF order.op = "burn" THEN BurnRoute ELSE TransferRoute

Refuse == order' = [order EXCEPT !.pc = "refused"]

AskAction(op, owner, to) ==
  /\ order.pc = "idle"
  /\ order' = [NoOrder EXCEPT !.pc = "asked", !.op = op, !.owner = owner, !.to = to]
  /\ UNCHANGED <<kind, holder, handovers, seen, table>>

FindFromSourceWithMint(was) ==
  /\ order.pc = "asked"
  /\ \E d \in Descriptions(kind), known \in {was, holder, Nobody} :
       seen' = [owner |-> known, interface |-> d.interface, isOriginal |-> d.isOriginal]
  /\ order' = [order EXCEPT !.pc = "found"]
  /\ UNCHANGED <<kind, holder, handovers, table>>

-----------------------------------------------------------------------------
(* The instruction for a leaf is that of its schema.                       *)
Instruction == [op |-> order.op, route |-> IF Route = "leaf" THEN kind ELSE Route,
                from |-> order.owner, to |-> order.to]
Single == <<[step |-> order.op, instruction |-> Instruction, expected |-> 0, addresses |-> <<>>]>>

(* address-lookup-table-service.js: create, extend by chunks, then the     *)
(* burn.  Each step names how many addresses the table has once it landed. *)
Chunks ==
  LET n == Len(Addresses)
  IN  [i \in 1 .. ((n + ExtendChunkSize - 1) \div ExtendChunkSize) |->
         SubSeq(Addresses, (i - 1) * ExtendChunkSize + 1, Min({i * ExtendChunkSize, n}))]

ChunkLengths == [j \in DOMAIN Chunks |-> Len(Chunks[j])]

(* Wrong on purpose: the chunk itself is not counted.                    *)
ExpectedLookupTableAddressCountBefore(i) == SumFunctionOnSet(ChunkLengths, 1 .. (i - 1))

ExpectedLookupTableAddressCount(i) == SumFunctionOnSet(ChunkLengths, 1 .. i)

CreateLookupTableFallbackTransactions ==
  <<[step |-> "lookup_table_create", instruction |-> Instruction, expected |-> 0, addresses |-> <<>>]>>
  \o [i \in DOMAIN Chunks |-> [step |-> "lookup_table_extend", instruction |-> Instruction,
                               expected |-> ExpectedLookupTableAddressCount(i), addresses |-> Chunks[i]]]

-----------------------------------------------------------------------------
(* burn-service.js, nft-transfer-service.js: the node tells who holds the  *)
(* asset; whether the transaction fits is for the asset to say.            *)

Fallback == CreateLookupTableFallbackTransactions
            \o <<[step |-> "burn", instruction |-> Instruction, expected |-> 0, addresses |-> Addresses]>>

Answered(steps) ==
  order' = [order EXCEPT !.pc = "answered", !.steps = steps, !.readHolder = holder, !.moved = handovers]

(* The caller's token account of the Token program, which a Token-2022     *)
(* asset does not have.                                                    *)
LoadOwnedDigitalAsset == holder = order.owner /\ kind # "token2022"
OwnsLeaf == holder = order.owner

Unsupported          == Route = "refused" /\ Refuse
BurnMasterEdition    == Route = "master" /\ ((LoadOwnedDigitalAsset /\ Answered(Single)) \/ Refuse)
BurnEditions         == Route = "print" /\ Answered(Single)      \* nothing is read
BurnProgrammableNft  ==
  /\ Route = "programmable"
  /\ (LoadOwnedDigitalAsset /\ kind # "programmableEdition" /\ Answered(Single)) \/ Refuse
BurnCompressedNft    ==
  /\ Route = "leaf" /\ order.op = "burn"
  /\ \/ OwnsLeaf /\ Answered(Single)
     \/ OwnsLeaf /\ Addresses # <<>> /\ Answered(Fallback)
     \/ Refuse
TransferNft           == Route = "token" /\ ((LoadOwnedDigitalAsset /\ Answered(Single)) \/ Refuse)
TransferCompressedNft == Route = "leaf" /\ order.op = "transfer" /\ ((OwnsLeaf /\ Answered(Single)) \/ Refuse)

Build ==
  /\ order.pc = "found"
  /\ \/ Unsupported \/ BurnMasterEdition \/ BurnEditions \/ BurnProgrammableNft \/ BurnCompressedNft
     \/ TransferNft \/ TransferCompressedNft
  /\ UNCHANGED <<kind, holder, handovers, seen, table>>

-----------------------------------------------------------------------------
(* The wallet, external: it sends a step when the table is as long as the  *)
(* step before said it would be.                                           *)
Landed(i) == order' = [order EXCEPT !.steps[i].step = "landed"]

LandTableStep(i) ==
  LET step == order.steps[i]
  IN  /\ order.pc = "answered" /\ i \in DOMAIN order.steps
      /\ \/ step.step = "lookup_table_create" /\ table' = <<>>
         \/ step.step = "lookup_table_extend" /\ table # NoTable
            /\ (i > 1 => Len(table) >= order.steps[i - 1].expected) /\ table' = table \o step.addresses
      /\ Landed(i) /\ UNCHANGED <<kind, holder, handovers, seen>>

(* What the programs do with the instruction, if every address of it       *)
(* resolves: it succeeds for the holder only.                              *)
Suits(instruction) ==
  CASE instruction.route \in Compressed   -> kind = instruction.route
    [] instruction.route = "programmable" -> kind = "programmable"
    [] instruction.route = "print"        -> kind = "print"
    [] instruction.route = "master"       -> kind = "master"
    [] OTHER                              -> kind \in {"master", "print"} \cup Programmable

Resolves(step) == \A k \in DOMAIN step.addresses : k \in DOMAIN table /\ table[k] = step.addresses[k]

(* The wallet sends the last step when the table is as it was told.        *)
SendLast(i) ==
  LET step == order.steps[i]
      fine == Resolves(step) /\ Suits(step.instruction) /\ holder = step.instruction.from
  IN  /\ order.pc = "answered" /\ i = Len(order.steps)
      /\ i > 1 => Len(table) >= order.steps[i - 1].expected /\ table # NoTable
      /\ order' = [order EXCEPT !.pc = IF fine THEN "done" ELSE IF Resolves(step) THEN "failed" ELSE "unresolved"]
      /\ holder' = IF fine THEN step.instruction.to ELSE holder
      /\ UNCHANGED <<kind, handovers, seen, table>>

HandOver(p) ==
  /\ handovers < MaxHandovers /\ holder # Nobody /\ p # holder
  /\ handovers' = handovers + 1 /\ holder' = p /\ UNCHANGED <<kind, seen, order, table>>

ActionsNext ==
  \/ \E o \in People : AskAction("burn", o, Nobody) \/ \E t \in People \ {o} : AskAction("transfer", o, t)
  \/ \E was \in People : FindFromSourceWithMint(was)
  \/ Build
  \/ \E i \in DOMAIN order.steps : LandTableStep(i) \/ SendLast(i)
  \/ \E p \in People : HandOver(p)

ActionsSpec == ActionsInit /\ [][ActionsNext]_actionVars

-----------------------------------------------------------------------------
(* A burn that was given a table finds each of its addresses in it, at its *)
(* place, when the wallet sends it once the table is as long as the last   *)
(* step said (createLookupTableFallbackTransactions).                      *)
TableAsBuilt == order.pc # "unresolved"

(* A transaction that was built does what was asked when it lands, if the  *)
(* asset did not change hands since; the one exception is the print's,     *)
(* built for a caller who does not hold it when the index knows no owner   *)
(* or takes the caller for it.                                             *)
BuiltDoesWhatWasAsked ==
  order.pc = "failed" =>
    \/ handovers > order.moved
    \/ /\ order.steps[Len(order.steps)].instruction.route = "print"
       /\ order.readHolder # order.owner /\ seen.owner \in {Nobody, order.owner}
=============================================================================
