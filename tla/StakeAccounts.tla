--------------------------- MODULE StakeAccounts ---------------------------
(***************************************************************************)
(* The native stake accounts of a wallet (stake-account-service.js): the   *)
(* state of each, worked out from two epochs, and what it earned in the    *)
(* last epochs, each answer of the node kept.  The cluster goes on while   *)
(* the lists and the epoch are read.  The store's entries outlive the      *)
(* instance.                                                               *)
(***************************************************************************)
EXTENDS Integers, FiniteSets

CONSTANTS
  Stakes, Authorities,   \* accounts, and the lists each one is in: staker, withdrawer
  RewardEpochs,          \* REWARD_EPOCHS
  LastEpoch,             \* bound on the epochs
  NoEpoch

ASSUME StakesAssumption ==
  /\ Authorities \in [Stakes -> SUBSET {"staker", "withdrawer"}]
  /\ RewardEpochs \in Nat \ {0} /\ LastEpoch \in Nat /\ NoEpoch \notin Nat

VARIABLES
  epoch, delegation,     \* of the cluster: the epoch; each account's delegation and true state
  due, paid,             \* rewards earned, and those the cluster has distributed
  rewardCache,           \* stake_reward: what the node answered for an account and an epoch
  early,                 \* history: the answers kept before the distribution
  stakeList              \* the request

stakeVars == <<epoch, delegation, due, paid, rewardCache, early, stakeList>>

Undelegated == [state |-> "inactive", activationEpoch |-> NoEpoch, deactivationEpoch |-> NoEpoch, earns |-> FALSE]
NoList == [pc |-> "idle", read |-> {}, epoch |-> 0, account |-> <<>>, seenAt |-> <<>>,
           next |-> 0, rewards |-> {}, paid |-> {}]

StakesInit ==
  /\ epoch = RewardEpochs /\ delegation = [a \in Stakes |-> Undelegated]
  /\ due = {} /\ paid = {} /\ rewardCache = <<>> /\ early = {} /\ stakeList = NoList

-----------------------------------------------------------------------------
(* The cluster, external.  What is delegated or withdrawn in an epoch      *)
(* begins to take effect at its end, and the rewards of an epoch are       *)
(* distributed some time into the next.  When the whole cluster activates  *)
(* or deactivates more than the warm-up rate allows, a stake needs several *)
(* epochs for it, and earns on the active part meanwhile.                  *)

Delegate(a) ==
  /\ delegation[a].state = "inactive"
  /\ delegation' = [delegation EXCEPT ![a] =
       [state |-> "activating", activationEpoch |-> epoch, deactivationEpoch |-> NoEpoch, earns |-> FALSE]]
  /\ UNCHANGED <<epoch, due, paid, rewardCache, early, stakeList>>

Deactivate(a) ==
  /\ delegation[a].state \in {"activating", "active"}
  /\ delegation' = [delegation EXCEPT ![a].state = IF delegation[a].earns THEN "deactivating" ELSE "inactive",
                                      ![a].deactivationEpoch = epoch]
  /\ UNCHANGED <<epoch, due, paid, rewardCache, early, stakeList>>

AtNextEpoch(d, slow) ==
  CASE d.state = "activating"              -> [d EXCEPT !.state = IF slow THEN @ ELSE "active", !.earns = TRUE]
    [] d.state = "deactivating" /\ ~slow   -> [d EXCEPT !.state = "inactive", !.earns = FALSE]
    [] OTHER                               -> d

NewEpoch ==
  /\ epoch < LastEpoch /\ due \subseteq paid /\ epoch' = epoch + 1
  /\ due' = due \cup {<<a, epoch>> : a \in {b \in Stakes : delegation[b].earns}}
  /\ \E slow \in SUBSET Stakes : delegation' = [a \in Stakes |-> AtNextEpoch(delegation[a], a \in slow)]
  /\ UNCHANGED <<paid, rewardCache, early, stakeList>>

Distribute ==
  /\ paid # due /\ paid' = due
  /\ UNCHANGED <<epoch, delegation, due, rewardCache, early, stakeList>>

-----------------------------------------------------------------------------
(* Wrong on purpose: an epoch counts from the activation on.             *)
EarnedInFromActivation(account, e) ==
  /\ account.activationEpoch # NoEpoch /\ account.activationEpoch + 1 < e
  /\ account.deactivationEpoch = NoEpoch \/ e <= account.deactivationEpoch

EarnedIn(account, e) ==
  /\ account.activationEpoch # NoEpoch /\ account.activationEpoch < e
  /\ account.deactivationEpoch = NoEpoch \/ e <= account.deactivationEpoch

(* Wrong on purpose: the epoch of the deactivation counts as over.       *)
StakeStateTooSoon(account, e) ==
  CASE account.activationEpoch = NoEpoch   -> "inactive"
    [] account.deactivationEpoch # NoEpoch -> IF account.deactivationEpoch > e THEN "deactivating" ELSE "inactive"
    [] OTHER                               -> IF account.activationEpoch >= e THEN "activating" ELSE "active"

StakeState(account, e) ==
  CASE account.activationEpoch = NoEpoch   -> "inactive"
    [] account.deactivationEpoch # NoEpoch -> IF account.deactivationEpoch >= e THEN "deactivating" ELSE "inactive"
    [] OTHER                               -> IF account.activationEpoch >= e THEN "activating" ELSE "active"

(* The two lists and the epoch are read at once, in any order; of an       *)
(* account in both lists the withdrawer's copy counts.                     *)
AskStakes ==
  /\ stakeList.pc = "idle" /\ stakeList' = [NoList EXCEPT !.pc = "reading", !.paid = paid]
  /\ UNCHANGED <<rewardCache, early>>

ListByAuthority(authority) ==
  LET listed == {a \in Stakes : authority \in Authorities[a]}
      known  == DOMAIN stakeList.account
      taken  == IF authority = "withdrawer" THEN listed ELSE listed \ known
  IN  /\ stakeList.pc = "reading" /\ authority \notin stakeList.read
      /\ stakeList' = [stakeList EXCEPT !.read = @ \cup {authority},
                         !.account = [a \in known \cup taken |-> IF a \in taken THEN delegation[a] ELSE @[a]],
                         !.seenAt = [a \in known \cup taken |-> IF a \in taken THEN epoch ELSE @[a]]]
      /\ UNCHANGED <<rewardCache, early>>

GetEpochInfo ==
  /\ stakeList.pc = "reading" /\ "epoch" \notin stakeList.read
  /\ stakeList' = [stakeList EXCEPT !.read = @ \cup {"epoch"}, !.epoch = epoch, !.next = epoch - 1]
  /\ UNCHANGED <<rewardCache, early>>

ListsRead ==
  /\ stakeList.pc = "reading" /\ stakeList.read = {"staker", "withdrawer", "epoch"}
  /\ stakeList' = [stakeList EXCEPT !.pc = IF stakeList.account = <<>> THEN "replied" ELSE "rewards"]
  /\ UNCHANGED <<rewardCache, early>>

(* One epoch's rewards, newest epoch first: the answers kept, and one call *)
(* for the other accounts, whose answers are kept, "none" among them.      *)
GetInflationReward ==
  LET e       == stakeList.next
      earning == {a \in DOMAIN stakeList.account : EarnedIn(stakeList.account[a], e)}
      missing == {a \in earning : <<a, e>> \notin DOMAIN rewardCache}
      has(a)  == IF a \in missing THEN <<a, e>> \in paid ELSE rewardCache[<<a, e>>]
  IN  /\ stakeList.pc = "rewards" /\ e >= stakeList.epoch - RewardEpochs
      /\ rewardCache' = [k \in DOMAIN rewardCache \cup {<<a, e>> : a \in missing} |->
                           IF k \in DOMAIN rewardCache THEN rewardCache[k] ELSE k \in paid]
      /\ early' = early \cup ({<<a, e>> : a \in missing} \ paid)
      /\ stakeList' = [stakeList EXCEPT !.next = e - 1,
                         !.rewards = @ \cup {<<a, e>> : a \in {b \in earning : has(b)}}]

StakesReply ==
  /\ stakeList.pc = "rewards" /\ stakeList.next < stakeList.epoch - RewardEpochs
  /\ stakeList' = [stakeList EXCEPT !.pc = "replied"] /\ UNCHANGED <<rewardCache, early>>

(* The answer is shown, or a call failed: the wallet asks again.           *)
StakesOver ==
  /\ stakeList.pc # "idle" /\ stakeList' = NoList /\ UNCHANGED <<rewardCache, early>>

ListStakeAccounts ==
  /\ \/ AskStakes \/ ListByAuthority("staker") \/ ListByAuthority("withdrawer") \/ GetEpochInfo
     \/ ListsRead \/ GetInflationReward \/ StakesReply \/ StakesOver
  /\ UNCHANGED <<epoch, delegation, due, paid>>

StakesNext == (\E a \in Stakes : Delegate(a) \/ Deactivate(a)) \/ NewEpoch \/ Distribute \/ ListStakeAccounts

StakesSpec == StakesInit /\ [][StakesNext]_stakeVars

-----------------------------------------------------------------------------
RewardsAsPaid ==
  LET window == (stakeList.epoch - RewardEpochs) .. (stakeList.epoch - 1)
      within(e, d) == e > d.activationEpoch /\ (d.deactivationEpoch = NoEpoch \/ e <= d.deactivationEpoch)
      before == {k \in stakeList.paid : k[2] \in window /\ k[1] \in DOMAIN stakeList.account
                                        /\ within(k[2], stakeList.account[k[1]])}
  IN  stakeList.rewards \subseteq paid /\ before \subseteq stakeList.rewards \cup early

(* The cluster still activates, or deactivates, a stake whose epoch for it *)
(* is over: it is shown as if it were done.                                *)
ShownDoneEarly(d, shown, e) ==
  \/ d.state = "activating" /\ shown = "active" /\ d.activationEpoch < e
  \/ d.state = "deactivating" /\ shown = "inactive" /\ d.deactivationEpoch < e

(* What was withdrawn before any of it was active is over at once, and is  *)
(* shown as if it took the rest of the epoch.                              *)
ShownLeaving(d, shown, e) ==
  d.state = "inactive" /\ shown = "deactivating" /\ d.activationEpoch = e /\ d.deactivationEpoch = e

StateAsOnChain ==
  \A a \in DOMAIN stakeList.account :
    LET d     == stakeList.account[a]
        shown == StakeState(d, stakeList.epoch)
    IN  stakeList.seenAt[a] = stakeList.epoch =>
          shown = d.state \/ ShownDoneEarly(d, shown, stakeList.epoch) \/ ShownLeaving(d, shown, stakeList.epoch)

(* The rewards shown are rewards the cluster paid for the epochs before    *)
(* the current one, and every one paid before the request is shown, if it  *)
(* was earned from the delegation that is shown up to the epoch it was     *)
(* deactivated in, and the node was not asked for it before it was         *)
(* distributed: then it is missed for as long as the answer is kept        *)
(* (rewardsFor).  The state worked out is the account's on the cluster,    *)
(* when the account and the epoch were read in one epoch (stakeState), but *)
(* for what the epochs cannot tell: a change the warm-up rate stretches is *)
(* shown as done too early, never too late, and a stake withdrawn in the   *)
(* epoch it was delegated in is shown as leaving until the epoch's end.    *)
StakesAsOnChain == stakeList.pc = "replied" => RewardsAsPaid /\ StateAsOnChain
=============================================================================
