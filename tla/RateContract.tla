---------------------------- MODULE RateContract ----------------------------
(***************************************************************************)
(* What the shared limiter promises a provider: in the first t ticks it    *)
(* lets through at most a burst plus the sustained rate times t, the       *)
(* spread of the containers' clocks added to t.  Tokens are counted in     *)
(* units, One to a token, so that a rate below one token a tick stays an   *)
(* integer.                                                                *)
(***************************************************************************)
EXTENDS Integers

CONSTANTS One, Refill, Burst, Spread

VARIABLES time, passed

Init == time = 0 /\ passed = 0

Grant ==
  /\ One * (passed + 1) <= Burst + Refill * (time + Spread)
  /\ passed' = passed + 1
  /\ UNCHANGED time

Pass ==
  /\ time' = time + 1
  /\ UNCHANGED passed

Spec == Init /\ [][Grant \/ Pass]_<<time, passed>>
=============================================================================
