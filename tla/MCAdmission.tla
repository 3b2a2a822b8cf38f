---------------------------- MODULE MCAdmission ----------------------------
(* Instances of Admission for TLC.                                         *)
EXTENDS Admission, TLC

(* KP is embargoed, GB not offered, US prohibited to Jupiter; FR is open,  *)
(* unless a document blocks it.                                            *)
Zero == [name |-> "0x", countries |-> {"US"}]
Meta == [name |-> "jupiter", countries |-> {"FR"}]

(* A row of its own for each mistake a document is refused for, and the    *)
(* capability `memo` in one of them.                                       *)
Swap(row, platforms) == [swap |-> [row |-> row, platforms |-> platforms]]

Strict == Swap([default |-> "0x", unavailable |-> {"KP", "GB", "FR"}, providers |-> <<Zero>>], <<>>)

Off == [swap |-> [row |-> [default |-> "jupiter", unavailable |-> {"KP", "GB"},
                           providers |-> <<Zero, Meta>>],
                  platforms |-> [ios |-> [enabled |-> FALSE, reason |-> "maintenance"]]],
        memo |-> [row |-> [default |-> "jupiter", unavailable |-> {"KP"}, providers |-> <<Zero>>],
                  platforms |-> <<>>]]

(* The override of a platform drops the list that kept US from Jupiter.    *)
Opening == Swap([default |-> "jupiter", unavailable |-> {"KP", "GB"}, providers |-> <<Zero>>],
                [extension |-> [providers |-> <<Meta>>]])

(* The row's country list forgets an embargoed one.                        *)
Leaking == Swap([default |-> "0x", unavailable |-> {"GB"}, providers |-> <<Zero>>], <<>>)

Nothing == <<>>

SomeDocs == {Strict, Off, Opening, Leaking, Nothing}

CONSTANTS a1, a2, a3, a4, j1

(* Whole and truncated lists: every set of addresses may be parsed.        *)
AnyList == SUBSET Addresses

(* Requests are interchangeable, and so are two of the addresses that      *)
(* nobody asks for; more of them cost the gate's side more than they save. *)
Alike == Permutations(Requests) \cup Permutations({a3, a4})
=============================================================================
