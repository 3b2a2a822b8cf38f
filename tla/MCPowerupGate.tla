--------------------------- MODULE MCPowerupGate ---------------------------
(* An instance of PowerupGate for TLC.                                     *)
EXTENDS PowerupGate

(* KP is embargoed, GB not offered, US prohibited to Jupiter; FR is open,  *)
(* unless a document blocks it.                                            *)
Zero == [name |-> "0x", countries |-> {"US"}]
Meta == [name |-> "jupiter", countries |-> {"FR"}]

(* A row of its own for each mistake a document is refused for, and the    *)
(* capability `memo` in one of them.                                       *)
Swap(row, platforms) == [swap |-> [row |-> row, platforms |-> platforms]]

Strict == Swap([default |-> "0x", unavailable |-> {"KP", "GB", "FR"}, providers |-> <<Zero>>], <<>>)

Off == [swap |-> [row |-> [default |-> "jupiter", unavailable |-> {"KP", "GB"},
                           providers |-> <<Zero, Meta>>],
                  platforms |-> [ios |-> [enabled |-> FALSE, reason |-> "maintenance"]]],
        memo |-> [row |-> [default |-> "jupiter", unavailable |-> {"KP"}, providers |-> <<Zero>>],
                  platforms |-> <<>>]]

(* The override of a platform drops the list that kept US from Jupiter.    *)
Opening == Swap([default |-> "jupiter", unavailable |-> {"KP", "GB"}, providers |-> <<Zero>>],
                [extension |-> [providers |-> <<Meta>>]])

(* The row's country list forgets an embargoed one.                        *)
Leaking == Swap([default |-> "0x", unavailable |-> {"GB"}, providers |-> <<Zero>>], <<>>)

Nothing == <<>>

SomeDocs == {Strict, Off, Opening, Leaking, Nothing}
=============================================================================
