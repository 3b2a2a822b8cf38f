------------------------- MODULE MCProviderAccess -------------------------
(* Instances of ProviderAccess for TLC.                                    *)
EXTENDS ProviderAccess

CONSTANTS c1, c2, k1, k2

(* Two containers with a call each.                                        *)
Apart == [c \in {c1, c2} |-> IF c = c1 THEN k1 ELSE k2]

(* What remainingMs may be when acquire is called: less than the window of *)
(* MaxWaitMs, and more than it.                                            *)
SomeBudgets == {1, 5}
=============================================================================
