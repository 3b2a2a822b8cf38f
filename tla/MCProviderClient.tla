-------------------------- MODULE MCProviderClient --------------------------
(* An instance of ProviderClient for TLC.                                  *)
EXTENDS ProviderClient

CONSTANTS c1, c2, k1, k2

(* One container with two calls.                                           *)
Together == [c \in Calls |-> k1]
=============================================================================
