--------------------------- MODULE ProviderAccess ---------------------------
(***************************************************************************)
(* The way to an upstream provider: the calls of the provider client with  *)
(* the breaker they share, and the token bucket that its `acquire` waits   *)
(* for.  The client knows of the bucket only the wait it answers, any of   *)
(* Waits, so that a behaviour follows one of the two.                      *)
(***************************************************************************)
EXTENDS ProviderClient, SharedRateLimiter

VARIABLE part

accessVars == <<part, vars, limiterVars>>

Parts == {"client", "limiter"}

AccessInit == part \in Parts /\ Init /\ LimiterInit

Client == part = "client" /\ Next /\ UNCHANGED <<part, limiterVars>>

Limiter == part = "limiter" /\ LimiterNext /\ UNCHANGED <<part, vars>>

(* The bound on the true time: the limiter's part ends there.              *)
OutOfTime == part = "limiter" /\ now = MaxNow /\ UNCHANGED accessVars

AccessNext == Client \/ Limiter \/ OutOfTime

AccessSpec == AccessInit /\ [][AccessNext]_accessVars
=============================================================================
