----------------------------- MODULE Admission -----------------------------
(***************************************************************************)
(* What stands before a build: the gate with its availability table, and   *)
(* the screening of the wallet with the daily refresh of its lists.  The   *)
(* gate knows of a screening only that it passes or refuses, and shares    *)
(* no state with it, so that a behaviour follows one of the two.           *)
(***************************************************************************)
EXTENDS PowerupGate, Sanctions

VARIABLE side

admissionVars == <<side, vars, screeningVars>>

Sides == {"gate", "screening"}

(* The gate starts with any document; the screening asks for none.         *)
AdmissionInit ==
  /\ side \in Sides /\ Init /\ ScreeningInit
  /\ side = "screening" => parameter = CHOOSE d \in Docs : TRUE

Gating == side = "gate" /\ Next /\ UNCHANGED <<side, screeningVars>>

Screening == side = "screening" /\ ScreeningNext /\ UNCHANGED <<side, vars>>

AdmissionSpec == AdmissionInit /\ [][Gating \/ Screening]_admissionVars
=============================================================================
