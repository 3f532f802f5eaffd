-------------------------------- MODULE Ramp --------------------------------
(***************************************************************************)
(* The speed ramp of the vehicle SDK (yk_can_sdk/vehicle.py, _ramp): how   *)
(* far one wheel command moves towards its target in one control period.   *)
(* Speeds are integers; Accel and Decel are the configured rates times the *)
(* control period (600 * 0.02 = 12 and 1200 * 0.02 = 24 by default).       *)
(***************************************************************************)
EXTENDS Integers

CONSTANTS Accel, Decel

\* config.py, SafetyLimits.__post_init__: both rates must be positive.
ASSUME RatesArePositive == Accel \in Nat \ {0} /\ Decel \in Nat \ {0}

Size(v) == IF v < 0 THEN -v ELSE v

Accelerating(old, new) == Size(new) > Size(old) /\ old * new >= 0

\* Mutant: the step does not end at the target.
RampStepOvershoots(old, new) ==
  LET delta == IF Accelerating(old, new) THEN Accel ELSE Decel
  IN  IF new >= old THEN old + delta ELSE old - delta

RampStep(old, new) ==
  LET delta == IF Accelerating(old, new) THEN Accel ELSE Decel
  IN  IF new > old
      THEN IF new <= old + delta THEN new ELSE old + delta
      ELSE IF new >= old - delta THEN new ELSE old - delta
=============================================================================
