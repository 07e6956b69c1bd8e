----------------------------- MODULE BalanceCore -----------------------------
(***************************************************************************)
(* The balance law of the remote pendulum (_balance_core in                *)
(* use_cases/robot_fight/brain.py): a strategy's wish becomes a slewed     *)
(* speed reference, the feedback a common torque, and the steering gets    *)
(* what the motor limit leaves.  STATEs stop coming when the link is dead, *)
(* so two calls may lie any time apart.                                    *)
(***************************************************************************)
EXTENDS Integers

CONSTANTS
  VMax,        \* v_cmd_max
  Accel,       \* v_ref_accel
  MaxDt,       \* the longest step the slew counts (0.05 s)
  Limit,       \* torque_max
  Wishes,      \* speeds a strategy may ask for
  Feedbacks,   \* values of the feedback before the limit
  Steers,      \* values of the steering before the limit
  MaxTime      \* bound on the arena's simTime

ASSUME BalanceAssumption ==
  /\ VMax \in Nat /\ Accel \in Nat /\ MaxDt \in Nat /\ Limit \in Nat /\ MaxTime \in Nat
  /\ Wishes \subseteq Int /\ Feedbacks \subseteq Int /\ Steers \subseteq Int

VARIABLES
  simTime,     \* sim_time_s of the STATE in hand
  ref,       \* [v, at]: v_ref, and t_prev (-1 before the first call)
  torque     \* [common, left, right] of the last call

balanceVars == << simTime, ref, torque >>

BalanceInit ==
  /\ simTime = 0
  /\ ref = [v |-> 0, at |-> -1]
  /\ torque = [common |-> 0, left |-> 0, right |-> 0]

\* max(-limit, min(limit, x))
Clamped(x, limit) == IF x > limit THEN limit ELSE IF x < -limit THEN -limit ELSE x

\* Mutant of SlewTime: the whole gap since the last call counts.
SlewTimeWhole == IF ref.at = -1 THEN 0 ELSE simTime - ref.at

\* The time since the last call, cut to MaxDt and never negative.
SlewTime ==
  LET dt == IF ref.at = -1 THEN 0 ELSE simTime - ref.at
  IN  IF dt < 0 THEN 0 ELSE IF dt > MaxDt THEN MaxDt ELSE dt

\* The low-pass takes some share of the way to the wish, the slew limits it.
References(wish) ==
  LET way == Clamped(wish, VMax) - ref.v
  IN  {ref.v + Clamped(d, Accel * SlewTime) :
         d \in IF way < 0 THEN way .. 0 ELSE 0 .. way}

\* The differential may only use what the common torque leaves.
Steering(u, d) == Clamped(d, Limit - (IF u < 0 THEN -u ELSE u))

BalanceCall ==
  /\ \E wish \in Wishes : \E v \in References(wish) : ref' = [v |-> v, at |-> simTime]
  /\ \E f \in Feedbacks, s \in Steers :
       LET u == Clamped(f, Limit)
       IN  torque' = [common |-> u, left |-> u - Steering(u, s), right |-> u + Steering(u, s)]
  /\ UNCHANGED simTime

StateArrives ==
  /\ \E t \in simTime .. MaxTime : simTime' = t
  /\ UNCHANGED << ref, torque >>

BalanceNext == BalanceCall \/ StateArrives
BalanceSpec == BalanceInit /\ [][BalanceNext]_balanceVars

BalanceTypeOK ==
  /\ simTime \in 0 .. MaxTime
  /\ ref \in [v : Int, at : Int]
  /\ torque \in [common : Int, left : Int, right : Int]

\* Neither motor is ever asked for more than its limit, and balance has the
\* priority over steering: the mean of both is the balance torque itself.
MotorsWithinLimit ==
  /\ -Limit <= torque.left /\ torque.left <= Limit
  /\ -Limit <= torque.right /\ torque.right <= Limit
  /\ torque.left + torque.right = 2 * torque.common

\* The reference never leaves what the strategy may ask for.
ReferenceWithinCommand == -VMax <= ref.v /\ ref.v <= VMax

\* However long the STATEs stayed away, the reference moves by no more than
\* one cut step allows: the first call after an outage is no speed step.
ReferenceSlews ==
  [][/\ ref'.v - ref.v <= Accel * MaxDt
     /\ ref.v - ref'.v <= Accel * MaxDt]_balanceVars

\* The whole law: motors and reference stay within their limits at every moment,
\* and the reference moves by one slew per call at most.
BalanceHolds == []MotorsWithinLimit /\ []ReferenceWithinCommand /\ ReferenceSlews

\* What the law keeps from call to call.
BalanceInv == BalanceTypeOK /\ MotorsWithinLimit /\ ReferenceWithinCommand
=============================================================================
