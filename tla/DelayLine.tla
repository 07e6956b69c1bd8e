------------------------------ MODULE DelayLine ------------------------------
(***************************************************************************)
(* Delay compensation of the balance policy (balance_comp in               *)
(* use_cases/robot_fight/brain.py) in the closed loop of offline_loop.py:  *)
(* STATEs and commands travel an ideal delay line, the policy predicts     *)
(* from the STATE in hand to the landing of its next command with the      *)
(* torques it has sent, and the arena applies the newest landed command    *)
(* while it is fresh.  A torque is the time its command was sent.          *)
(***************************************************************************)
EXTENDS Integers, Sequences, FiniteSets, FiniteSetsExt

CONSTANTS
  Delays,      \* one-way delays
  StateEvery,  \* steps between two STATEs
  CtrlEvery,   \* steps between two commands
  Ttl,         \* steps a landed command stays fresh
  HistLen,     \* commands the policy remembers (cmd_hist)
  MaxHorizon,  \* max_horizon_ms
  Blackouts,   \* lengths of the blackout
  Duration     \* bound: steps of the run

ASSUME DelayAssumption ==
  /\ {StateEvery, CtrlEvery, HistLen, Duration} \subseteq Nat \ {0}
  /\ {Ttl, MaxHorizon} \subseteq Nat /\ Delays \subseteq Nat /\ Blackouts \subseteq Nat
  /\ CtrlEvery <= Ttl

VARIABLES
  tau,       \* the delay of this run
  dark,      \* the blackout, [from, to)
  step,      \* data.time
  stateLine,    \* the STATEs under way, each << lands, sampled >>
  torques,      \* the commands under way, each << lands, torque >>
  last,      \* the STATE in the brain's hand
  hist,      \* the policy's command history: send times
  cur,       \* the newest landed command
  applied,   \* history: the torque applied at every step
  watch      \* history: one prediction, picked among all

delayVars == << tau, dark, step, stateLine, torques, last, hist, cur, applied, watch >>

NoTorque == -1      \* no torque, no STATE
Steps == 0 .. Duration - 1

DelayInit ==
  /\ tau \in Delays
  /\ \E from \in Steps, length \in Blackouts : dark = [from |-> from, to |-> from + length]
  /\ step = 0
  /\ stateLine = << >> /\ torques = << >> /\ hist = << >>
  /\ last = NoTorque
  /\ cur = [lands |-> NoTorque, torque |-> NoTorque]
  /\ applied = [t \in {} |-> NoTorque]
  /\ watch = [from |-> 0, torque |-> << >>]

Dark(t) == dark.from <= t /\ t < dark.to

\* The deque after everything landed by t has been popped.
Flying(queue, t) == SelectSeq(queue, LAMBDA x : x[1] > t)
Landed(queue, t) == SelectSeq(queue, LAMBDA x : x[1] <= t)

\* cmd_one_way_us as the offline loop tells it.
Flight == tau

\* Mutant of TorqueAt: the first landed command instead of the newest.
TorqueAtFirst(h, t) ==
  LET landed == {k \in DOMAIN h : h[k] + Flight <= t}
  IN  IF landed = {} THEN NoTorque ELSE h[Min(landed)]

\* torque_at: the newest command landed by t, none before the first.
TorqueAt(h, t) ==
  LET landed == {k \in DOMAIN h : h[k] + Flight <= t}
  IN  IF landed = {} THEN NoTorque ELSE h[Max(landed)]

\* The prediction from the STATE in hand to where the next command lands.
Horizon(sampled) == Max({0, Min({MaxHorizon, step + Flight - sampled})})

Predict(sampled) ==
  [from |-> sampled,
   torque |-> [k \in 1 .. Horizon(sampled) |-> TorqueAt(hist, sampled + k - 1)]]

\* cmd_hist is a deque with a maximal length.
Remembered(h) ==
  IF Len(h) < HistLen THEN Append(h, step) ELSE Append(Tail(h), step)

\* One pass of the loop over data.time.
LoopPass ==
  /\ step < Duration
  /\ LET sent == IF step % StateEvery = 0 /\ ~Dark(step)
                 THEN Append(stateLine, << step + tau, step >>) ELSE stateLine
         heard == Landed(sent, step)
         inHand == IF heard = << >> THEN last ELSE heard[Len(heard)][2]
         control == step % CtrlEvery = 0 /\ inHand # NoTorque
         flying == IF control /\ ~Dark(step) THEN Append(torques, << step + tau, step >>) ELSE torques
         arrived == Landed(flying, step)
         newest == IF arrived = << >> THEN cur
                   ELSE [lands |-> arrived[Len(arrived)][1], torque |-> arrived[Len(arrived)][2]]
     IN  /\ stateLine' = Flying(sent, step)
         /\ last' = inHand
         /\ hist' = IF control THEN Remembered(hist) ELSE hist
         /\ torques' = Flying(flying, step)
         /\ cur' = newest
         /\ applied' = [t \in DOMAIN applied \cup {step} |->
              IF t < step THEN applied[t]
              ELSE IF newest.lands # NoTorque /\ step - newest.lands <= Ttl THEN newest.torque
              ELSE NoTorque]
         /\ IF control /\ watch.torque = << >>
            THEN watch' \in {watch, Predict(inHand)} ELSE UNCHANGED watch
  /\ step' = step + 1
  /\ UNCHANGED << tau, dark >>

DelaySpec == DelayInit /\ [][LoopPass]_delayVars

\* What the policy assumes of every step between the STATE it starts from and
\* the landing of its next command is what the arena applies there, unless the
\* assumed command was sent into the blackout.
PredictionExact ==
  \A k \in DOMAIN watch.torque :
    LET t == watch.from + k - 1 IN
      t < step => \/ watch.torque[k] = applied[t]
                  \/ watch.torque[k] # NoTorque /\ Dark(watch.torque[k])

\* A prediction reaches to where the command computed from it lands: after it
\* there is nothing left to guess, as long as the horizon limit allows.
PredictionReaches ==
  watch.torque # << >> /\ Len(watch.torque) < MaxHorizon =>
    \E now \in 0 .. step : now % CtrlEvery = 0 /\ watch.from + Len(watch.torque) = now + tau

\* The compensated policy predicts from the commands that are in force, as far
\* as the landing of its next one (torque_at, balance_comp).
PredictionHolds == PredictionExact /\ PredictionReaches
=============================================================================
