----------------------------- MODULE BrainPolicy -----------------------------
(***************************************************************************)
(* The two sumo policies of the robot-fight brain (use_cases/robot_fight/  *)
(* brain.py): `reactive' with its reflexes and `pusher' with its back-off. *)
(* Each is a function of the newest STATE with a memory that lives across  *)
(* calls, timed by the arena's clock: two STATEs may lie any time apart up *)
(* to MaxStep.  Where the robots are is reduced to what the policies ask   *)
(* of it; a STATE is any combination of answers the geometry allows.       *)
(***************************************************************************)
EXTENDS Integers, FiniteSets

CONSTANTS
  MaxStep,                  \* bound on the time between two STATEs used
  HeadOn, Disengage,        \* head_on_s, disengage_s
  Escape, Dodge,            \* escape_s, dodge_s
  Stall, Backoff,           \* stall_s, backoff_s
  MaxMoment                   \* bound on the arena's clock

ASSUME PolicyAssumption ==
  {MaxStep, HeadOn, Disengage, Escape, Dodge, Stall, Backoff, MaxMoment} \subseteq Nat \ {0}

VARIABLES
  policy,    \* "reactive" or "pusher"
  t,         \* sim_time_s of the STATE in hand
  mem,       \* params["_mem"]
  did,       \* what the last call made the robot do
  past       \* history, see Remember

policyVars == << policy, t, mem, did, past >>

None == -1

\* The answers: `pushed' is in contact, closed on, near the edge and faced;
\* `edge' is heading outward too fast to stop, not while being shoved;
\* `charged' is the opponent coming straight on; `headOn' each facing the
\* other in contact; `side' the opponent's side within reach.
Views ==
  {v \in [contact : BOOLEAN, pushed : BOOLEAN, edge : BOOLEAN, charged : BOOLEAN,
          headOn : BOOLEAN, side : BOOLEAN] :
     /\ v.pushed => v.contact /\ ~v.edge
     /\ v.charged => ~v.contact /\ ~v.side
     /\ v.headOn => v.contact /\ ~v.side}

PolicyInit ==
  /\ policy \in {"reactive", "pusher"}
  /\ t = 0
  /\ mem = [mode |-> "none", until |-> 0, side |-> 1, since |-> None]
  /\ did = "nothing"
  /\ past = [firm |-> None, begun |-> 0, back |-> FALSE]

(***************************************************************************)
(* reactive: its rules in their order, each with what it leaves in memory. *)
(***************************************************************************)

Reflex(m, mode, until) == [m EXCEPT !.mode = mode, !.until = until]

\* Mutant of ReflexOver: every reflex switches the flank.
ReflexOverAny(m) == [m EXCEPT !.mode = "none", !.since = None, !.side = -@]

\* A reflex whose time has come; a disengagement switches the flank.
ReflexOver(m) ==
  [m EXCEPT !.mode = "none", !.since = None, !.side = IF m.mode = "disengage" THEN -@ ELSE @]

\* When the head-on shove in hand began.
Shoving(m, v) ==
  IF ~v.headOn THEN [m EXCEPT !.since = None]
  ELSE IF m.since = None THEN [m EXCEPT !.since = t] ELSE m

Overdue(m) == m.since # None /\ t - m.since > HeadOn

Reactive(m, v) ==
  IF m.mode # "none" /\ t < m.until THEN << m.mode, m >>
  ELSE LET n == IF m.mode # "none" THEN ReflexOver(m) ELSE m IN
    IF v.pushed THEN << "escape", Reflex(n, "escape", t + Escape) >>
    ELSE IF v.edge THEN << "brake", n >>
    ELSE IF v.charged THEN << "dodge", Reflex(n, "dodge", t + Dodge) >>
    ELSE IF v.headOn /\ Overdue(n)
         THEN << "disengage", [Reflex(n, "disengage", t + Disengage) EXCEPT !.since = None] >>
    ELSE << IF v.side THEN "push" ELSE "flank", Shoving(n, v) >>

(***************************************************************************)
(* pusher: in contact for too long, back off, then come from the other     *)
(* side.  The call that decides to back off still drives on.               *)
(***************************************************************************)

BackoffOver(m) == [m EXCEPT !.mode = "none", !.since = None, !.side = -@]

Stalled(m, v) ==
  IF ~v.contact THEN [m EXCEPT !.since = None]
  ELSE IF m.since = None THEN [m EXCEPT !.since = t]
  ELSE IF t - m.since > Stall
       THEN [Reflex(m, "backoff", t + Backoff) EXCEPT !.since = None]
  ELSE m

Pusher(m, v) ==
  IF m.mode = "backoff" /\ t < m.until THEN << "backoff", m >>
  ELSE << "drive", Stalled(IF m.mode = "backoff" THEN BackoffOver(m) ELSE m, v) >>

(***************************************************************************)
(* A call.                                                                 *)
(***************************************************************************)

\* firm: since when every STATE answered showed the contact the policy watches,
\* no reflex in between and whatever the STATEs showed that were answered with a
\* brake; begun: retreats begun; back: whether the robot was driven backward
\* since the last one began.
Remember(v, result) ==
  LET watched == IF policy = "reactive" THEN v.headOn ELSE v.contact
      n == result[2]
      begins == n.mode \in {"disengage", "backoff"} /\ mem.mode # n.mode
      Since(x) == IF ~watched \/ n.mode # "none" THEN None ELSE IF x = None THEN t ELSE x
  IN  [firm |-> IF result[1] = "brake" THEN past.firm ELSE Since(past.firm),
       begun |-> past.begun + (IF begins THEN 1 ELSE 0),
       back |-> result[1] \in {"disengage", "backoff"} \/ (past.back /\ ~begins)]

Call(v) ==
  LET result == IF policy = "reactive" THEN Reactive(mem, v) ELSE Pusher(mem, v)
  IN  /\ did' = result[1]
      /\ mem' = result[2]
      /\ past' = Remember(v, result)
      /\ UNCHANGED << policy, t >>

\* The brain answers the newest STATE it has; some are never answered.
NewerState ==
  /\ did # "nothing"
  /\ \E d \in 0 .. MaxStep : t + d <= MaxMoment /\ t' = t + d
  /\ did' = "nothing"
  /\ UNCHANGED << policy, mem, past >>

AnswerState == did = "nothing" /\ \E v \in Views : Call(v)

PolicyNext == NewerState \/ AnswerState

PolicySpec == PolicyInit /\ [][PolicyNext]_policyVars

(***************************************************************************)
(* Properties.                                                             *)
(***************************************************************************)

\* The flank is switched once for every retreat that is over, and by nothing
\* else: not by the other reflexes, and not by a retreat cut short.
FlankByRetreats ==
  mem.side = IF (past.begun - (IF mem.mode \in {"disengage", "backoff"} THEN 1 ELSE 0)) % 2 = 0
             THEN 1 ELSE -1

\* A robot does not push head-on (or in contact) for longer than it should:
\* no call drives on once the contact has lasted too long.
ShoveBounded ==
  /\ (did \in {"push", "flank"} /\ past.firm # None) => t - past.firm <= HeadOn
  /\ (did = "drive" /\ past.firm # None) => t - past.firm <= Stall

\* A retreat follows a contact that lasted: every STATE answered since its
\* begin showed it, but for those answered with a brake.
RetreatEarned ==
  [][mem'.mode \in {"disengage", "backoff"} /\ mem.mode # mem'.mode =>
       /\ past.firm # None
       /\ t - past.firm > IF policy = "reactive" THEN HeadOn ELSE Stall]_policyVars

\* The flank is switched only after the robot has in fact been driven
\* backward, though the pusher's deciding call still drives on.
FlankAfterRetreat == [][mem'.side # mem.side => past.back]_policyVars

\* The reflexes of both policies over any sequence of contacts and moments
\* (reactive, pusher): a shove ends, a retreat is earned, and the
\* flank follows the retreats alone.
ReflexesBounded ==
  [](FlankByRetreats /\ ShoveBounded) /\ RetreatEarned /\ FlankAfterRetreat

(***************************************************************************)
(* What makes it inductive.                                                *)
(***************************************************************************)
Moves == {"nothing", "escape", "brake", "dodge", "disengage", "push", "flank", "backoff", "drive"}

PolicyTypes ==
  /\ policy \in {"reactive", "pusher"} /\ t \in Nat /\ did \in Moves
  /\ mem \in [mode : {"none", "escape", "dodge", "disengage", "backoff"}, until : Int,
              side : {1, -1}, since : Int]
  /\ past \in [firm : Int, begun : Nat, back : BOOLEAN]
  /\ IF policy = "reactive" THEN mem.mode # "backoff" ELSE mem.mode \in {"none", "backoff"}

\* The policy's own timer is right whenever no reflex is in progress.
TimerRight == IF mem.mode = "none" THEN mem.since = past.firm ELSE past.firm = None

\* A retreat in progress has driven the robot backward, or it was decided by the
\* last call and its time cannot be over at the next one.
RetreatDriven ==
  /\ mem.mode = "disengage" => past.back
  /\ mem.mode = "backoff" /\ ~past.back =>
       t + Backoff <= mem.until + (IF did = "nothing" THEN MaxStep ELSE 0)

PolicyInv == PolicyTypes /\ TimerRight /\ RetreatDriven /\ FlankByRetreats /\ ShoveBounded
=============================================================================
