------------------------------- MODULE Pacer -------------------------------
(***************************************************************************)
(* RealTimePacer (include/ocudu_gpu_channel/pacing.h) and the way a node's *)
(* producer uses it: charge a window, sleep until it is due, push it,      *)
(* report it published.  The clock goes on between any two of these, so a  *)
(* sleep may end late and a push take time.  runtime.pacing is on: without *)
(* it the producer does not sleep.                                         *)
(*                                                                         *)
(* Times are whole nanoseconds; Second of them make a second and Unit      *)
(* stands for 1000000, so that small instances have remainders.            *)
(***************************************************************************)
EXTENDS Integers, TLAPS

CONSTANTS
  Second,    \* clock ticks per second (1e9)
  Rate,      \* rate_hz_
  Unit,      \* the million of parts per million
  Recovery,  \* pacing_recovery_ppm
  Budget,    \* burst_budget as given: the duration of a batch
  Windows,   \* the lengths of windows
  MaxPace    \* bound of the model on the clock

ASSUME PacerAssumption ==
  /\ Second \in Nat \ {0} /\ Rate \in Nat \ {0} /\ Unit \in Nat \ {0}
  /\ Recovery \in Nat /\ Budget \in Nat /\ MaxPace \in Nat
  /\ Windows \subseteq Nat \ {0}

VARIABLES
  steady,    \* steady_clock
  pacer,     \* the members of RealTimePacer, and where the producer is
  ledger     \* history: what was charged, and what was pushed since a push

paceVars == << steady, pacer, ledger >>

Larger(a, b) == IF a >= b THEN a ELSE b

\* recovery_denominator_
Fast == Unit + Recovery

\* burst_budget_: the budget in limiter time.
Credit == (Budget \div Fast) * Unit + ((Budget % Fast) * Unit) \div Fast

PaceInit ==
  /\ steady = 0
  /\ pacer = [pc |-> "charge", anchored |-> FALSE, due |-> 0,
              nominal |-> 0, remainder |-> 0, limiter |-> 0, recovery |-> 0,
              charged |-> 0, lag |-> 0]
  /\ ledger = [anchor |-> 0, total |-> 0, window |-> 0, before |-> 0,
               from |-> -1, carried |-> 0, spent |-> 0, signal |-> 0]

\* charge(), nominal clock: fractions of a nanosecond are carried on.
Fraction(count) == (count % Rate) * Second + pacer.remainder
NominalNs(count) == (count \div Rate) * Second + Fraction(count) \div Rate

\* charge(), limiter: the same at the recovery rate.
RecoveryFraction(ns) == (ns % Fast) * Unit + pacer.recovery
RecoveryNs(ns) == (ns \div Fast) * Unit + RecoveryFraction(ns) \div Fast

Nominal == IF pacer.anchored THEN pacer.nominal ELSE steady

\* The limiter, with the credit an idle time has left it.
Spendable == Larger(IF pacer.anchored THEN pacer.limiter ELSE steady, steady - Credit)

PaceCharge(count) ==
  LET ns == NominalNs(count)
  IN  /\ pacer.pc = "charge"
      /\ pacer' = [pc |-> "sleep", anchored |-> TRUE,
                   due |-> Larger(Nominal, Spendable),
                   nominal |-> Nominal + ns,
                   remainder |-> Fraction(count) % Rate,
                   limiter |-> Spendable + RecoveryNs(ns),
                   recovery |-> RecoveryFraction(ns) % Fast,
                   charged |-> RecoveryNs(ns),
                   lag |-> pacer.lag]
      /\ ledger' = [ledger EXCEPT !.anchor = IF pacer.anchored THEN @ ELSE steady,
                                  !.total = @ + count,
                                  !.window = ns,
                                  !.before = pacer.recovery]
      /\ UNCHANGED steady

\* The window is pushed to the RX rings once it is due; from some push on, the
\* history adds up what is pushed (any push may be chosen).
PacePush ==
  /\ pacer.pc = "sleep" /\ steady >= pacer.due
  /\ pacer' = [pacer EXCEPT !.pc = "pushed"]
  /\ \/ UNCHANGED ledger
     \/ ledger' = [ledger EXCEPT !.from = steady, !.carried = ledger.before,
                                 !.spent = 0, !.signal = 0]
  /\ UNCHANGED steady

\* Mutant of PacePublished: a push that overslept uses up nothing.
PacePublishedFresh ==
  /\ pacer.pc = "pushed"
  /\ pacer' = [pacer EXCEPT !.pc = "charge", !.lag = Larger(0, steady - pacer.nominal)]
  /\ ledger' = IF ledger.from = -1 THEN ledger
               ELSE [ledger EXCEPT !.spent = @ + pacer.charged, !.signal = @ + ledger.window]
  /\ UNCHANGED steady

\* published(): a late push uses up the credit it was late by.
PacePublished ==
  /\ pacer.pc = "pushed"
  /\ pacer' = [pacer EXCEPT
                 !.pc = "charge",
                 !.limiter = Larger(@, steady - Credit + pacer.charged),
                 !.lag = Larger(0, steady - pacer.nominal)]
  /\ ledger' = IF ledger.from = -1 THEN ledger
               ELSE [ledger EXCEPT !.spent = @ + pacer.charged, !.signal = @ + ledger.window]
  /\ UNCHANGED steady

PaceTick == steady < MaxPace /\ steady' = steady + 1 /\ UNCHANGED << pacer, ledger >>

PaceNext == (\E count \in Windows : PaceCharge(count)) \/ PacePush \/ PacePublished \/ PaceTick
PaceSpec == PaceInit /\ [][PaceNext]_paceVars
-----------------------------------------------------------------------------
PaceTypeOK ==
  /\ steady \in Nat
  /\ pacer \in [pc : {"charge", "sleep", "pushed"}, anchored : BOOLEAN, due : Int,
                nominal : Int, remainder : 0 .. Rate - 1, limiter : Int,
                recovery : 0 .. Fast - 1, charged : Nat, lag : Nat]
  /\ ledger \in [anchor : Nat, total : Nat, window : Nat, before : 0 .. Fast - 1,
                 from : Nat \cup {-1}, carried : 0 .. Fast - 1, spent : Nat, signal : Nat]

\* The nominal clock is the sample count, to the fraction: however a stream is
\* cut into windows and however late they are, it neither drifts nor is rebased.
NominalExact ==
  pacer.anchored =>
    Rate * (pacer.nominal - ledger.anchor) + pacer.remainder = Second * ledger.total

\* From any push to any later one, the signal time released is at most the burst
\* budget plus the time between them at the recovery rate (and one tick of
\* rounding), however long the producer stood still before, or overslept.
ReleaseBounded ==
  pacer.pc = "pushed" /\ ledger.from # -1 =>
    Unit * ledger.signal <= Fast * (steady - ledger.from) + Unit * Budget + Fast

\* What the pacer promises a lock-step radio.
PacerPaced == NominalExact /\ ReleaseBounded

(***************************************************************************)
(* Proofs.  PaceInv is what the two properties need to be inductive: what  *)
(* a window in flight was charged, what was charged since the mark, and    *)
(* how far behind the mark the limiter can be.                             *)
(***************************************************************************)
-----------------------------------------------------------------------------
\* Division with remainder, for positive divisors.
LEMMA Division ==
  ASSUME NEW a \in Nat, NEW d \in Nat \ {0}
  PROVE  /\ a \div d \in Nat
         /\ a % d \in 0 .. d - 1
         /\ a = d * (a \div d) + (a % d)
BY SMT

\* charge() loses nothing: dividing first and carrying the remainder r gives the
\* same as one exact division.
CarriedExactly(c, d, m, r) ==
  LET f == (c % d) * m + r
  IN  /\ (c \div d) * m + f \div d \in Nat
      /\ f % d \in 0 .. d - 1
      /\ d * ((c \div d) * m + f \div d) + (f % d) = c * m + r

LEMMA Carry ==
  ASSUME NEW c \in Nat, NEW d \in Nat \ {0}, NEW m \in Nat, NEW r \in Nat
  PROVE  CarriedExactly(c, d, m, r)
<1> DEFINE q == c \div d
           k == c % d
           f == k * m + r
<1>1. q \in Nat /\ k \in Nat /\ c = d * q + k
  BY Division
<1>2. k * m \in Nat /\ q * m \in Nat
  BY <1>1
<1>3. f \in Nat
  BY <1>2
<1> HIDE DEF f
<1>4. f \div d \in Nat /\ f % d \in 0 .. d - 1 /\ f = d * (f \div d) + (f % d)
  BY <1>3, Division
<1>5. d * (q * m + f \div d) = d * (q * m) + d * (f \div d)
  <2> DEFINE x == q * m
             y == f \div d
  <2>1. x \in Int /\ y \in Int /\ d \in Int
    BY <1>2, <1>4
  <2> HIDE DEF x, y
  <2>2. d * (x + y) = d * x + d * y
    BY <2>1
  <2> QED BY <2>2 DEF x, y
<1>6. d * (q * m) + k * m = c * m
  <2>1. d \in Int /\ q \in Int /\ m \in Int /\ k \in Int
    BY <1>1
  <2> HIDE DEF q, k
  <2>2. (d * q + k) * m = d * (q * m) + k * m
    BY <2>1
  <2> QED BY <2>2, <1>1
<1>7. f = k * m + r
  BY DEF f
<1>8. d * (q * m + f \div d) + (f % d) = c * m + r
  <2> DEFINE w == d * (q * m)
             v == d * (f \div d)
             u == k * m
             z == c * m
             e == f % d
             g == d * (q * m + f \div d)
  <2>1. w \in Int /\ v \in Int /\ u \in Int /\ z \in Int /\ e \in Int /\ f \in Int
    BY <1>1, <1>2, <1>3, <1>4
  <2>2. g = w + v /\ w + u = z /\ f = u + r /\ f = v + e
    BY <1>4, <1>5, <1>6, <1>7
  <2> HIDE DEF w, v, u, z, e, g, q, k
  <2>3. g + e = z + r
    BY <2>1, <2>2
  <2> QED BY <2>3 DEF g, e, z
<1>9. q * m + f \div d \in Nat
  BY <1>2, <1>4
<1> QED BY <1>4, <1>8, <1>9 DEF f, CarriedExactly

LEMMA CreditFacts ==
  Fast \in Nat \ {0} /\ Credit \in Nat /\ Fast * Credit <= Unit * Budget
<1>1. Fast \in Nat \ {0} /\ Unit \in Nat /\ Budget \in Nat
  BY PacerAssumption DEF Fast
<1> HIDE DEF Fast
<1> DEFINE f == (Budget % Fast) * Unit + 0
<1>2. /\ (Budget \div Fast) * Unit + f \div Fast \in Nat
      /\ f % Fast \in 0 .. Fast - 1
      /\ Fast * ((Budget \div Fast) * Unit + f \div Fast) + (f % Fast) = Budget * Unit + 0
  <2>1. CarriedExactly(Budget, Fast, Unit, 0)
    BY <1>1, Carry
  <2> QED BY <2>1 DEF CarriedExactly
<1>3. f = (Budget % Fast) * Unit
  BY <1>1, Division
<1> HIDE DEF f
<1>4. Credit = (Budget \div Fast) * Unit + f \div Fast
  BY <1>3 DEF Credit
<1> DEFINE g == Fast * Credit
           h == Budget * Unit
           e == f % Fast
<1>5. Credit \in Nat /\ g + e = h + 0 /\ e >= 0
  BY <1>1, <1>2, <1>4
<1>6. g \in Int /\ h \in Int /\ e \in Int /\ h = Unit * Budget
  BY <1>1, <1>2, <1>5
<1> HIDE DEF g, h, e
<1>7. g <= Unit * Budget
  BY <1>5, <1>6
<1> QED BY <1>1, <1>5, <1>7 DEF g

\* What charge() computes, in terms of what it is given.
LEMMA Charging ==
  ASSUME PaceTypeOK, NEW count \in Nat
  PROVE  /\ NominalNs(count) \in Nat
         /\ Fraction(count) % Rate \in 0 .. Rate - 1
         /\ Rate * NominalNs(count) + (Fraction(count) % Rate)
              = count * Second + pacer.remainder
<1>1. Rate \in Nat \ {0} /\ Second \in Nat /\ pacer.remainder \in Nat
  BY PacerAssumption DEF PaceTypeOK
<1>2. CarriedExactly(count, Rate, Second, pacer.remainder)
  BY <1>1, Carry
<1> QED BY <1>2 DEF CarriedExactly, NominalNs, Fraction

LEMMA Recovering ==
  ASSUME PaceTypeOK, NEW ns \in Nat
  PROVE  /\ RecoveryNs(ns) \in Nat
         /\ RecoveryFraction(ns) % Fast \in 0 .. Fast - 1
         /\ Fast * RecoveryNs(ns) + (RecoveryFraction(ns) % Fast)
              = ns * Unit + pacer.recovery
<1>1. Fast \in Nat \ {0} /\ Unit \in Nat /\ pacer.recovery \in Nat
  BY PacerAssumption, CreditFacts DEF PaceTypeOK
<1>2. CarriedExactly(ns, Fast, Unit, pacer.recovery)
  BY <1>1, Carry
<1> QED BY <1>2 DEF CarriedExactly, RecoveryNs, RecoveryFraction

\* Before the first charge nothing has been counted.
Unanchored ==
  ~pacer.anchored =>
    pacer.pc = "charge" /\ ledger.from = -1 /\ ledger.total = 0 /\ pacer.remainder = 0

\* A window in flight was charged its signal time at the recovery rate.
ChargedExact ==
  pacer.pc # "charge" =>
    Unit * ledger.window + ledger.before = Fast * pacer.charged + pacer.recovery

\* What was pushed since the mark was charged to the limiter at the same rate.
SpentExact ==
  ledger.from # -1 =>
    Unit * ledger.signal + ledger.carried =
      Fast * ledger.spent + (IF pacer.pc = "charge" THEN pacer.recovery ELSE ledger.before)

\* The limiter is never further behind the mark than the credit allows.
LimiterHolds ==
  ledger.from # -1 =>
    LET spent == ledger.from - Credit + ledger.spent
    IN  /\ ledger.from <= steady
        /\ pacer.pc = "charge" => pacer.limiter >= spent
        /\ pacer.pc = "sleep" => pacer.due >= spent /\ pacer.limiter >= spent + pacer.charged
        /\ pacer.pc = "pushed" =>
             /\ steady >= spent
             /\ pacer.limiter >= spent + pacer.charged \/ ledger.spent = 0

PaceInv ==
  PaceTypeOK /\ NominalExact /\ Unanchored /\ ChargedExact /\ SpentExact /\ LimiterHolds

LEMMA PaceInitial == PaceInit => PaceInv
<1> SUFFICES ASSUME PaceInit PROVE PaceInv
  OBVIOUS
<1>1. Rate \in Nat \ {0} /\ Fast \in Nat \ {0}
  BY PacerAssumption, CreditFacts
<1> QED BY <1>1 DEF PaceInit, PaceInv, PaceTypeOK, NominalExact, Unanchored, ChargedExact,
              SpentExact, LimiterHolds

LEMMA ChargeStep ==
  ASSUME PaceInv, NEW count \in Windows, PaceCharge(count)
  PROVE  PaceInv'
<1> DEFINE ns == NominalNs(count)
           paid == RecoveryNs(ns)
           rest == Fraction(count) % Rate
           left == RecoveryFraction(ns) % Fast
<1>1. count \in Nat \ {0} /\ Rate \in Nat \ {0} /\ Second \in Nat /\ Unit \in Nat
  BY PacerAssumption
<1>2. PaceTypeOK /\ pacer.pc = "charge"
  BY DEF PaceInv, PaceCharge
<1>3. Fast \in Nat \ {0} /\ Credit \in Nat
  BY CreditFacts
<1>4. /\ ns \in Nat /\ rest \in 0 .. Rate - 1
      /\ Rate * ns + rest = count * Second + pacer.remainder
  BY <1>1, <1>2, Charging
<1>5. /\ paid \in Nat /\ left \in 0 .. Fast - 1
      /\ Fast * paid + left = ns * Unit + pacer.recovery
  BY <1>2, <1>4, Recovering
<1> HIDE DEF ns, paid, rest, left
<1>6. /\ steady' = steady
      /\ pacer' = [pc |-> "sleep", anchored |-> TRUE, due |-> Larger(Nominal, Spendable),
                   nominal |-> Nominal + ns, remainder |-> rest,
                   limiter |-> Spendable + paid, recovery |-> left, charged |-> paid,
                   lag |-> pacer.lag]
      /\ ledger' = [ledger EXCEPT !.anchor = IF pacer.anchored THEN @ ELSE steady,
                                  !.total = @ + count, !.window = ns,
                                  !.before = pacer.recovery]
  BY DEF PaceCharge, ns, paid, rest, left
<1>7. /\ Nominal \in Int /\ Spendable \in Int
      /\ pacer.anchored => Nominal = pacer.nominal /\ Spendable >= pacer.limiter
      /\ ~pacer.anchored => Nominal = steady
  BY <1>2, <1>3 DEF PaceTypeOK, Nominal, Spendable, Larger
<1> HIDE DEF Nominal, Spendable
<1>8. PaceTypeOK'
  <2>1. /\ Larger(Nominal, Spendable) \in Int /\ Nominal + ns \in Int
        /\ Spendable + paid \in Int
    BY <1>4, <1>5, <1>7 DEF Larger
  <2>2. pacer' \in [pc : {"charge", "sleep", "pushed"}, anchored : BOOLEAN, due : Int,
                    nominal : Int, remainder : 0 .. Rate - 1, limiter : Int,
                    recovery : 0 .. Fast - 1, charged : Nat, lag : Nat]
    BY <1>2, <1>4, <1>5, <1>6, <2>1 DEF PaceTypeOK
  <2>3. /\ ledger.total + count \in Nat /\ steady \in Nat /\ ledger.anchor \in Nat
        /\ pacer.recovery \in 0 .. Fast - 1
    BY <1>1, <1>2 DEF PaceTypeOK
  <2>4. ledger' \in [anchor : Nat, total : Nat, window : Nat, before : 0 .. Fast - 1,
                     from : Nat \cup {-1}, carried : 0 .. Fast - 1, spent : Nat, signal : Nat]
    BY <1>2, <1>4, <1>6, <2>3 DEF PaceTypeOK
  <2> QED BY <1>2, <1>6, <2>2, <2>4 DEF PaceTypeOK
<1>9. NominalExact'
  <2>1. Rate * (Nominal - ledger'.anchor) + pacer.remainder = Second * ledger.total
    <3>1. CASE pacer.anchored
      BY <1>2, <1>6, <1>7, <3>1 DEF PaceInv, NominalExact, PaceTypeOK
    <3>2. CASE ~pacer.anchored
      BY <1>1, <1>2, <1>6, <1>7, <3>2 DEF PaceInv, Unanchored, PaceTypeOK
    <3> QED BY <3>1, <3>2
  <2>2. ledger'.total = ledger.total + count /\ ledger'.anchor \in Nat /\ ledger.total \in Nat
        /\ pacer.remainder \in Int
    BY <1>1, <1>2, <1>6 DEF PaceTypeOK
  <2>3. Rate * (Nominal + ns - ledger'.anchor) = Rate * (Nominal - ledger'.anchor) + Rate * ns
    BY <1>1, <1>4, <1>7, <2>2
  <2>4. Second * (ledger.total + count) = Second * ledger.total + count * Second
    BY <1>1, <2>2
  <2>5. Rate * (Nominal + ns - ledger'.anchor) + rest = Second * (ledger.total + count)
    <3> DEFINE a == Rate * (Nominal - ledger'.anchor)
               b == Rate * ns
               c == Second * ledger.total
               d == count * Second
    <3>1. a \in Int /\ b \in Int /\ c \in Int /\ d \in Int /\ rest \in Int
      BY <1>1, <1>4, <1>7, <2>2
    <3>2. a + pacer.remainder = c /\ b + rest = d + pacer.remainder
      BY <1>4, <2>1
    <3> HIDE DEF a, b, c, d
    <3>3. a + b + rest = c + d
      BY <2>2, <3>1, <3>2
    <3> QED BY <2>3, <2>4, <3>3 DEF a, b, c, d
  <2>6. /\ pacer'.nominal = Nominal + ns /\ pacer'.remainder = rest
        /\ ledger'.total = ledger.total + count
    BY <1>6, <2>2
  <2>7. Rate * (pacer'.nominal - ledger'.anchor) + pacer'.remainder = Second * ledger'.total
    BY <1>1, <1>4, <1>7, <2>2, <2>5, <2>6
  <2> QED BY <2>7 DEF NominalExact
<1>10. Unanchored'
  BY <1>6 DEF Unanchored
<1>11. ChargedExact'
  <2>1. ledger'.window = ns /\ ledger'.before = pacer.recovery
    BY <1>2, <1>6 DEF PaceTypeOK
  <2>2. Unit * ns = ns * Unit
    BY <1>1, <1>4
  <2> QED BY <1>5, <1>6, <2>1, <2>2 DEF ChargedExact
<1>12. SpentExact'
  <2>1. /\ ledger'.from = ledger.from /\ ledger'.signal = ledger.signal
        /\ ledger'.carried = ledger.carried /\ ledger'.spent = ledger.spent
        /\ ledger'.before = pacer.recovery
    BY <1>2, <1>6 DEF PaceTypeOK
  <2> QED BY <1>2, <1>6, <2>1 DEF PaceInv, SpentExact
<1>13. LimiterHolds'
  <2>1. ledger'.from = ledger.from /\ ledger'.spent = ledger.spent
    BY <1>2, <1>6 DEF PaceTypeOK
  <2>2. ledger.from # -1 => pacer.anchored
    BY DEF PaceInv, Unanchored
  <2>3. ledger.from # -1 => Spendable >= ledger.from - Credit + ledger.spent
    BY <1>2, <1>3, <1>7, <2>2 DEF PaceInv, LimiterHolds, PaceTypeOK
  <2> QED BY <1>2, <1>3, <1>5, <1>6, <1>7, <2>1, <2>3
          DEF PaceInv, LimiterHolds, PaceTypeOK, Larger
<1> QED BY <1>8, <1>9, <1>10, <1>11, <1>12, <1>13 DEF PaceInv

LEMMA PushStep ==
  ASSUME PaceInv, PacePush
  PROVE  PaceInv'
<1>1. PaceTypeOK /\ Credit \in Nat /\ Fast \in Nat \ {0} /\ Unit \in Nat
  BY PacerAssumption, CreditFacts DEF PaceInv
<1>2. /\ pacer.pc = "sleep" /\ steady >= pacer.due /\ steady' = steady
      /\ pacer' = [pacer EXCEPT !.pc = "pushed"]
  BY DEF PacePush
<1>3. pacer.anchored /\ steady \in Nat
  BY <1>1, <1>2 DEF PaceInv, Unanchored, PaceTypeOK
<1>4. CASE ledger' = ledger
  <2>1. PaceTypeOK'
    BY <1>1, <1>2, <1>4 DEF PaceTypeOK
  <2>2. NominalExact' /\ Unanchored' /\ ChargedExact' /\ SpentExact'
    BY <1>1, <1>2, <1>3, <1>4
       DEF PaceInv, NominalExact, Unanchored, ChargedExact, SpentExact, PaceTypeOK
  <2>3. LimiterHolds'
    BY <1>1, <1>2, <1>4 DEF PaceInv, LimiterHolds, PaceTypeOK
  <2> QED BY <2>1, <2>2, <2>3 DEF PaceInv
<1>5. CASE ledger' = [ledger EXCEPT !.from = steady, !.carried = ledger.before,
                                    !.spent = 0, !.signal = 0]
  <2>1. PaceTypeOK'
    BY <1>1, <1>2, <1>5 DEF PaceTypeOK
  <2>2. NominalExact' /\ Unanchored' /\ ChargedExact'
    BY <1>1, <1>2, <1>3, <1>5
       DEF PaceInv, NominalExact, Unanchored, ChargedExact, PaceTypeOK
  <2>3. SpentExact'
    <3>1. /\ ledger'.signal = 0 /\ ledger'.spent = 0 /\ ledger'.carried = ledger.before
          /\ ledger'.before = ledger.before /\ pacer'.pc = "pushed" /\ ledger.before \in Nat
      BY <1>1, <1>2, <1>5 DEF PaceTypeOK
    <3>2. Unit * 0 = 0 /\ Fast * 0 = 0
      BY <1>1
    <3> QED BY <3>1, <3>2 DEF SpentExact
  <2>4. LimiterHolds'
    BY <1>1, <1>2, <1>3, <1>5 DEF LimiterHolds, PaceTypeOK
  <2> QED BY <2>1, <2>2, <2>3, <2>4 DEF PaceInv
<1> QED BY <1>4, <1>5 DEF PacePush

LEMMA PublishedStep ==
  ASSUME PaceInv, PacePublished
  PROVE  PaceInv'
<1>1. PaceTypeOK /\ Credit \in Nat /\ Fast \in Nat \ {0} /\ Unit \in Nat
  BY PacerAssumption, CreditFacts DEF PaceInv
<1> DEFINE limit == Larger(pacer.limiter, steady - Credit + pacer.charged)
           lag == Larger(0, steady - pacer.nominal)
<1>2. /\ limit \in Int /\ lag \in Nat
      /\ limit >= pacer.limiter /\ limit >= steady - Credit + pacer.charged
  BY <1>1 DEF PaceTypeOK, Larger
<1> HIDE DEF limit, lag
<1>3. /\ pacer.pc = "pushed" /\ steady' = steady
      /\ pacer' = [pacer EXCEPT !.pc = "charge", !.limiter = limit, !.lag = lag]
      /\ ledger' = IF ledger.from = -1 THEN ledger
                   ELSE [ledger EXCEPT !.spent = @ + pacer.charged,
                                       !.signal = @ + ledger.window]
  BY DEF PacePublished, limit, lag
<1>4. pacer.anchored
  BY <1>3 DEF PaceInv, Unanchored
<1>5. PaceTypeOK'
  <2>1. CASE ledger.from = -1
    BY <1>1, <1>2, <1>3, <2>1 DEF PaceTypeOK
  <2>2. CASE ledger.from # -1
    <3>1. pacer' \in [pc : {"charge", "sleep", "pushed"}, anchored : BOOLEAN, due : Int,
                      nominal : Int, remainder : 0 .. Rate - 1, limiter : Int,
                      recovery : 0 .. Fast - 1, charged : Nat, lag : Nat]
      BY <1>1, <1>2, <1>3 DEF PaceTypeOK
    <3>2. ledger.spent + pacer.charged \in Nat /\ ledger.signal + ledger.window \in Nat
      BY <1>1 DEF PaceTypeOK
    <3>3. ledger' \in [anchor : Nat, total : Nat, window : Nat, before : 0 .. Fast - 1,
                       from : Nat \cup {-1}, carried : 0 .. Fast - 1, spent : Nat,
                       signal : Nat]
      BY <1>1, <1>3, <2>2, <3>2 DEF PaceTypeOK
    <3> QED BY <1>1, <1>3, <3>1, <3>3 DEF PaceTypeOK
  <2> QED BY <2>1, <2>2
<1>6. NominalExact' /\ Unanchored' /\ ChargedExact'
  BY <1>1, <1>3, <1>4 DEF PaceInv, NominalExact, Unanchored, ChargedExact, PaceTypeOK
<1>7. CASE ledger.from = -1
  BY <1>3, <1>5, <1>6, <1>7 DEF PaceInv, SpentExact, LimiterHolds
<1>8. CASE ledger.from # -1
  <2>1. /\ ledger'.from = ledger.from /\ ledger'.spent = ledger.spent + pacer.charged
        /\ ledger'.signal = ledger.signal + ledger.window
        /\ ledger'.carried = ledger.carried /\ pacer'.pc = "charge"
        /\ pacer'.recovery = pacer.recovery /\ pacer'.limiter = limit
    BY <1>1, <1>3, <1>8 DEF PaceTypeOK
  <2>2. /\ ledger.from \in Nat /\ ledger.spent \in Nat /\ ledger.signal \in Nat
        /\ ledger.window \in Nat /\ ledger.carried \in Nat /\ ledger.before \in Nat
        /\ pacer.charged \in Nat /\ pacer.recovery \in Nat /\ pacer.limiter \in Int
        /\ steady \in Nat
    BY <1>1, <1>8 DEF PaceTypeOK
  <2>3. SpentExact'
    <3> DEFINE a == Unit * ledger.signal
               b == Unit * ledger.window
               c == Fast * ledger.spent
               d == Fast * pacer.charged
    <3>1. a \in Int /\ b \in Int /\ c \in Int /\ d \in Int
      BY <1>1, <2>2
    <3>2. /\ b + ledger.before = d + pacer.recovery
          /\ a + ledger.carried = c + ledger.before
      BY <1>3, <1>8 DEF PaceInv, ChargedExact, SpentExact
    <3>3. /\ Unit * (ledger.signal + ledger.window) = a + b
          /\ Fast * (ledger.spent + pacer.charged) = c + d
      BY <1>1, <2>2
    <3> HIDE DEF a, b, c, d
    <3>4. a + b + ledger.carried = c + d + pacer.recovery
      BY <2>2, <3>1, <3>2
    <3> QED BY <2>1, <3>3, <3>4 DEF SpentExact
  <2>4. LimiterHolds'
    BY <1>1, <1>2, <1>3, <1>8, <2>1, <2>2 DEF PaceInv, LimiterHolds
  <2> QED BY <1>5, <1>6, <2>3, <2>4 DEF PaceInv
<1> QED BY <1>7, <1>8

LEMMA TickStep ==
  ASSUME PaceInv, PaceTick
  PROVE  PaceInv'
<1>1. PaceTypeOK /\ Credit \in Nat
  BY CreditFacts DEF PaceInv
<1>2. steady' = steady + 1 /\ pacer' = pacer /\ ledger' = ledger
  BY DEF PaceTick
<1>3. PaceTypeOK'
  BY <1>1, <1>2 DEF PaceTypeOK
<1>4. LimiterHolds'
  BY <1>1, <1>2 DEF PaceInv, LimiterHolds, PaceTypeOK
<1> QED BY <1>2, <1>3, <1>4
        DEF PaceInv, NominalExact, Unanchored, ChargedExact, SpentExact

LEMMA PaceInvariant == PaceSpec => []PaceInv
<1>1. PaceInv /\ [PaceNext]_paceVars => PaceInv'
  <2> SUFFICES ASSUME PaceInv, [PaceNext]_paceVars PROVE PaceInv'
    OBVIOUS
  <2>1. ASSUME NEW count \in Windows, PaceCharge(count) PROVE PaceInv'
    BY <2>1, ChargeStep
  <2>2. CASE PacePush
    BY <2>2, PushStep
  <2>3. CASE PacePublished
    BY <2>3, PublishedStep
  <2>4. CASE PaceTick
    BY <2>4, TickStep
  <2>5. CASE UNCHANGED paceVars
    BY <2>5 DEF paceVars, PaceInv, PaceTypeOK, NominalExact, Unanchored, ChargedExact,
                SpentExact, LimiterHolds
  <2> QED BY <2>1, <2>2, <2>3, <2>4, <2>5 DEF PaceNext
<1> QED BY PaceInitial, <1>1, PTL DEF PaceSpec

\* The bound on what is released follows: the limiter kept the push back, what it
\* was charged is the signal time, and the credit is the budget at the same rate.
LEMMA Bounded == PaceInv => ReleaseBounded
<1> SUFFICES ASSUME PaceInv, pacer.pc = "pushed", ledger.from # -1
             PROVE  Unit * ledger.signal
                      <= Fast * (steady - ledger.from) + Unit * Budget + Fast
  BY DEF ReleaseBounded
<1> DEFINE a == Unit * ledger.signal
           c == Fast * ledger.spent
           w == Fast * (steady - ledger.from)
           k == Fast * Credit
           u == Unit * Budget
<1>1. /\ Fast \in Nat \ {0} /\ Credit \in Nat /\ k <= u /\ Unit \in Nat /\ Budget \in Nat
  BY PacerAssumption, CreditFacts
<1>2. /\ ledger.from \in Nat /\ ledger.spent \in Nat /\ ledger.signal \in Nat
      /\ ledger.carried \in Nat /\ ledger.before \in 0 .. Fast - 1 /\ steady \in Nat
  BY <1>1 DEF PaceInv, PaceTypeOK
<1>3. a + ledger.carried = c + ledger.before
  BY DEF PaceInv, SpentExact
<1>4. ledger.spent <= (steady - ledger.from) + Credit
  BY <1>1, <1>2 DEF PaceInv, LimiterHolds
<1>5. c <= w + k
  <2> DEFINE x == steady - ledger.from
  <2>1. x \in Int /\ x + Credit \in Int
    BY <1>1, <1>2
  <2> HIDE DEF x
  <2>2. Fast * (x + Credit) = Fast * x + Fast * Credit
    BY <1>1, <2>1
  <2>3. ledger.spent <= x + Credit
    BY <1>4 DEF x
  <2>4. Fast * ledger.spent <= Fast * (x + Credit)
    BY <1>1, <1>2, <2>1, <2>3
  <2> QED BY <2>2, <2>4 DEF x
<1>6. a \in Int /\ c \in Int /\ w \in Int /\ k \in Int /\ u \in Int
  BY <1>1, <1>2
<1> HIDE DEF a, c, w, k, u
<1>7. a <= w + u + Fast
  BY <1>1, <1>2, <1>3, <1>5, <1>6
<1> QED BY <1>7 DEF a, w, u

\* What charge() and published() promise together, for every rate, burst budget,
\* recovery ppm and choice of windows: the nominal clock is exact, and no
\* stretch of time sees more released than the budget and the recovery rate allow.
THEOREM PacerKeepsPace == PaceSpec => []PacerPaced
<1>1. PaceInv => PacerPaced
  BY Bounded DEF PaceInv, PacerPaced
<1> QED BY PaceInvariant, <1>1, PTL
=============================================================================
