------------------------- MODULE LinkControlProofs -------------------------
(***************************************************************************)
(* Proofs about LinkControl, for any number of links, parameters, layouts, *)
(* updates and slots.                                                      *)
(***************************************************************************)
EXTENDS LinkControl, FiniteSetTheorems, WellFoundedInduction, TLAPS

StoreName == {"gate", "param", "layout", "gain", "pending", "supersede", "bump"}
SwapValues == [SwapKind -> [layout : Layout \cup {0}, gain : 0 .. MaxUpdate]]

CtlStates ==
  [shadow : [Param -> 0 .. MaxUpdate], swap : SwapValues,
   pending : [SwapKind -> BOOLEAN], gate : Gate, slot : 0 .. MaxSlot, seqno : Nat]
SnapStates ==
  [pc : {"begin", "params", "finish"} \cup SwapKind, stored : BOOLEAN, observed : Int,
   left : SUBSET (Param \cup Word), preserve : BOOLEAN, reset : BOOLEAN,
   matrix : BOOLEAN, copy : BOOLEAN]
ServerStates ==
  [phase : {"idle", "write", "reply"}, todo : Seq(Op), pc : Nat, batch : BOOLEAN]

\* The warm-up of a link is not typed: what a layout of 0 needs is not known.
Shapes ==
  /\ ctl \in [Link -> CtlStates]
  /\ server \in ServerStates
  /\ DOMAIN batches \subseteq BatchId /\ \A b \in DOMAIN batches : batches[b] \in Seq(Op)
  /\ batches = [b \in DOMAIN batches |-> batches[b]]
  /\ link = [l \in Link |->
       [live |-> link[l].live, swap |-> link[l].swap, active |-> link[l].active,
        seqno |-> link[l].seqno, next |-> link[l].next, warmup |-> link[l].warmup,
        since |-> link[l].since, count |-> link[l].count]]
  /\ snap \in [Link -> SnapStates]
  /\ log \in [Link -> Seq(Op)]
  /\ applied \in [Link -> Seq(Nat)]

\* The request in hand: something is left of it, and the store to come is one of
\* its program.
AtWork ==
  /\ server.phase # "idle" => server.todo # << >>
  /\ server.phase = "write" => server.pc \in 1 .. Len(Program(Head(server.todo), server.batch))

\* The operations of it that the log of link l does not have yet.
ToCome(l) ==
  {i \in 1 .. Len(server.todo) :
     server.phase = "write" /\ server.todo[i].link = l /\ (i > 1 \/ server.pc = 1)}
Room(l) == Len(log[l]) + Cardinality(ToCome(l)) <= MaxUpdate

\* An update of link l is logged and not yet published.
InHand(l) == server.phase = "write" /\ server.pc > 1 /\ Head(server.todo).link = l

Published(l) ==
  IF InHand(l)
  THEN /\ log[l] # << >> /\ log[l][Len(log[l])] = Head(server.todo)
       /\ ctl[l].seqno = Len(log[l]) - 1
  ELSE ctl[l].seqno = Len(log[l])

\* What is published, and the parameter about to be, is in the shadow.
ShadowCovers(l) ==
  \A p \in Param :
    /\ ctl[l].shadow[p] <= Len(log[l])
    /\ \A n \in 1 .. ctl[l].seqno : log[l][n].what = p => n <= ctl[l].shadow[p]
    /\ InHand(l) /\ server.pc = 3 /\ Head(server.todo).what = p =>
         ctl[l].shadow[p] = Len(log[l])

LinkTypes(l) ==
  /\ link[l].live \in [Param -> 0 .. MaxUpdate]
  /\ link[l].swap \in SwapValues
  /\ link[l].active \in {"none", "profile", "matrix"}
  /\ link[l].next \in 0 .. MaxSlot

\* A snap in progress has observed a seqno between the live one and the last.
Observed(l) ==
  /\ link[l].seqno \in 0 .. ctl[l].seqno /\ Len(applied[l]) = link[l].seqno
  /\ snap[l].observed \in -1 .. ctl[l].seqno
  /\ snap[l].observed # -1 => link[l].seqno <= snap[l].observed
  /\ snap[l].pc = "params" => snap[l].observed # -1

LiveCovers(l) ==
  \A p \in Param :
    /\ \A n \in 1 .. link[l].seqno : log[l][n].what = p => n <= link[l].live[p]
    /\ snap[l].pc = "params" /\ p \notin snap[l].left =>
         \A n \in 1 .. snap[l].observed : log[l][n].what = p => n <= link[l].live[p]

LinkInv(l) ==
  Room(l) /\ Published(l) /\ ShadowCovers(l) /\ LinkTypes(l) /\ Observed(l) /\ LiveCovers(l)

\* The inductive invariant.
CtlInv == Shapes /\ AtWork /\ \A l \in Link : LinkInv(l)
-----------------------------------------------------------------------------
(***************************************************************************)
(* Facts about data.                                                       *)
(***************************************************************************)

\* A nonempty set of numbers up to s has a greatest element: the intervals from
\* its elements to s are finite sets, which strict inclusion orders well.
LEMMA GreatestUpTo ==
  ASSUME NEW s \in Nat, NEW T \in SUBSET (1 .. s), T # {}
  PROVE  \E x \in T : \A y \in T : y <= x
  <1> DEFINE U == {n .. s : n \in T}
  <1>1. U \subseteq FiniteSubsetsOf(Nat) /\ U # {}
    <2>1. ASSUME NEW n \in T PROVE n .. s \in FiniteSubsetsOf(Nat)
      <3>1. n \in Nat /\ IsFiniteSet(n .. s) /\ n .. s \subseteq Nat
        BY FS_Interval
      <3>2. QED
        BY <3>1 DEF FiniteSubsetsOf
    <2>2. QED
      BY <2>1
  <1>2. PICK V \in U : \A W \in U : ~(<<W, V>> \in StrictSubsetOrdering(Nat))
    <2> HIDE DEF U
    <2>1. IsWellFoundedOn(StrictSubsetOrdering(Nat), FiniteSubsetsOf(Nat))
      BY FS_StrictSubsetOrderingWellFounded
    <2>2. QED
      BY <1>1, <2>1, WFMin
  <1>3. PICK x \in T : V = x .. s
    OBVIOUS
  <1>4. ASSUME NEW y \in T, y > x PROVE FALSE
    <2>1. y .. s \subseteq x .. s /\ y .. s # x .. s
      <3>1. x \in x .. s /\ x \notin y .. s
        BY <1>4
      <3>2. QED
        BY <3>1, <1>4
    <2>2. y .. s \in SUBSET Nat /\ x .. s \in SUBSET Nat
      OBVIOUS
    <2>3. <<y .. s, V>> \in StrictSubsetOrdering(Nat)
      BY <1>3, <2>1, <2>2 DEF StrictSubsetOrdering
    <2>4. QED
      BY <1>2, <2>3
  <1>5. \A y \in T : y <= x
    BY <1>4
  <1>6. QED
    BY <1>5

\* LastWrite, of a log.
LastIn(u, names, s) ==
  LET hits == {n \in 1 .. s : u[n].what \in names}
  IN  IF hits = {} THEN 0 ELSE CHOOSE n \in hits : \A m \in hits : m <= n

\* It is one of the writes, and the last.
LEMMA LastInIs ==
  ASSUME NEW u, NEW names, NEW s \in Nat
  PROVE  LET w == LastIn(u, names, s)
         IN  /\ w \in Nat /\ (w = 0 \/ (w \in 1 .. s /\ u[w].what \in names))
             /\ \A n \in 1 .. s : u[n].what \in names => n <= w
  <1> DEFINE hits == {n \in 1 .. s : u[n].what \in names}
  <1>1. CASE hits = {}
    BY <1>1 DEF LastIn
  <1>2. CASE hits # {}
    <2>1. \E x \in hits : \A y \in hits : y <= x
      BY <1>2, GreatestUpTo
    <2>2. LastIn(u, names, s) = CHOOSE n \in hits : \A m \in hits : m <= n
      BY <1>2 DEF LastIn
    <2>3. LastIn(u, names, s) \in hits /\ \A y \in hits : y <= LastIn(u, names, s)
      BY <2>1, <2>2
    <2>4. QED
      BY <2>3
  <1>3. QED
    BY <1>1, <1>2

LEMMA LastWriteIs ==
  ASSUME NEW l, NEW names, NEW s \in Nat
  PROVE  LET w == LastWrite(l, names, s)
         IN  /\ w = 0 \/ (w \in 1 .. s /\ log[l][w].what \in names)
             /\ \A n \in 1 .. s : log[l][n].what \in names => n <= w
  <1>1. LastWrite(l, names, s) = LastIn(log[l], names, s)
    BY DEF LastWrite, LastIn
  <1>2. QED
    BY <1>1, LastInIs

\* The bump ends every program, and only a scalar's program writes a parameter,
\* just before it.
LEMMA ProgramShape ==
  ASSUME NEW op \in Op, NEW batch, NEW pc \in 1 .. Len(Program(op, batch))
  PROVE  /\ Len(Program(op, batch)) \in {3, 6} /\ Program(op, batch)[pc] \in StoreName
         /\ Program(op, batch)[pc] = "bump" <=> pc = Len(Program(op, batch))
         /\ op.what \in Param =>
              /\ Len(Program(op, batch)) = 3
              /\ Program(op, batch)[pc] = "param" <=> pc = 2
              /\ Program(op, batch)[pc] \in {"gate", "param", "bump"}
         /\ op.what \notin Param => Program(op, batch)[pc] # "param"
  <1>1. CASE op.what \in Param
    <2>1. Program(op, batch) = << "gate", "param", "bump" >>
      BY <1>1 DEF Program, ScalarStores
    <2>2. pc \in {1, 2, 3}
      BY <2>1
    <2>3. QED
      BY <1>1, <2>1, <2>2 DEF StoreName
  <1>2. CASE op.what \notin Param /\ batch
    <2>1. Program(op, batch) = << "gate", "layout", "gain", "pending", "supersede", "bump" >>
      BY <1>2 DEF Program, StagedSwapStores
    <2>2. pc \in 1 .. 6
      BY <2>1
    <2>3. pc = 1 \/ pc = 2 \/ pc = 3 \/ pc = 4 \/ pc = 5 \/ pc = 6
      BY <2>2
    <2>4. /\ Len(Program(op, batch)) = 6 /\ Program(op, batch)[pc] \in StoreName \ {"param"}
          /\ Program(op, batch)[pc] = "bump" <=> pc = 6
      BY <2>1, <2>3 DEF StoreName
    <2>5. QED
      BY <1>2, <2>4
  <1>3. CASE op.what \notin Param /\ ~batch
    <2>1. Program(op, batch) = << "layout", "gain", "pending", "supersede", "gate", "bump" >>
      BY <1>3 DEF Program, SwapStores
    <2>2. pc \in 1 .. 6
      BY <2>1
    <2>3. pc = 1 \/ pc = 2 \/ pc = 3 \/ pc = 4 \/ pc = 5 \/ pc = 6
      BY <2>2
    <2>4. /\ Len(Program(op, batch)) = 6 /\ Program(op, batch)[pc] \in StoreName \ {"param"}
          /\ Program(op, batch)[pc] = "bump" <=> pc = 6
      BY <2>1, <2>3 DEF StoreName
    <2>5. QED
      BY <1>3, <2>4
  <1>4. QED
    BY <1>1, <1>2, <1>3

\* An operation's fields.
LEMMA OpFields ==
  ASSUME NEW op \in Op
  PROVE  /\ op.link \in Link /\ op.what \in Param \cup SwapKind /\ op.at \in Gate
         /\ op.layout \in Layout \cup {0}
         /\ op.what \notin Param => op.what \in SwapKind
  BY ControlAssumption DEF Op

\* What a store of a program does to the words of a link.
LEMMA StoreTypes ==
  ASSUME NEW c \in CtlStates, NEW op \in Op, NEW step \in StoreName,
         NEW n \in 0 .. MaxUpdate,
         step = "param" => op.what \in Param,
         op.what \in Param => step \in {"gate", "param", "bump"}
  PROVE  LET d == Store(c, op, step, n)
         IN  /\ d \in CtlStates
             /\ d.seqno = IF step = "bump" THEN c.seqno + 1 ELSE c.seqno
             /\ d.shadow = IF step = "param" THEN [c.shadow EXCEPT ![op.what] = n] ELSE c.shadow
  <1> DEFINE d == Store(c, op, step, n)
  <1>1. /\ op.at \in Gate /\ op.layout \in Layout \cup {0}
        /\ op.what \notin Param => op.what \in SwapKind
    BY OpFields
  <1>2. CASE step = "gate"
    <2>1. d = [c EXCEPT !.gate = op.at]
      BY <1>2 DEF Store
    <2>2. QED
      BY <1>1, <1>2, <2>1 DEF CtlStates
  <1>3. CASE step = "param"
    <2>1. d = [c EXCEPT !.shadow[op.what] = n]
      BY <1>3 DEF Store
    <2>2. [c.shadow EXCEPT ![op.what] = n] \in [Param -> 0 .. MaxUpdate]
      BY <1>3 DEF CtlStates
    <2>3. QED
      BY <1>3, <2>1, <2>2 DEF CtlStates
  <1>4. CASE step = "layout"
    <2>1. d = [c EXCEPT !.swap[op.what].layout = op.layout] /\ op.what \in SwapKind
      BY <1>1, <1>4 DEF Store
    <2>2. c.swap \in [SwapKind -> [layout : Layout \cup {0}, gain : 0 .. MaxUpdate]]
      BY DEF CtlStates, SwapValues
    <2>3. [c.swap EXCEPT ![op.what].layout = op.layout] \in SwapValues
      BY <1>1, <2>1, <2>2 DEF SwapValues
    <2>4. QED
      BY <1>4, <2>1, <2>3 DEF CtlStates
  <1>5. CASE step = "gain"
    <2>1. d = [c EXCEPT !.swap[op.what].gain = n] /\ op.what \in SwapKind
      BY <1>1, <1>5 DEF Store
    <2>2. c.swap \in [SwapKind -> [layout : Layout \cup {0}, gain : 0 .. MaxUpdate]]
      BY DEF CtlStates, SwapValues
    <2>3. [c.swap EXCEPT ![op.what].gain = n] \in SwapValues
      BY <2>1, <2>2 DEF SwapValues
    <2>4. QED
      BY <1>5, <2>1, <2>3 DEF CtlStates
  <1>6. CASE step = "pending"
    <2>1. d = [c EXCEPT !.pending[op.what] = TRUE] /\ op.what \in SwapKind
      BY <1>1, <1>6 DEF Store
    <2>2. [c.pending EXCEPT ![op.what] = TRUE] \in [SwapKind -> BOOLEAN]
      BY <2>1 DEF CtlStates
    <2>3. QED
      BY <1>6, <2>1, <2>2 DEF CtlStates
  <1>7. CASE step = "supersede"
    <2>1. d = [c EXCEPT !.pending =
                 [k \in SwapKind |-> c.pending[k] /\ k \notin Superseded(op.what)]]
      BY <1>7 DEF Store, CtlStates
    <2>2. [k \in SwapKind |-> c.pending[k] /\ k \notin Superseded(op.what)]
            \in [SwapKind -> BOOLEAN]
      BY DEF CtlStates
    <2>3. QED
      BY <1>7, <2>1, <2>2 DEF CtlStates
  <1>8. CASE step = "bump"
    <2>1. d = [c EXCEPT !.seqno = c.seqno + 1]
      BY <1>8 DEF Store, CtlStates
    <2>2. QED
      BY <1>8, <2>1 DEF CtlStates
  <1>9. QED
    BY <1>2, <1>3, <1>4, <1>5, <1>6, <1>7, <1>8 DEF StoreName
-----------------------------------------------------------------------------
(***************************************************************************)
(* What the invariant gives, and that it holds initially.                  *)
(***************************************************************************)
LEMMA InvTypes == CtlInv => CtlTypeOK
  <1> SUFFICES ASSUME CtlInv PROVE CtlTypeOK
    OBVIOUS
  <1>1. ASSUME NEW l \in Link
        PROVE  /\ ctl[l].shadow \in [Param -> 0 .. MaxUpdate]
               /\ ctl[l].swap \in [SwapKind -> [layout : Layout \cup {0}, gain : 0 .. MaxUpdate]]
               /\ ctl[l].pending \in [SwapKind -> BOOLEAN]
               /\ ctl[l].gate \in Gate /\ ctl[l].slot \in 0 .. MaxSlot
               /\ link[l].live \in [Param -> 0 .. MaxUpdate]
               /\ link[l].active \in {"none", "profile", "matrix"}
               /\ link[l].next \in 0 .. MaxSlot
               /\ snap[l].observed \in -1 .. ctl[l].seqno
               /\ snap[l].left \subseteq Param \cup Word
               /\ Len(applied[l]) = link[l].seqno
               /\ link[l].seqno <= ctl[l].seqno
               /\ ctl[l].seqno \in {Len(log[l]), Len(log[l]) - 1}
    <2>1. ctl[l] \in CtlStates /\ snap[l] \in SnapStates
      BY DEF CtlInv, Shapes
    <2>2. LinkTypes(l) /\ Observed(l) /\ Published(l)
      BY DEF CtlInv, LinkInv
    <2>3. link[l].seqno <= ctl[l].seqno
      BY <2>1, <2>2 DEF CtlStates, Observed
    <2>4. QED
      BY <2>1, <2>2, <2>3 DEF CtlStates, SnapStates, SwapValues, LinkTypes, Observed, Published
  <1>2. server.phase \in {"idle", "write", "reply"} /\ server.todo \in Seq(Op)
    BY DEF CtlInv, Shapes, ServerStates
  <1>3. DOMAIN batches \subseteq BatchId
    BY DEF CtlInv, Shapes
  <1>4. \A i \in DOMAIN server.todo : server.todo[i] \in Op
    BY <1>2
  <1>5. QED
    BY <1>1, <1>2, <1>3, <1>4 DEF CtlTypeOK

LEMMA InvCovers == CtlInv => SeqnoCoversParams
  <1> SUFFICES ASSUME CtlInv, NEW l \in Link, NEW p \in Param
               PROVE  link[l].live[p] >= LastWrite(l, {p}, link[l].seqno)
    BY DEF SeqnoCoversParams
  <1> DEFINE w == LastWrite(l, {p}, link[l].seqno)
  <1>1. ctl[l].seqno \in Nat /\ LinkTypes(l) /\ Observed(l) /\ LiveCovers(l)
    BY DEF CtlInv, Shapes, CtlStates, LinkInv
  <1>2. link[l].seqno \in Nat /\ link[l].live[p] \in Nat
    BY <1>1, ControlAssumption DEF LinkTypes, Observed
  <1>3. w = 0 \/ (w \in 1 .. link[l].seqno /\ log[l][w].what = p)
    BY <1>2, LastWriteIs
  <1>4. \A n \in 1 .. link[l].seqno : log[l][n].what = p => n <= link[l].live[p]
    BY <1>1 DEF LiveCovers
  <1>5. QED
    BY <1>2, <1>3, <1>4

LEMMA CtlStart == Init => CtlInv
  <1> SUFFICES ASSUME Init PROVE CtlInv
    OBVIOUS
  <1> USE ControlAssumption
  <1>1. 0 \in 0 .. MaxUpdate /\ 0 \in 0 .. MaxSlot
    OBVIOUS
  <1>2. [k \in SwapKind |-> Blank] \in SwapValues
    BY <1>1 DEF SwapValues, Blank
  <1>3. << >> \in Seq(Op) /\ << >> \in Seq(Nat) /\ Len(<< >>) = 0
    OBVIOUS
  <1>4. ctl \in [Link -> CtlStates]
    BY <1>1, <1>2 DEF Init, CtlStates
  <1>5. snap \in [Link -> SnapStates]
    BY DEF Init, NoSnap, SnapStates
  <1>6. server \in ServerStates /\ server.phase = "idle"
    BY <1>3 DEF Init, Idle, ServerStates
  <1>7. batches = << >> /\ DOMAIN batches = {}
    BY DEF Init
  <1>8. link = [l \in Link |->
          [live |-> link[l].live, swap |-> link[l].swap, active |-> link[l].active,
           seqno |-> link[l].seqno, next |-> link[l].next, warmup |-> link[l].warmup,
           since |-> link[l].since, count |-> link[l].count]]
    BY DEF Init
  <1>9. log \in [Link -> Seq(Op)] /\ applied \in [Link -> Seq(Nat)]
    BY <1>3 DEF Init
  <1>10. batches = [b \in DOMAIN batches |-> batches[b]]
    BY <1>7
  <1>11. Shapes
    BY <1>4, <1>5, <1>6, <1>7, <1>8, <1>9, <1>10 DEF Shapes
  <1>12. AtWork
    BY <1>6 DEF AtWork
  <1>13. ASSUME NEW l \in Link PROVE LinkInv(l)
    <2>1. /\ log[l] = << >> /\ Len(log[l]) = 0 /\ Len(applied[l]) = 0
          /\ ctl[l].seqno = 0 /\ ctl[l].shadow = [p \in Param |-> 0]
      BY <1>3 DEF Init
    <2>2. /\ link[l].live = [p \in Param |-> 0] /\ link[l].swap = [k \in SwapKind |-> Blank]
          /\ link[l].active = "none" /\ link[l].seqno = 0 /\ link[l].next = 0
          /\ snap[l].pc = "begin" /\ snap[l].observed = -1
      BY DEF Init, NoSnap
    <2>3. ~InHand(l)
      BY <1>6 DEF InHand
    <2>4. ToCome(l) = {}
      BY <1>6 DEF ToCome
    <2>5. Room(l)
      BY <2>1, <2>4, FS_EmptySet DEF Room
    <2>6. LinkTypes(l)
      BY <1>1, <1>2, <2>2 DEF LinkTypes
    <2>7. Published(l) /\ ShadowCovers(l) /\ Observed(l) /\ LiveCovers(l)
      BY <2>1, <2>2, <2>3 DEF Published, ShadowCovers, Observed, LiveCovers
    <2>8. QED
      BY <2>5, <2>6, <2>7 DEF LinkInv
  <1>14. QED
    BY <1>11, <1>12, <1>13 DEF CtlInv
-----------------------------------------------------------------------------
(***************************************************************************)
(* The producer's steps.                                                   *)
(***************************************************************************)

\* What the control thread answers for depends on its own state, the log, and
\* the seqno and shadow of a link.
LEMMA ServerSideKept ==
  ASSUME CtlInv, NEW q \in Link, UNCHANGED << server, log >>,
         ctl'[q].seqno = ctl[q].seqno, ctl'[q].shadow = ctl[q].shadow
  PROVE  Room(q)' /\ Published(q)' /\ ShadowCovers(q)'
  <1>1. Room(q) /\ Published(q) /\ ShadowCovers(q)
    BY DEF CtlInv, LinkInv
  <1>2. ToCome(q)' = ToCome(q) /\ (InHand(q)' <=> InHand(q))
    BY DEF ToCome, InHand
  <1>3. QED
    BY <1>1, <1>2 DEF Room, Published, ShadowCovers

LEMMA LinkKept ==
  ASSUME CtlInv, NEW q \in Link, UNCHANGED << server, log >>,
         ctl'[q] = ctl[q], link'[q] = link[q], snap'[q] = snap[q], applied'[q] = applied[q]
  PROVE  LinkInv(q)'
  <1>1. Room(q)' /\ Published(q)' /\ ShadowCovers(q)'
    BY ServerSideKept
  <1>2. LinkTypes(q) /\ Observed(q) /\ LiveCovers(q)
    BY DEF CtlInv, LinkInv
  <1>3. QED
    BY <1>1, <1>2 DEF LinkInv, LinkTypes, Observed, LiveCovers

\* The fields of what one link has.
LEMMA LinkFacts ==
  ASSUME CtlInv, NEW l \in Link
  PROVE  /\ ctl[l] \in CtlStates /\ ctl[l].seqno \in Nat
         /\ ctl[l].shadow \in [Param -> 0 .. MaxUpdate]
         /\ snap[l] \in SnapStates /\ snap[l].observed \in Int
         /\ link[l].seqno \in Nat /\ Len(applied[l]) = link[l].seqno
         /\ log[l] \in Seq(Op) /\ Len(log[l]) \in Nat /\ ctl[l].seqno <= Len(log[l])
         /\ LinkInv(l) /\ Observed(l) /\ LiveCovers(l) /\ ShadowCovers(l) /\ LinkTypes(l)
  <1>1. ctl[l] \in CtlStates /\ snap[l] \in SnapStates /\ log[l] \in Seq(Op) /\ LinkInv(l)
    BY DEF CtlInv, Shapes
  <1>2. ctl[l].seqno \in Nat /\ Len(log[l]) \in Nat /\ snap[l].observed \in Int
        /\ ctl[l].shadow \in [Param -> 0 .. MaxUpdate]
    BY <1>1 DEF CtlStates, SnapStates
  <1>3. Observed(l) /\ LiveCovers(l) /\ ShadowCovers(l) /\ LinkTypes(l) /\ Published(l)
    BY <1>1 DEF LinkInv
  <1>4. ctl[l].seqno <= Len(log[l])
    BY <1>2, <1>3 DEF Published
  <1>5. QED
    BY <1>1, <1>2, <1>3, <1>4 DEF Observed

\* A step that only moves the snap on: what it must keep to.
LEMMA SnapMoves ==
  ASSUME CtlInv, NEW l \in Link, NEW s \in SnapStates, snap' = [snap EXCEPT ![l] = s],
         UNCHANGED << ctl, serverVars, link, telemetry, applied >>,
         s.observed \in -1 .. ctl[l].seqno, s.observed # -1 => link[l].seqno <= s.observed,
         s.pc = "params" => s.observed # -1,
         \A p \in Param : s.pc = "params" /\ p \notin s.left =>
           \A n \in 1 .. s.observed : log[l][n].what = p => n <= link[l].live[p]
  PROVE  CtlInv'
  <1> USE DEF serverVars
  <1>1. snap \in [Link -> SnapStates] /\ snap'[l] = s
    BY DEF CtlInv, Shapes
  <1>2. snap' \in [Link -> SnapStates] /\ \A q \in Link : q # l => snap'[q] = snap[q]
    BY <1>1
  <1>3. Shapes'
    BY <1>2 DEF CtlInv, Shapes
  <1>4. AtWork'
    BY DEF CtlInv, AtWork
  <1>5. LinkInv(l)'
    <2>1. Room(l)' /\ Published(l)' /\ ShadowCovers(l)'
      BY ServerSideKept
    <2>2. Observed(l)' /\ LiveCovers(l)' /\ LinkTypes(l)'
      BY <1>1, LinkFacts DEF Observed, LiveCovers, LinkTypes
    <2>3. QED
      BY <2>1, <2>2 DEF LinkInv
  <1>6. \A q \in Link : q # l => LinkInv(q)'
    BY <1>2, LinkKept
  <1>7. QED
    BY <1>3, <1>4, <1>5, <1>6 DEF CtlInv

LEMMA SnapStoreInv ==
  ASSUME CtlInv, NEW l \in Link, SnapStore(l)
  PROVE  CtlInv'
  <1> USE DEF SnapStore, serverVars
  <1>1. /\ ctl[l] \in CtlStates /\ snap[l] \in SnapStates
        /\ ctl \in [Link -> CtlStates] /\ snap \in [Link -> SnapStates]
        /\ link[l].next \in 0 .. MaxSlot
    BY LinkFacts DEF CtlInv, Shapes, LinkTypes
  <1>2. /\ [ctl[l] EXCEPT !.slot = link[l].next] \in CtlStates
        /\ ctl' = [ctl EXCEPT ![l] = [ctl[l] EXCEPT !.slot = link[l].next]]
        /\ ctl'[l].seqno = ctl[l].seqno /\ ctl'[l].shadow = ctl[l].shadow
    BY <1>1 DEF CtlStates
  <1>3. /\ [snap[l] EXCEPT !.stored = TRUE] \in SnapStates
        /\ snap' = [snap EXCEPT ![l] = [snap[l] EXCEPT !.stored = TRUE]]
        /\ snap'[l].observed = snap[l].observed /\ snap'[l].pc = "begin"
    BY <1>1 DEF SnapStates
  <1>4. Shapes'
    BY <1>1, <1>2, <1>3 DEF CtlInv, Shapes
  <1>5. AtWork'
    BY DEF CtlInv, AtWork
  <1>6. LinkInv(l)'
    <2>1. Room(l)' /\ Published(l)' /\ ShadowCovers(l)'
      BY <1>2, ServerSideKept
    <2>2. Observed(l)' /\ LiveCovers(l)' /\ LinkTypes(l)'
      BY <1>2, <1>3, LinkFacts DEF Observed, LiveCovers, LinkTypes
    <2>3. QED
      BY <2>1, <2>2 DEF LinkInv
  <1>7. ASSUME NEW q \in Link, q # l PROVE LinkInv(q)'
    <2>1. ctl'[q] = ctl[q] /\ snap'[q] = snap[q] /\ link'[q] = link[q] /\ applied'[q] = applied[q]
      BY <1>1, <1>2, <1>3, <1>7
    <2>2. QED
      BY <2>1, LinkKept
  <1>8. QED
    BY <1>4, <1>5, <1>6, <1>7 DEF CtlInv

LEMMA SnapLoadInv ==
  ASSUME CtlInv, NEW l \in Link, SnapLoad(l)
  PROVE  CtlInv'
  <1> DEFINE s == [snap[l] EXCEPT !.observed = ctl[l].seqno]
  <1>1. /\ s \in SnapStates /\ s.observed = ctl[l].seqno /\ s.pc = "begin"
        /\ snap' = [snap EXCEPT ![l] = s]
    BY LinkFacts DEF SnapLoad, SnapStates
  <1>2. ctl[l].seqno \in -1 .. ctl[l].seqno /\ link[l].seqno <= ctl[l].seqno
    BY LinkFacts DEF Observed
  <1> HIDE DEF s
  <1>3. QED
    BY <1>1, <1>2, SnapMoves DEF SnapLoad

LEMMA SnapGateInv ==
  ASSUME CtlInv, NEW l \in Link, SnapGate(l)
  PROVE  CtlInv'
  <1> DEFINE s == IF snap[l].observed # link[l].seqno /\ GateOpen(l)
                  THEN [snap[l] EXCEPT !.pc = "params", !.left = Param]
                  ELSE [snap[l] EXCEPT !.pc = "finish"]
  <1>1. /\ snap' = [snap EXCEPT ![l] = s] /\ s \in SnapStates
        /\ s.observed = snap[l].observed /\ snap[l].observed # -1
        /\ s.pc = "params" => s.left = Param
    BY LinkFacts DEF SnapGate, SnapStates
  <1>2. Observed(l)
    BY LinkFacts
  <1> HIDE DEF s
  <1>3. QED
    BY <1>1, <1>2, SnapMoves DEF SnapGate, Observed

LEMMA SnapTestInv ==
  ASSUME CtlInv, NEW l \in Link, NEW k \in SwapKind, SnapTest(l, k) \/ SnapDropped(l, k)
  PROVE  CtlInv'
  <1>1. k # "params" /\ After(k) \in {"finish"} \cup SwapKind /\ After(k) # "params"
        /\ HistoryCompatible(l) \in BOOLEAN
    BY DEF SwapKind, After, HistoryCompatible
  <1>2. PICK s \in SnapStates :
          /\ snap' = [snap EXCEPT ![l] = s]
          /\ s.observed = snap[l].observed /\ s.pc # "params"
    <2>1. CASE SnapTest(l, k) /\ ctl[l].pending[k] /\ Eligible(l, k)
      <3> DEFINE s == [snap[l] EXCEPT !.copy = TRUE, !.left = Word, !.preserve = HistoryCompatible(l)]
      <3>1. s \in SnapStates /\ s.observed = snap[l].observed /\ s.pc # "params"
        BY <1>1, <2>1, LinkFacts DEF SnapTest, SnapStates
      <3>2. snap' = [snap EXCEPT ![l] = s]
        BY <2>1 DEF SnapTest
      <3>3. QED
        BY <3>1, <3>2
    <2>2. CASE SnapTest(l, k) /\ ~(ctl[l].pending[k] /\ Eligible(l, k))
      <3> DEFINE s == [snap[l] EXCEPT !.pc = After(k)]
      <3>1. s \in SnapStates /\ s.observed = snap[l].observed /\ s.pc # "params"
        BY <1>1, LinkFacts DEF SnapStates
      <3>2. snap' = [snap EXCEPT ![l] = s]
        BY <2>2 DEF SnapTest
      <3>3. QED
        BY <3>1, <3>2
    <2>3. CASE SnapDropped(l, k)
      <3> DEFINE s == [snap[l] EXCEPT !.pc = After(k), !.copy = FALSE]
      <3>1. s \in SnapStates /\ s.observed = snap[l].observed /\ s.pc # "params"
        BY <1>1, LinkFacts DEF SnapStates
      <3>2. snap' = [snap EXCEPT ![l] = s]
        BY <2>3 DEF SnapDropped
      <3>3. QED
        BY <3>1, <3>2
    <2>4. QED
      BY <2>1, <2>2, <2>3
  <1>3. Observed(l)
    BY LinkFacts
  <1>4. UNCHANGED << ctl, serverVars, link, telemetry, applied >>
    BY DEF SnapTest, SnapDropped
  <1>5. QED
    BY <1>2, <1>3, <1>4, SnapMoves DEF Observed

LinkShape(k) ==
  k = [live |-> k.live, swap |-> k.swap, active |-> k.active, seqno |-> k.seqno,
       next |-> k.next, warmup |-> k.warmup, since |-> k.since, count |-> k.count]

\* A step of the producer of one link: what it owes.
LEMMA ProducerMoves ==
  ASSUME CtlInv, NEW l \in Link, UNCHANGED serverVars,
         NEW c \in CtlStates, ctl' = [ctl EXCEPT ![l] = c],
         c.seqno = ctl[l].seqno, c.shadow = ctl[l].shadow,
         NEW s \in SnapStates, snap' = [snap EXCEPT ![l] = s],
         NEW k, LinkShape(k), link' = [link EXCEPT ![l] = k],
         NEW a \in Seq(Nat), applied' = [applied EXCEPT ![l] = a],
         LinkTypes(l)', Observed(l)', LiveCovers(l)'
  PROVE  CtlInv'
  <1> USE DEF serverVars
  <1>1. /\ ctl \in [Link -> CtlStates] /\ snap \in [Link -> SnapStates]
        /\ applied \in [Link -> Seq(Nat)]
    BY DEF CtlInv, Shapes
  <1>2. link = [q \in Link |-> link[q]] /\ \A q \in Link : LinkShape(link[q])
    BY DEF CtlInv, Shapes, LinkShape
  <1>3. link' = [q \in Link |-> link'[q]] /\ link'[l] = k
        /\ \A q \in Link : q # l => link'[q] = link[q]
    BY <1>2
  <1>4. \A q \in Link : LinkShape(link'[q])
    BY <1>2, <1>3
  <1>5. link' = [q \in Link |->
          [live |-> link'[q].live, swap |-> link'[q].swap, active |-> link'[q].active,
           seqno |-> link'[q].seqno, next |-> link'[q].next, warmup |-> link'[q].warmup,
           since |-> link'[q].since, count |-> link'[q].count]]
    BY <1>3, <1>4 DEF LinkShape
  <1>6. Shapes'
    BY <1>1, <1>5 DEF CtlInv, Shapes
  <1>7. AtWork'
    BY DEF CtlInv, AtWork
  <1>8. LinkInv(l)'
    BY <1>1, ServerSideKept DEF LinkInv
  <1>9. ASSUME NEW q \in Link, q # l PROVE LinkInv(q)'
    BY <1>1, <1>3, <1>9, LinkKept
  <1>10. QED
    BY <1>6, <1>7, <1>8, <1>9 DEF CtlInv

\* What does not change is written as if it did.
LEMMA Unmoved ==
  ASSUME CtlInv, NEW l \in Link
  PROVE  /\ ctl = [ctl EXCEPT ![l] = ctl[l]] /\ link = [link EXCEPT ![l] = link[l]]
         /\ applied = [applied EXCEPT ![l] = applied[l]]
         /\ applied[l] \in Seq(Nat) /\ LinkShape(link[l])
         /\ ctl \in [Link -> CtlStates] /\ snap \in [Link -> SnapStates]
         /\ applied \in [Link -> Seq(Nat)]
         /\ link = [q \in Link |-> link[q]]
  <1>1. /\ ctl \in [Link -> CtlStates] /\ snap \in [Link -> SnapStates]
        /\ applied \in [Link -> Seq(Nat)]
    BY DEF CtlInv, Shapes
  <1>2. link = [q \in Link |-> link[q]] /\ LinkShape(link[l])
    BY DEF CtlInv, Shapes, LinkShape
  <1>3. QED
    BY <1>1, <1>2

\* A link with another field changed.
LEMMA LinkUpdate ==
  ASSUME NEW r, LinkShape(r), NEW v
  PROVE  /\ [r EXCEPT !.seqno = v] =
              [live |-> r.live, swap |-> r.swap, active |-> r.active, seqno |-> v,
               next |-> r.next, warmup |-> r.warmup, since |-> r.since, count |-> r.count]
         /\ [r EXCEPT !.live = v] =
              [live |-> v, swap |-> r.swap, active |-> r.active, seqno |-> r.seqno,
               next |-> r.next, warmup |-> r.warmup, since |-> r.since, count |-> r.count]
         /\ [r EXCEPT !.swap = v] =
              [live |-> r.live, swap |-> v, active |-> r.active, seqno |-> r.seqno,
               next |-> r.next, warmup |-> r.warmup, since |-> r.since, count |-> r.count]
         /\ [r EXCEPT !.active = v] =
              [live |-> r.live, swap |-> r.swap, active |-> v, seqno |-> r.seqno,
               next |-> r.next, warmup |-> r.warmup, since |-> r.since, count |-> r.count]
  <1>1. PICK a, b, c, d, e, f, g, h :
          r = [live |-> a, swap |-> b, active |-> c, seqno |-> d,
               next |-> e, warmup |-> f, since |-> g, count |-> h]
    BY DEF LinkShape
  <1>2. QED
    BY <1>1

LEMMA SnapParamInv ==
  ASSUME CtlInv, NEW l \in Link, NEW p \in Param, SnapParam(l, p)
  PROVE  CtlInv'
  <1> DEFINE v == ctl[l].shadow[p]
             w == [link[l].live EXCEPT ![p] = v]
             k == [live |-> w, swap |-> link[l].swap, active |-> link[l].active,
                   seqno |-> link[l].seqno, next |-> link[l].next, warmup |-> link[l].warmup,
                   since |-> link[l].since, count |-> link[l].count]
             s == [snap[l] EXCEPT !.left = snap[l].left \ {p}]
  <1>1. /\ snap[l].pc = "params" /\ p \in snap[l].left
        /\ link' = [link EXCEPT ![l] = k] /\ snap' = [snap EXCEPT ![l] = s]
        /\ UNCHANGED << ctl, serverVars, applied >>
    <2>1. [link[l] EXCEPT !.live = w] = k
      BY Unmoved, LinkUpdate
    <2>2. link' = [link EXCEPT ![l] = [link[l] EXCEPT !.live = w]]
      BY DEF SnapParam
    <2>3. QED
      BY <2>1, <2>2 DEF SnapParam
  <1>2. v \in 0 .. MaxUpdate /\ link[l].live \in [Param -> 0 .. MaxUpdate]
    BY LinkFacts DEF LinkTypes
  <1>3. /\ LinkShape(k) /\ k.live = [link[l].live EXCEPT ![p] = v]
        /\ k.swap = link[l].swap /\ k.active = link[l].active /\ k.next = link[l].next
        /\ k.seqno = link[l].seqno
    BY DEF LinkShape
  <1>4. s \in SnapStates /\ s.pc = "params" /\ s.observed = snap[l].observed
        /\ s.left = snap[l].left \ {p}
    BY <1>1, LinkFacts DEF SnapStates
  <1> HIDE DEF k, s
  <1>5. link'[l] = k /\ snap'[l] = s /\ applied'[l] = applied[l] /\ ctl'[l] = ctl[l]
        /\ log' = log
    BY <1>1, Unmoved DEF serverVars
  <1>6. LinkTypes(l)'
    <2>1. k.live \in [Param -> 0 .. MaxUpdate]
      BY <1>2, <1>3
    <2>2. QED
      BY <1>3, <1>5, <2>1, LinkFacts DEF LinkTypes
  <1>7. Observed(l)'
    BY <1>1, <1>3, <1>4, <1>5, LinkFacts DEF Observed
  <1>8. LiveCovers(l)'
    <2> SUFFICES ASSUME NEW r \in Param
                 PROVE  /\ \A n \in 1 .. k.seqno : log[l][n].what = r => n <= k.live[r]
                        /\ r \notin s.left =>
                             \A n \in 1 .. s.observed : log[l][n].what = r => n <= k.live[r]
      BY <1>4, <1>5 DEF LiveCovers
    <2>1. CASE r = p
      <3>1. k.live[r] = v
        BY <1>2, <1>3, <2>1
      <3>2. \A n \in 1 .. ctl[l].seqno : log[l][n].what = p => n <= v
        BY LinkFacts DEF ShadowCovers
      <3>3. /\ k.seqno \in 0 .. ctl[l].seqno /\ ctl[l].seqno \in Nat
            /\ s.observed \in -1 .. ctl[l].seqno
        BY <1>3, <1>4, LinkFacts DEF Observed
      <3>4. QED
        BY <2>1, <3>1, <3>2, <3>3
    <2>2. CASE r # p
      <3>1. k.live[r] = link[l].live[r] /\ (r \notin s.left => r \notin snap[l].left)
        BY <1>2, <1>3, <1>4, <2>2
      <3>2. QED
        BY <1>1, <1>3, <1>4, <3>1, LinkFacts DEF LiveCovers
    <2>3. QED
      BY <2>1, <2>2
  <1>9. /\ ctl' = [ctl EXCEPT ![l] = ctl[l]] /\ applied' = [applied EXCEPT ![l] = applied[l]]
        /\ ctl[l] \in CtlStates /\ applied[l] \in Seq(Nat)
    BY <1>1, Unmoved, LinkFacts
  <1>10. QED
    BY <1>1, <1>3, <1>4, <1>6, <1>7, <1>8, <1>9, ProducerMoves

LEMMA SnapVersionInv ==
  ASSUME CtlInv, NEW l \in Link, SnapVersion(l)
  PROVE  CtlInv'
  <1> DEFINE o == snap[l].observed
             k == [live |-> link[l].live, swap |-> link[l].swap, active |-> link[l].active,
                   seqno |-> o, next |-> link[l].next, warmup |-> link[l].warmup,
                   since |-> link[l].since, count |-> link[l].count]
             s == [snap[l] EXCEPT !.pc = "profile"]
             b == [i \in 1 .. o - link[l].seqno |-> link[l].next]
             a == applied[l] \o b
  <1>1. /\ snap[l].pc = "params" /\ snap[l].left = {}
        /\ link' = [link EXCEPT ![l] = k] /\ snap' = [snap EXCEPT ![l] = s]
        /\ applied' = [applied EXCEPT ![l] = a]
        /\ UNCHANGED << ctl, serverVars >>
    <2>1. [link[l] EXCEPT !.seqno = o] = k
      BY Unmoved, LinkUpdate
    <2>2. QED
      BY <2>1 DEF SnapVersion, Version
  <1>2. /\ o \in 0 .. ctl[l].seqno /\ link[l].seqno \in Nat /\ link[l].seqno <= o
        /\ link[l].next \in Nat /\ ctl[l].seqno \in Nat
    BY <1>1, LinkFacts, ControlAssumption DEF Observed, LinkTypes
  <1>3. /\ LinkShape(k) /\ k.live = link[l].live
        /\ k.swap = link[l].swap /\ k.active = link[l].active /\ k.next = link[l].next
        /\ k.seqno = o
    BY DEF LinkShape
  <1>4. s \in SnapStates /\ s.pc = "profile" /\ s.observed = o
    BY LinkFacts DEF SnapStates, SwapKind
  <1>5. a \in Seq(Nat) /\ Len(a) = o
    <2>1. o - link[l].seqno \in Nat
      BY <1>2
    <2>2. b \in Seq(Nat) /\ Len(b) = o - link[l].seqno
      BY <1>2, <2>1
    <2>3. applied[l] \in Seq(Nat) /\ Len(applied[l]) = link[l].seqno
      BY Unmoved, LinkFacts
    <2>4. \A x, y \in Seq(Nat) : x \o y \in Seq(Nat) /\ Len(x \o y) = Len(x) + Len(y)
      OBVIOUS
    <2> HIDE DEF b, o
    <2>5. a \in Seq(Nat) /\ Len(a) = Len(applied[l]) + Len(b)
      BY <2>2, <2>3, <2>4
    <2> HIDE DEF a
    <2>6. QED
      BY <1>2, <2>2, <2>3, <2>5
  <1> HIDE DEF k, s, a, o
  <1>6. link'[l] = k /\ snap'[l] = s /\ applied'[l] = a /\ ctl'[l] = ctl[l] /\ log' = log
    BY <1>1, Unmoved DEF serverVars
  <1>7. LinkTypes(l)'
    BY <1>3, <1>6, LinkFacts DEF LinkTypes
  <1>8. Observed(l)'
    BY <1>2, <1>3, <1>4, <1>5, <1>6 DEF Observed
  <1>9. LiveCovers(l)'
    BY <1>1, <1>3, <1>4, <1>6, LinkFacts DEF LiveCovers, o
  <1>10. QED
    BY <1>1, <1>3, <1>4, <1>5, <1>7, <1>8, <1>9, Unmoved, LinkFacts, ProducerMoves

\* A step that leaves parameters and seqnos alone.
LEMMA SwapMoves ==
  ASSUME CtlInv, NEW l \in Link, UNCHANGED << serverVars, applied >>,
         NEW c \in CtlStates, ctl' = [ctl EXCEPT ![l] = c],
         c.seqno = ctl[l].seqno, c.shadow = ctl[l].shadow,
         NEW s \in SnapStates, snap' = [snap EXCEPT ![l] = s], s.pc # "params",
         s.observed = snap[l].observed \/ s.observed = -1,
         NEW k, LinkShape(k), link' = [link EXCEPT ![l] = k],
         k.live = link[l].live, k.seqno = link[l].seqno, k.swap \in SwapValues,
         k.active \in {"none", "profile", "matrix"}, k.next \in 0 .. MaxSlot
  PROVE  CtlInv'
  <1>1. link'[l] = k /\ snap'[l] = s /\ ctl'[l] = c /\ applied' = applied /\ log' = log
    BY Unmoved DEF serverVars
  <1>2. Observed(l) /\ LiveCovers(l) /\ LinkTypes(l) /\ ctl[l].seqno \in Nat
    BY LinkFacts
  <1>3. LinkTypes(l)' /\ Observed(l)' /\ LiveCovers(l)'
    BY <1>1, <1>2 DEF LinkTypes, Observed, LiveCovers
  <1>4. applied' = [applied EXCEPT ![l] = applied[l]] /\ applied[l] \in Seq(Nat)
    BY <1>1, Unmoved
  <1>5. UNCHANGED serverVars
    OBVIOUS
  <1>6. QED
    BY <1>3, <1>4, <1>5, ProducerMoves

LEMMA SnapCopyInv ==
  ASSUME CtlInv, NEW l \in Link, NEW k \in SwapKind, NEW w \in Word, SnapCopy(l, k, w)
  PROVE  CtlInv'
  <1> DEFINE v == [link[l].swap EXCEPT ![k][w] = ctl[l].swap[k][w]]
             r == [live |-> link[l].live, swap |-> v, active |-> link[l].active,
                   seqno |-> link[l].seqno, next |-> link[l].next, warmup |-> link[l].warmup,
                   since |-> link[l].since, count |-> link[l].count]
             s == [snap[l] EXCEPT !.left = snap[l].left \ {w}]
  <1>1. v \in SwapValues
    <2>1. /\ link[l].swap \in [SwapKind -> [layout : Layout \cup {0}, gain : 0 .. MaxUpdate]]
          /\ ctl[l].swap \in [SwapKind -> [layout : Layout \cup {0}, gain : 0 .. MaxUpdate]]
      BY LinkFacts DEF LinkTypes, CtlStates, SwapValues
    <2> DEFINE x == link[l].swap[k]
               y == ctl[l].swap[k]
    <2>2. x \in [layout : Layout \cup {0}, gain : 0 .. MaxUpdate]
          /\ y \in [layout : Layout \cup {0}, gain : 0 .. MaxUpdate]
      BY <2>1
    <2>3. [x EXCEPT ![w] = y[w]] \in [layout : Layout \cup {0}, gain : 0 .. MaxUpdate]
      <3> HIDE DEF x, y
      <3>1. CASE w = "layout"
        BY <2>2, <3>1
      <3>2. CASE w = "gain"
        BY <2>2, <3>2
      <3>3. QED
        BY <3>1, <3>2 DEF Word
    <2>4. v = [link[l].swap EXCEPT ![k] = [x EXCEPT ![w] = y[w]]]
      OBVIOUS
    <2>5. QED
      BY <2>1, <2>3, <2>4 DEF SwapValues
  <1>2. link' = [link EXCEPT ![l] = r] /\ snap' = [snap EXCEPT ![l] = s]
    <2>1. [link[l] EXCEPT !.swap = v] = r
      BY Unmoved, LinkUpdate
    <2>2. link' = [link EXCEPT ![l] = [link[l] EXCEPT !.swap = v]]
      BY DEF SnapCopy
    <2>3. QED
      BY <2>1, <2>2 DEF SnapCopy
  <1>3. s \in SnapStates /\ s.pc # "params" /\ s.observed = snap[l].observed
    BY LinkFacts DEF SnapStates, SnapCopy, SwapKind
  <1>4. LinkShape(r)
    BY DEF LinkShape
  <1>5. /\ UNCHANGED << serverVars, applied >> /\ ctl' = [ctl EXCEPT ![l] = ctl[l]]
        /\ ctl[l] \in CtlStates
    BY Unmoved, LinkFacts DEF SnapCopy
  <1>6. /\ r.live = link[l].live /\ r.seqno = link[l].seqno /\ r.swap = v
        /\ r.active \in {"none", "profile", "matrix"} /\ r.next \in 0 .. MaxSlot
    BY LinkFacts DEF LinkTypes
  <1> HIDE DEF r, s, v
  <1>7. QED
    BY <1>1, <1>2, <1>3, <1>4, <1>5, <1>6, SwapMoves

LEMMA SnapConsumeInv ==
  ASSUME CtlInv, NEW l \in Link, NEW k \in SwapKind, SnapConsume(l, k)
  PROVE  CtlInv'
  <1> DEFINE act == IF k = "correlation" THEN link[l].active ELSE k
             r == [live |-> link[l].live, swap |-> link[l].swap, active |-> act,
                   seqno |-> link[l].seqno, next |-> link[l].next, warmup |-> link[l].warmup,
                   since |-> link[l].since, count |-> link[l].count]
             c == [ctl[l] EXCEPT !.pending[k] = FALSE]
             s == [snap[l] EXCEPT !.pc = After(k), !.copy = FALSE,
                                  !.matrix = snap[l].matrix \/ k = "matrix",
                                  !.reset = CASE k = "profile" -> TRUE
                                              [] k = "matrix" -> ~snap[l].preserve
                                              [] OTHER -> snap[l].reset]
  <1>1. act \in {"none", "profile", "matrix"}
    BY LinkFacts DEF LinkTypes, SwapKind
  <1>2. /\ link' = [link EXCEPT ![l] = r] /\ snap' = [snap EXCEPT ![l] = s]
        /\ ctl' = [ctl EXCEPT ![l] = c]
    <2>1. [link[l] EXCEPT !.active = act] = r
      BY Unmoved, LinkUpdate
    <2>2. link' = [link EXCEPT ![l] = [link[l] EXCEPT !.active = act]]
      BY DEF SnapConsume
    <2>3. snap' = [snap EXCEPT ![l] = s]
      BY LinkFacts DEF SnapConsume, SnapStates
    <2>4. QED
      BY <2>1, <2>2, <2>3 DEF SnapConsume
  <1>3. s \in SnapStates /\ s.pc # "params" /\ s.observed = snap[l].observed
    <2>1. After(k) \in {"finish"} \cup SwapKind /\ After(k) # "params"
      BY DEF After, SwapKind
    <2>2. snap[l] \in SnapStates
      BY LinkFacts
    <2>3. (CASE k = "profile" -> TRUE [] k = "matrix" -> ~snap[l].preserve
             [] OTHER -> snap[l].reset) \in BOOLEAN
      BY <2>2 DEF SnapStates
    <2>4. QED
      BY <2>1, <2>2, <2>3 DEF SnapStates
  <1>4. LinkShape(r)
    BY DEF LinkShape
  <1>5. c \in CtlStates /\ c.seqno = ctl[l].seqno /\ c.shadow = ctl[l].shadow
    <2>1. ctl[l] \in CtlStates
      BY LinkFacts
    <2>2. [ctl[l].pending EXCEPT ![k] = FALSE] \in [SwapKind -> BOOLEAN]
      BY <2>1 DEF CtlStates
    <2>3. c = [ctl[l] EXCEPT !.pending = [ctl[l].pending EXCEPT ![k] = FALSE]]
      OBVIOUS
    <2>4. QED
      BY <2>1, <2>2, <2>3 DEF CtlStates
  <1>6. /\ r.live = link[l].live /\ r.seqno = link[l].seqno /\ r.swap \in SwapValues
        /\ r.active = act /\ r.next \in 0 .. MaxSlot
    BY LinkFacts DEF LinkTypes
  <1>7. UNCHANGED << serverVars, applied >>
    BY DEF SnapConsume
  <1> HIDE DEF r, s, c, act
  <1>8. QED
    BY <1>1, <1>2, <1>3, <1>4, <1>5, <1>6, <1>7, SwapMoves

Finished(r, w, x, y, z) ==
  [r EXCEPT !.warmup = w, !.since = x, !.count = y, !.next = z]

\* The same for the fields the end of a snap sets.
LEMMA FinishUpdate ==
  ASSUME NEW r, LinkShape(r), NEW w, NEW x, NEW y, NEW z
  PROVE  Finished(r, w, x, y, z) =
              [live |-> r.live, swap |-> r.swap, active |-> r.active, seqno |-> r.seqno,
               next |-> z, warmup |-> w, since |-> x, count |-> y]
  <1> DEFINE r1 == [r EXCEPT !.warmup = w]
             r2 == [r1 EXCEPT !.since = x]
             r3 == [r2 EXCEPT !.count = y]
             r4 == [r3 EXCEPT !.next = z]
  <1>1. PICK a, b, c, d, e, f, g, h :
          r = [live |-> a, swap |-> b, active |-> c, seqno |-> d,
               next |-> e, warmup |-> f, since |-> g, count |-> h]
    BY DEF LinkShape
  <1>2. r1 = [live |-> a, swap |-> b, active |-> c, seqno |-> d,
              next |-> e, warmup |-> w, since |-> g, count |-> h]
    BY <1>1
  <1>3. Finished(r, w, x, y, z) = r4
    BY DEF Finished
  <1> HIDE DEF r1
  <1>4. r2 = [live |-> a, swap |-> b, active |-> c, seqno |-> d,
              next |-> e, warmup |-> w, since |-> x, count |-> h]
    BY <1>2
  <1> HIDE DEF r2
  <1>5. r3 = [live |-> a, swap |-> b, active |-> c, seqno |-> d,
              next |-> e, warmup |-> w, since |-> x, count |-> y]
    BY <1>4
  <1> HIDE DEF r3
  <1>6. r4 = [live |-> a, swap |-> b, active |-> c, seqno |-> d,
              next |-> z, warmup |-> w, since |-> x, count |-> y]
    BY <1>5
  <1> HIDE DEF r4
  <1>7. QED
    BY <1>1, <1>3, <1>6

LEMMA SnapFinishInv ==
  ASSUME CtlInv, NEW l \in Link, NEW n \in Count, SnapFinish(l, n)
  PROVE  CtlInv'
  <1>1. PICK warm, since :
          link' = [link EXCEPT ![l].warmup = warm, ![l].since = since, ![l].count = n,
                     ![l].next = IF link[l].next < MaxSlot THEN link[l].next + 1
                                 ELSE link[l].next]
    BY DEF SnapFinish
  <1> DEFINE m == IF link[l].next < MaxSlot THEN link[l].next + 1 ELSE link[l].next
             r == [live |-> link[l].live, swap |-> link[l].swap, active |-> link[l].active,
                   seqno |-> link[l].seqno, next |-> m, warmup |-> warm,
                   since |-> since, count |-> n]
  <1>2. link' = [link EXCEPT ![l] = r]
    <2>1. LinkShape(link[l])
      BY Unmoved
    <2>2. Finished(link[l], warm, since, n, m) = r
      <3> HIDE DEF m
      <3>1. QED
        BY <2>1, FinishUpdate
    <2>3. [link[l] EXCEPT !.warmup = warm, !.since = since, !.count = n, !.next = m] = r
      <3> HIDE DEF m, r
      <3>1. QED
        BY <2>2 DEF Finished
    <2>4. link' = [link EXCEPT ![l] =
                     [link[l] EXCEPT !.warmup = warm, !.since = since, !.count = n, !.next = m]]
      BY <1>1, Unmoved
    <2>5. QED
      BY <2>3, <2>4
  <1>3. LinkTypes(l) /\ ctl[l] \in CtlStates
    BY LinkFacts
  <1>4. m \in 0 .. MaxSlot
    BY <1>3, ControlAssumption DEF LinkTypes
  <1>5. /\ LinkShape(r) /\ r.live = link[l].live /\ r.seqno = link[l].seqno
        /\ r.swap \in SwapValues /\ r.active \in {"none", "profile", "matrix"} /\ r.next = m
    BY <1>3 DEF LinkShape, LinkTypes
  <1>6. /\ snap' = [snap EXCEPT ![l] = NoSnap] /\ NoSnap \in SnapStates
        /\ NoSnap.pc # "params" /\ NoSnap.observed = -1
    BY DEF SnapFinish, NoSnap, SnapStates
  <1>7. ctl' = [ctl EXCEPT ![l] = ctl[l]] /\ UNCHANGED << serverVars, applied >>
    BY Unmoved DEF SnapFinish
  <1> HIDE DEF r, m
  <1>8. QED
    BY <1>2, <1>3, <1>4, <1>5, <1>6, <1>7, SwapMoves
-----------------------------------------------------------------------------
(***************************************************************************)
(* The control thread's steps other than a store.                          *)
(***************************************************************************)
LEMMA ProgramLen ==
  \A op, batch : Len(Program(op, batch)) \in {3, 6}
  BY DEF Program, ScalarStores, StagedSwapStores, SwapStores

\* How many operations are to come is a number, and they fit.
LEMMA ToComeFinite ==
  ASSUME CtlInv, NEW l \in Link
  PROVE  /\ IsFiniteSet(ToCome(l)) /\ Cardinality(ToCome(l)) \in Nat
         /\ Len(log[l]) \in Nat /\ Len(log[l]) + Cardinality(ToCome(l)) <= MaxUpdate
         /\ Len(log[l]) <= MaxUpdate
  <1>1. server.todo \in Seq(Op)
    BY DEF CtlInv, Shapes, ServerStates
  <1>2. IsFiniteSet(1 .. Len(server.todo))
    BY <1>1, FS_Interval
  <1>3. ToCome(l) \in SUBSET (1 .. Len(server.todo))
    BY DEF ToCome
  <1>4. IsFiniteSet(ToCome(l)) /\ Cardinality(ToCome(l)) \in Nat
    BY <1>2, <1>3, FS_Subset, FS_CardinalityType
  <1>5. Room(l)
    BY LinkFacts DEF LinkInv
  <1>6. QED
    BY <1>4, <1>5, LinkFacts, ControlAssumption DEF Room

\* A step of the control thread that stores nothing.
LEMMA ServerMoves ==
  ASSUME CtlInv, server.phase # "write", UNCHANGED << ctl, log, linkVars >>,
         NEW s \in ServerStates, server' = s,
         s.phase # "idle" => s.todo # << >>, s.phase = "write" => s.pc = 1,
         DOMAIN batches' \subseteq BatchId, \A b \in DOMAIN batches' : batches'[b] \in Seq(Op),
         batches' = [b \in DOMAIN batches' |-> batches'[b]],
         \A l \in Link : Room(l)'
  PROVE  CtlInv'
  <1> USE DEF linkVars
  <1>1. Shapes'
    BY DEF CtlInv, Shapes
  <1>2. AtWork'
    <2>1. Len(Program(Head(s.todo), s.batch)) \in {3, 6}
      BY ProgramLen
    <2>2. 1 \in 1 .. Len(Program(Head(s.todo), s.batch))
      <3>1. \A n \in {3, 6} : 1 \in 1 .. n
        OBVIOUS
      <3>2. QED
        BY <2>1, <3>1, Zenon
    <2>3. QED
      BY <2>2 DEF AtWork
  <1>3. ASSUME NEW l \in Link PROVE LinkInv(l)'
    <2>1. ~InHand(l) /\ ~InHand(l)'
      BY DEF InHand
    <2>2. LinkInv(l)
      BY LinkFacts
    <2>3. Published(l)' /\ ShadowCovers(l)'
      BY <2>1, <2>2 DEF LinkInv, Published, ShadowCovers
    <2>4. LinkTypes(l)' /\ Observed(l)' /\ LiveCovers(l)'
      BY <2>2 DEF LinkInv, LinkTypes, Observed, LiveCovers
    <2>5. QED
      BY <2>3, <2>4 DEF LinkInv
  <1>4. QED
    BY <1>1, <1>2, <1>3 DEF CtlInv

\* With no request in hand there is nothing to come.
LEMMA IdleRoom ==
  ASSUME CtlInv, NEW l \in Link, log' = log, server'.phase # "write"
  PROVE  Room(l)'
  <1>1. ToCome(l)' = {}
    BY DEF ToCome
  <1>2. Cardinality(ToCome(l)') = 0
    BY <1>1, FS_EmptySet
  <1>3. QED
    BY <1>2, ToComeFinite DEF Room

LEMMA IdleTyped == Idle \in ServerStates /\ Idle.phase = "idle"
  <1>1. << >> \in Seq(Op)
    OBVIOUS
  <1>2. QED
    BY <1>1 DEF Idle, ServerStates

LEMMA BeginInv ==
  ASSUME CtlInv, NEW op \in Op, Begin(op)
  PROVE  CtlInv'
  <1> DEFINE s == [phase |-> "write", todo |-> << op >>, pc |-> 1, batch |-> FALSE]
  <1>1. server' = s
    BY DEF Begin, Idle
  <1>2. s \in ServerStates /\ Len(s.todo) = 1 /\ s.todo[1] = op /\ s.todo # << >>
    <2>1. << op >> \in Seq(Op) /\ Len(<< op >>) = 1 /\ << op >>[1] = op /\ << op >> # << >>
      OBVIOUS
    <2>2. QED
      BY <2>1 DEF ServerStates
  <1>3. s.phase = "write" /\ s.pc = 1
    OBVIOUS
  <1> HIDE DEF s
  <1>4. ASSUME NEW l \in Link PROVE Room(l)'
    <2>1. CASE l = op.link
      <3>1. ToCome(l)' = {1}
        BY <1>1, <1>2, <1>3, <2>1 DEF ToCome
      <3>2. Cardinality(ToCome(l)') = 1
        BY <3>1, FS_Singleton
      <3>3. Len(log[l]) < MaxUpdate /\ log' = log
        BY <2>1 DEF Begin
      <3>4. QED
        BY <3>2, <3>3, ToComeFinite, ControlAssumption DEF Room
    <2>2. CASE l # op.link
      <3>1. ToCome(l)' = {}
        BY <1>1, <1>2, <1>3, <2>2 DEF ToCome
      <3>2. Cardinality(ToCome(l)') = 0 /\ log' = log
        BY <3>1, FS_EmptySet DEF Begin
      <3>3. QED
        BY <3>2, ToComeFinite DEF Room
    <2>3. QED
      BY <2>1, <2>2
  <1>5. /\ UNCHANGED << ctl, log, linkVars, batches >> /\ server.phase # "write"
    BY DEF Begin
  <1>6. /\ DOMAIN batches \subseteq BatchId /\ \A b \in DOMAIN batches : batches[b] \in Seq(Op)
        /\ batches = [b \in DOMAIN batches |-> batches[b]]
    BY DEF CtlInv, Shapes
  <1>7. QED
    BY <1>1, <1>2, <1>3, <1>4, <1>5, <1>6, ServerMoves

LEMMA BatchBeginInv ==
  ASSUME CtlInv, NEW b \in BatchId, BatchBegin(b)
  PROVE  CtlInv'
  <1>1. /\ UNCHANGED << ctl, log, linkVars, server >> /\ server.phase = "idle"
        /\ server \in ServerStates
    BY DEF BatchBegin, CtlInv, Shapes
  <1>2. << >> \in Seq(Op)
    OBVIOUS
  <1>3. /\ DOMAIN batches \subseteq BatchId /\ \A x \in DOMAIN batches : batches[x] \in Seq(Op)
    BY DEF CtlInv, Shapes
  <1>4. /\ batches' = [x \in DOMAIN batches \cup {b} |-> IF x = b THEN << >> ELSE batches[x]]
    BY DEF BatchBegin
  <1>5. /\ DOMAIN batches' \subseteq BatchId /\ \A x \in DOMAIN batches' : batches'[x] \in Seq(Op)
        /\ batches' = [x \in DOMAIN batches' |-> batches'[x]]
    BY <1>2, <1>3, <1>4
  <1>6. \A l \in Link : Room(l)'
    BY <1>1, IdleRoom
  <1>7. QED
    BY <1>1, <1>5, <1>6, ServerMoves

LEMMA StageInv ==
  ASSUME CtlInv, NEW b \in BatchId, NEW op \in Op, Stage(b, op)
  PROVE  CtlInv'
  <1>1. /\ UNCHANGED << ctl, log, linkVars, server >> /\ server.phase = "idle"
        /\ server \in ServerStates /\ b \in DOMAIN batches
    BY DEF Stage, CtlInv, Shapes
  <1>2. /\ DOMAIN batches \subseteq BatchId /\ \A x \in DOMAIN batches : batches[x] \in Seq(Op)
        /\ batches = [x \in DOMAIN batches |-> batches[x]]
    BY DEF CtlInv, Shapes
  <1>3. Append(batches[b], op) \in Seq(Op)
    BY <1>1, <1>2
  <1>4. batches' = [batches EXCEPT ![b] = Append(batches[b], op)]
    BY DEF Stage
  <1>5. /\ DOMAIN batches' \subseteq BatchId /\ \A x \in DOMAIN batches' : batches'[x] \in Seq(Op)
        /\ batches' = [x \in DOMAIN batches' |-> batches'[x]]
    BY <1>1, <1>2, <1>3, <1>4
  <1>6. \A l \in Link : Room(l)'
    BY <1>1, IdleRoom
  <1>7. QED
    BY <1>1, <1>5, <1>6, ServerMoves

\* What Closed leaves of the open batches.
LEMMA ClosedBatches ==
  ASSUME CtlInv, NEW b, batches' = Closed(b)
  PROVE  /\ DOMAIN batches' \subseteq BatchId /\ \A x \in DOMAIN batches' : batches'[x] \in Seq(Op)
         /\ batches' = [x \in DOMAIN batches' |-> batches'[x]]
  BY DEF CtlInv, Shapes, Closed

LEMMA BatchAbortInv ==
  ASSUME CtlInv, NEW b \in BatchId, BatchAbort(b)
  PROVE  CtlInv'
  <1>1. /\ UNCHANGED << ctl, log, linkVars, server >> /\ server.phase = "idle"
        /\ server \in ServerStates /\ batches' = Closed(b)
    BY DEF BatchAbort, CtlInv, Shapes
  <1>2. \A l \in Link : Room(l)'
    BY <1>1, IdleRoom
  <1>3. QED
    BY <1>1, <1>2, ClosedBatches, ServerMoves

LEMMA ReplyInv ==
  ASSUME CtlInv, Reply
  PROVE  CtlInv'
  <1>1. /\ UNCHANGED << ctl, log, linkVars, batches >> /\ server.phase = "reply"
        /\ server' = Idle
    BY DEF Reply
  <1>2. \A l \in Link : Room(l)'
    BY <1>1, IdleRoom, IdleTyped
  <1>3. /\ DOMAIN batches \subseteq BatchId /\ \A b \in DOMAIN batches : batches[b] \in Seq(Op)
        /\ batches = [b \in DOMAIN batches |-> batches[b]]
    BY DEF CtlInv, Shapes
  <1>4. QED
    BY <1>1, <1>2, <1>3, IdleTyped, ServerMoves

LEMMA BatchCommitInv ==
  ASSUME CtlInv, NEW b \in BatchId, NEW at \in Gate, BatchCommit(b, at)
  PROVE  CtlInv'
  <1> DEFINE todo == [i \in DOMAIN batches[b] |-> [batches[b][i] EXCEPT !.at = at]]
             s == [phase |-> "write", pc |-> 1, batch |-> TRUE, todo |-> todo]
  <1>1. /\ UNCHANGED << ctl, log, linkVars >> /\ server.phase = "idle"
        /\ b \in DOMAIN batches /\ batches' = Closed(b) /\ batches[b] \in Seq(Op)
        /\ server' = IF batches[b] = << >> THEN Idle ELSE s
    BY DEF BatchCommit, CtlInv, Shapes
  <1>2. CASE batches[b] = << >>
    <2>1. server' = Idle
      BY <1>1, <1>2
    <2>2. \A l \in Link : Room(l)'
      BY <1>1, <2>1, IdleRoom, IdleTyped
    <2>3. QED
      BY <1>1, <2>1, <2>2, ClosedBatches, IdleTyped, ServerMoves
  <1>3. CASE batches[b] # << >>
    <2>1. DOMAIN batches[b] = 1 .. Len(batches[b]) /\ Len(batches[b]) \in Nat
          /\ Len(batches[b]) # 0
      BY <1>1, <1>3
    <2>2. \A i \in DOMAIN batches[b] :
            /\ [batches[b][i] EXCEPT !.at = at] \in Op
            /\ [batches[b][i] EXCEPT !.at = at].link = batches[b][i].link
      BY <1>1 DEF Op
    <2>3. todo \in Seq(Op) /\ Len(todo) = Len(batches[b]) /\ todo # << >>
      <3>1. todo \in [1 .. Len(batches[b]) -> Op]
        BY <2>1, <2>2
      <3>2. \A n \in Nat \ {0} : \A f \in [1 .. n -> Op] :
              f \in Seq(Op) /\ Len(f) = n /\ f # << >>
        OBVIOUS
      <3> HIDE DEF todo
      <3>3. QED
        BY <2>1, <3>1, <3>2
    <2>4. \A i \in 1 .. Len(batches[b]) : todo[i].link = batches[b][i].link
      BY <2>1, <2>2
    <2> HIDE DEF todo
    <2>5. /\ s \in ServerStates /\ s.phase = "write" /\ s.pc = 1 /\ s.todo = todo
      BY <2>3 DEF ServerStates
    <2>6. server' = s
      BY <1>1, <1>3
    <2> HIDE DEF s
    <2>7. ASSUME NEW l \in Link PROVE Room(l)'
      <3> DEFINE mine == {i \in DOMAIN batches[b] : batches[b][i].link = l}
      <3>1. mine # {} => Len(log[l]) + Cardinality(mine) <= MaxUpdate
        BY DEF BatchCommit
      <3>2. ToCome(l)' = mine
        BY <2>1, <2>3, <2>4, <2>5, <2>6 DEF ToCome
      <3>3. Cardinality({}) = 0 /\ Len(log[l]) <= MaxUpdate /\ Len(log[l]) \in Nat /\ log' = log
        BY <1>1, ToComeFinite, FS_EmptySet
      <3> HIDE DEF mine
      <3>4. CASE mine = {}
        BY <3>2, <3>3, <3>4 DEF Room
      <3>5. CASE mine # {}
        BY <3>1, <3>2, <3>3, <3>5 DEF Room
      <3>6. QED
        BY <3>4, <3>5
    <2>8. QED
      BY <1>1, <2>3, <2>5, <2>6, <2>7, ClosedBatches, ServerMoves
  <1>4. QED
    BY <1>2, <1>3
-----------------------------------------------------------------------------
(***************************************************************************)
(* A store.                                                                *)
(***************************************************************************)

LEMMA InjectionCount ==
  \A S, T, f : IsFiniteSet(T) /\ f \in Injection(S, T) =>
    IsFiniteSet(S) /\ Cardinality(S) <= Cardinality(T)
  BY FS_Injection

\* What is to come after the first operation of a request, counted from it or
\* from the next one.
LEMMA ShiftedCount ==
  ASSUME NEW todo \in Seq(Op), todo # << >>, NEW q,
         NEW A, A = {i \in 1 .. Len(Tail(todo)) : Tail(todo)[i].link = q},
         NEW B, B = {i \in 1 .. Len(todo) : todo[i].link = q /\ i > 1}
  PROVE  IsFiniteSet(A) /\ Cardinality(A) <= Cardinality(B)
  <1>1. /\ Len(todo) \in Nat /\ Len(Tail(todo)) = Len(todo) - 1
        /\ \A i \in 1 .. Len(Tail(todo)) : Tail(todo)[i] = todo[i + 1]
    OBVIOUS
  <1>2. IsFiniteSet(B)
    <2>1. IsFiniteSet(1 .. Len(todo)) /\ B \in SUBSET (1 .. Len(todo))
      BY <1>1, FS_Interval
    <2>2. QED
      BY <2>1, FS_Subset
  <1> DEFINE f == [i \in A |-> i + 1]
  <1>3. A \subseteq Nat /\ \A i \in A : i + 1 \in B
    BY <1>1
  <1>4. f \in Injection(A, B)
    BY <1>3 DEF Injection, IsInjective
  <1> HIDE DEF f
  <1>5. QED
    BY <1>2, <1>4, InjectionCount

\* The request in hand and the store to come.
LEMMA WriteFacts ==
  ASSUME CtlInv, server.phase = "write",
         NEW op, op = Head(server.todo), NEW program, program = Program(op, server.batch)
  PROVE  /\ server.todo \in Seq(Op) /\ server.todo # << >> /\ Len(server.todo) \in Nat \ {0}
         /\ op \in Op /\ op = server.todo[1] /\ op.link \in Link
         /\ Len(program) \in {3, 6} /\ server.pc \in 1 .. Len(program)
         /\ program[server.pc] \in StoreName
         /\ program[server.pc] = "bump" <=> server.pc = Len(program)
         /\ op.what \in Param =>
              /\ Len(program) = 3 /\ (program[server.pc] = "param" <=> server.pc = 2)
              /\ program[server.pc] \in {"gate", "param", "bump"}
         /\ program[server.pc] = "param" => op.what \in Param
         /\ server \in ServerStates
  <1>1. server \in ServerStates /\ server.todo \in Seq(Op) /\ server.todo # << >>
        /\ server.pc \in 1 .. Len(program)
    BY DEF CtlInv, Shapes, ServerStates, AtWork
  <1>2. op \in Op /\ op = server.todo[1] /\ Len(server.todo) \in Nat \ {0}
    BY <1>1
  <1>3. QED
    BY <1>1, <1>2, ProgramShape, OpFields

\* Where the request stands after the store.
LEMMA WriteServer ==
  ASSUME CtlInv, Write, NEW op, op = Head(server.todo),
         NEW program, program = Program(op, server.batch)
  PROVE  /\ server' \in ServerStates /\ AtWork'
         /\ \/ /\ server.pc < Len(program) /\ server' = [server EXCEPT !.pc = server.pc + 1]
               /\ server'.phase = "write" /\ server'.pc = server.pc + 1
               /\ server'.todo = server.todo
            \/ server.pc = Len(program) /\ server'.phase # "write"
            \/ /\ server.pc = Len(program) /\ server'.phase = "write" /\ server'.pc = 1
               /\ server'.todo = Tail(server.todo)
  <1>1. server.phase = "write"
    BY DEF Write
  <1>2. /\ server.todo \in Seq(Op) /\ server.todo # << >> /\ Len(server.todo) \in Nat \ {0}
        /\ Len(program) \in {3, 6} /\ server.pc \in 1 .. Len(program)
        /\ server \in ServerStates
    BY <1>1, WriteFacts
  <1> DEFINE answered == [server EXCEPT !.phase = "reply"]
             next == [server EXCEPT !.todo = Tail(server.todo), !.pc = 1]
  <1>3. server' =
          IF server.pc < Len(program) THEN [server EXCEPT !.pc = server.pc + 1]
          ELSE IF ~server.batch THEN answered
          ELSE IF Len(server.todo) = 1 THEN Idle
          ELSE next
    BY DEF Write
  <1>4. /\ server.pc < Len(program) \/ server.pc = Len(program)
        /\ server.pc = Len(program) => ~(server.pc < Len(program))
    BY <1>2
  <1>5. CASE server.pc < Len(program)
    <2>1. server' = [server EXCEPT !.pc = server.pc + 1]
      BY <1>3, <1>5
    <2>2. /\ server' \in ServerStates /\ server'.phase = "write" /\ server'.pc = server.pc + 1
          /\ server'.todo = server.todo /\ server'.batch = server.batch
      BY <1>1, <1>2, <2>1 DEF ServerStates
    <2>3. server.pc + 1 \in 1 .. Len(program)
      BY <1>2, <1>5
    <2>4. AtWork'
      BY <1>2, <2>2, <2>3 DEF AtWork
    <2>5. QED
      BY <1>5, <2>1, <2>2, <2>4
  <1>6. CASE server.pc = Len(program) /\ ~server.batch
    <2>1. server' = answered
      <3> HIDE DEF answered, next
      <3>1. QED
        BY <1>3, <1>4, <1>6
    <2>2. /\ server' \in ServerStates /\ server'.phase = "reply" /\ server'.todo = server.todo
      BY <1>2, <2>1 DEF ServerStates
    <2>3. QED
      BY <1>2, <1>6, <2>2 DEF AtWork
  <1>7. CASE server.pc = Len(program) /\ server.batch /\ Len(server.todo) = 1
    <2>1. server' = Idle
      <3> HIDE DEF answered, next
      <3>1. QED
        BY <1>3, <1>4, <1>7, Zenon
    <2>2. QED
      BY <1>7, <2>1, IdleTyped DEF AtWork
  <1>8. CASE server.pc = Len(program) /\ server.batch /\ Len(server.todo) # 1
    <2>1. server' = next
      <3> HIDE DEF answered, next
      <3>1. QED
        BY <1>3, <1>4, <1>8, Zenon
    <2>2. Tail(server.todo) \in Seq(Op) /\ Tail(server.todo) # << >>
      <3>1. Tail(server.todo) \in Seq(Op) /\ Len(Tail(server.todo)) = Len(server.todo) - 1
        BY <1>2
      <3>2. Len(Tail(server.todo)) # 0 /\ Len(<< >>) = 0
        BY <1>2, <1>8, <3>1
      <3>3. QED
        BY <3>1, <3>2
    <2>3. /\ server' \in ServerStates /\ server'.phase = "write" /\ server'.pc = 1
          /\ server'.todo = Tail(server.todo)
      BY <1>1, <1>2, <2>1, <2>2 DEF ServerStates
    <2>4. 1 \in 1 .. Len(Program(Head(server'.todo), server'.batch))
      <3>1. \A n \in {3, 6} : 1 \in 1 .. n
        OBVIOUS
      <3>2. QED
        BY <3>1, ProgramLen, Zenon
    <2>5. AtWork'
      BY <2>2, <2>3, <2>4 DEF AtWork
    <2>6. QED
      BY <1>8, <2>3, <2>5
  <1>9. QED
    BY <1>4, <1>5, <1>6, <1>7, <1>8

\* The operation in hand, its program, the store to come, and the log of its
\* link with it entered.
HandOp == Head(server.todo)
HandProgram == Program(HandOp, server.batch)
HandStep == HandProgram[server.pc]
Opening == IF server.pc = 1 THEN Append(log[HandOp.link], HandOp) ELSE log[HandOp.link]

\* What the store writes, and the log it is entered in.
LEMMA WriteLog ==
  ASSUME CtlInv, Write, NEW l, l = HandOp.link, NEW opening, opening = Opening
  PROVE  /\ opening \in Seq(Op) /\ log' = [log EXCEPT ![l] = opening]
         /\ ctl' = [ctl EXCEPT ![l] = Store(ctl[l], HandOp, HandStep, Len(opening))]
         /\ Len(opening) \in 0 .. MaxUpdate
         /\ Len(opening) = IF server.pc = 1 THEN Len(log[l]) + 1 ELSE Len(log[l])
         /\ \A n \in 1 .. Len(log[l]) : opening[n] = log[l][n]
         /\ opening # << >> /\ opening[Len(opening)] = HandOp
  <1>1. server.phase = "write" /\ l \in Link /\ HandOp \in Op
    BY WriteFacts DEF Write, HandOp
  <1>2. log[l] \in Seq(Op) /\ Len(log[l]) \in Nat
    BY <1>1, LinkFacts
  <1>3. log' = [log EXCEPT ![l] = opening]
        /\ ctl' = [ctl EXCEPT ![l] = Store(ctl[l], HandOp, HandStep, Len(opening))]
    BY DEF Write, HandOp, HandProgram, HandStep, Opening
  <1>4. CASE server.pc = 1
    <2>1. /\ opening \in Seq(Op) /\ Len(opening) = Len(log[l]) + 1 /\ opening # << >>
          /\ \A n \in 1 .. Len(log[l]) : opening[n] = log[l][n]
          /\ opening[Len(opening)] = HandOp
      <3>1. \A s \in Seq(Op), e \in Op :
              /\ Append(s, e) \in Seq(Op) /\ Len(Append(s, e)) = Len(s) + 1
              /\ Append(s, e) # << >> /\ Append(s, e)[Len(s) + 1] = e
              /\ \A n \in 1 .. Len(s) : Append(s, e)[n] = s[n]
        OBVIOUS
      <3>2. opening = Append(log[l], HandOp)
        BY <1>4 DEF Opening
      <3>3. QED
        BY <1>1, <1>2, <3>1, <3>2
    <2>2. 1 \in ToCome(l)
      BY <1>1, <1>4, WriteFacts DEF ToCome, HandOp
    <2>3. Cardinality(ToCome(l)) # 0 /\ Cardinality(ToCome(l)) \in Nat
          /\ Len(log[l]) + Cardinality(ToCome(l)) <= MaxUpdate
      BY <1>1, <2>2, ToComeFinite, FS_EmptySet
    <2>4. Len(opening) \in 0 .. MaxUpdate
      BY <1>2, <2>1, <2>3, ControlAssumption
    <2>5. QED
      BY <1>3, <1>4, <2>1, <2>4
  <1>5. CASE server.pc # 1
    <2>1. InHand(l)
      BY <1>1, <1>5, WriteFacts DEF InHand, HandOp
    <2>2. log[l] # << >> /\ log[l][Len(log[l])] = HandOp
      BY <1>1, <2>1, LinkFacts DEF LinkInv, Published, HandOp
    <2>3. opening = log[l] /\ Len(log[l]) <= MaxUpdate
      BY <1>1, <1>5, ToComeFinite DEF Opening
    <2>4. QED
      BY <1>2, <1>3, <1>5, <2>2, <2>3, ControlAssumption
  <1>6. QED
    BY <1>4, <1>5

\* The operations still to come fit in the log.
LEMMA WriteRoom ==
  ASSUME CtlInv, Write, NEW q \in Link
  PROVE  Room(q)'
  <1> DEFINE l == HandOp.link
             program == HandProgram
             opening == Opening
  <1>1. server.phase = "write"
    BY DEF Write
  <1>2. /\ server.todo \in Seq(Op) /\ server.todo # << >> /\ Len(server.todo) \in Nat \ {0}
        /\ l = server.todo[1].link /\ l \in Link
        /\ Len(program) \in {3, 6} /\ server.pc \in 1 .. Len(program)
    BY <1>1, WriteFacts DEF HandOp, HandProgram
  <1>3. /\ log' = [log EXCEPT ![l] = opening] /\ Len(opening) \in 0 .. MaxUpdate
        /\ Len(opening) = IF server.pc = 1 THEN Len(log[l]) + 1 ELSE Len(log[l])
    BY WriteLog
  <1>4. \/ /\ server.pc < Len(program)
           /\ server'.phase = "write" /\ server'.pc = server.pc + 1
           /\ server'.todo = server.todo
        \/ server.pc = Len(program) /\ server'.phase # "write"
        \/ /\ server.pc = Len(program) /\ server'.phase = "write" /\ server'.pc = 1
           /\ server'.todo = Tail(server.todo)
    BY WriteServer DEF HandOp, HandProgram
  <1> HIDE DEF program, l, opening
  <1>5. log \in [Link -> Seq(Op)]
    BY DEF CtlInv, Shapes
  <1>6. /\ IsFiniteSet(ToCome(q)) /\ Cardinality(ToCome(q)) \in Nat /\ Len(log[q]) \in Nat
        /\ Len(log[q]) + Cardinality(ToCome(q)) <= MaxUpdate /\ MaxUpdate \in Nat
    BY ToComeFinite, ControlAssumption
  <1>7. /\ Len(log'[q]) \in 0 .. MaxUpdate
        /\ Len(log'[q]) = IF q = l /\ server.pc = 1 THEN Len(log[q]) + 1 ELSE Len(log[q])
    BY <1>2, <1>3, <1>5, <1>6
  <1>8. CASE /\ server.pc < Len(program)
             /\ server'.phase = "write" /\ server'.pc = server.pc + 1
             /\ server'.todo = server.todo
    <2>1. CASE q = l /\ server.pc = 1
      <3>1. ToCome(q)' = ToCome(q) \ {1} /\ 1 \in ToCome(q)
        BY <1>1, <1>2, <1>8, <2>1 DEF ToCome
      <3>2. Cardinality(ToCome(q)') = Cardinality(ToCome(q)) - 1
        BY <1>6, <3>1, FS_RemoveElement
      <3>3. QED
        BY <1>6, <1>7, <2>1, <3>2 DEF Room
    <2>2. CASE ~(q = l /\ server.pc = 1)
      <3>1. ToCome(q)' = ToCome(q)
        BY <1>1, <1>2, <1>8, <2>2 DEF ToCome
      <3>2. QED
        BY <1>6, <1>7, <2>2, <3>1 DEF Room
    <2>3. QED
      BY <2>1, <2>2
  <1>9. CASE server'.phase # "write"
    <2>1. ToCome(q)' = {}
      BY <1>9 DEF ToCome
    <2>2. Cardinality(ToCome(q)') = 0
      BY <2>1, FS_EmptySet
    <2>3. QED
      BY <1>7, <2>2 DEF Room
  <1>10. CASE /\ server.pc = Len(program) /\ server'.phase = "write" /\ server'.pc = 1
              /\ server'.todo = Tail(server.todo)
    <2> DEFINE A == {i \in 1 .. Len(Tail(server.todo)) : Tail(server.todo)[i].link = q}
               B == {i \in 1 .. Len(server.todo) : server.todo[i].link = q /\ i > 1}
    <2>1. server.pc # 1
      <3>1. \A n \in {3, 6} : n # 1
        OBVIOUS
      <3>2. QED
        BY <1>2, <1>10, <3>1, Zenon
    <2>2. ToCome(q)' = A /\ ToCome(q) = B
      BY <1>1, <1>2, <1>10, <2>1 DEF ToCome
    <2>3. IsFiniteSet(A) /\ Cardinality(A) <= Cardinality(B)
      BY <1>2, ShiftedCount
    <2> HIDE DEF A, B
    <2>4. Cardinality(A) \in Nat
      BY <2>3, FS_CardinalityType
    <2>5. QED
      BY <1>6, <1>7, <2>1, <2>2, <2>3, <2>4 DEF Room
  <1>11. QED
    BY <1>4, <1>8, <1>9, <1>10

\* The store leaves the other links as they were.
LEMMA WriteOther ==
  ASSUME CtlInv, Write, NEW q \in Link, q # HandOp.link
  PROVE  LinkInv(q)'
  <1>1. Room(q)'
    BY WriteRoom
  <1>2. /\ ctl'[q] = ctl[q] /\ log'[q] = log[q] /\ link' = link /\ snap' = snap
        /\ applied' = applied
    <2>1. ctl \in [Link -> CtlStates] /\ log \in [Link -> Seq(Op)]
      BY DEF CtlInv, Shapes
    <2>2. PICK d, o :
            ctl' = [ctl EXCEPT ![HandOp.link] = d] /\ log' = [log EXCEPT ![HandOp.link] = o]
      BY DEF Write, HandOp
    <2>3. QED
      BY <2>1, <2>2 DEF Write, linkVars
  <1>3. ~InHand(q) /\ ~InHand(q)'
    <2>1. server.phase = "write"
      BY DEF Write
    <2>2. \/ server'.todo = server.todo
          \/ server'.phase # "write"
          \/ server'.pc = 1
      BY WriteServer DEF HandOp
    <2>3. QED
      BY <2>2 DEF InHand, HandOp
  <1>4. LinkInv(q)
    BY LinkFacts
  <1>5. Published(q)' /\ ShadowCovers(q)'
    BY <1>2, <1>3, <1>4 DEF LinkInv, Published, ShadowCovers
  <1>6. LinkTypes(q)' /\ Observed(q)' /\ LiveCovers(q)'
    BY <1>2, <1>4 DEF LinkInv, LinkTypes, Observed, LiveCovers
  <1>7. QED
    BY <1>1, <1>5, <1>6 DEF LinkInv

\* The store and the link it is made to: whatever the seqno counts is in the
\* shadow, for the parameter is written before the bump.
LEMMA WriteOwn ==
  ASSUME CtlInv, Write, NEW l, l = HandOp.link
  PROVE  l \in Link /\ LinkInv(l)' /\ Store(ctl[l], HandOp, HandStep, Len(Opening)) \in CtlStates
  <1> DEFINE program == HandProgram
             pc == server.pc
             op == HandOp
             m == Len(Opening)
             d == Store(ctl[l], HandOp, HandStep, m)
  <1>1. server.phase = "write"
    BY DEF Write
  <1>2. /\ server.todo \in Seq(Op) /\ op \in Op /\ op = Head(server.todo) /\ l \in Link
        /\ Len(program) \in {3, 6} /\ pc \in 1 .. Len(program)
        /\ HandStep \in StoreName
        /\ HandStep = "bump" <=> pc = Len(program)
        /\ op.what \in Param =>
             /\ Len(program) = 3 /\ (HandStep = "param" <=> pc = 2)
             /\ HandStep \in {"gate", "param", "bump"}
        /\ HandStep = "param" => op.what \in Param
    BY <1>1, WriteFacts DEF HandOp, HandProgram, HandStep
  <1>3. /\ log'[l] = Opening /\ m \in 0 .. MaxUpdate
        /\ m = IF pc = 1 THEN Len(log[l]) + 1 ELSE Len(log[l])
        /\ \A n \in 1 .. Len(log[l]) : Opening[n] = log[l][n]
        /\ Opening # << >> /\ Opening[m] = op
        /\ ctl'[l] = d
    <2>1. ctl \in [Link -> CtlStates] /\ log \in [Link -> Seq(Op)]
      BY DEF CtlInv, Shapes
    <2>2. /\ log' = [log EXCEPT ![l] = Opening] /\ m \in 0 .. MaxUpdate
          /\ m = IF pc = 1 THEN Len(log[l]) + 1 ELSE Len(log[l])
          /\ \A n \in 1 .. Len(log[l]) : Opening[n] = log[l][n]
          /\ Opening # << >> /\ Opening[m] = op
          /\ ctl' = [ctl EXCEPT ![l] = d]
      BY WriteLog
    <2> HIDE DEF d, m
    <2>3. QED
      BY <1>2, <2>1, <2>2
  <1>4. /\ d \in CtlStates
        /\ d.seqno = IF HandStep = "bump" THEN ctl[l].seqno + 1 ELSE ctl[l].seqno
        /\ d.shadow = IF HandStep = "param" THEN [ctl[l].shadow EXCEPT ![op.what] = m]
                      ELSE ctl[l].shadow
    <2>1. ctl[l] \in CtlStates
      BY <1>2, LinkFacts
    <2> HIDE DEF m
    <2>2. QED
      BY <1>2, <1>3, <2>1, StoreTypes
  <1>5. /\ ctl[l].seqno \in Nat /\ ctl[l].shadow \in [Param -> 0 .. MaxUpdate]
        /\ Len(log[l]) \in Nat /\ MaxUpdate \in Nat
        /\ ctl[l].seqno = IF pc = 1 THEN Len(log[l]) ELSE Len(log[l]) - 1
        /\ InHand(l) <=> pc # 1
    <2>1. InHand(l) <=> pc # 1
      BY <1>1, <1>2 DEF InHand
    <2>2. Published(l)
      BY <1>2, LinkFacts DEF LinkInv
    <2>3. QED
      BY <1>2, <2>1, <2>2, LinkFacts, ControlAssumption DEF Published
  <1>6. \/ /\ pc < Len(program) /\ InHand(l)' /\ server'.pc = pc + 1 /\ Head(server'.todo) = op
           /\ HandStep # "bump"
        \/ pc = Len(program) /\ ~InHand(l)' /\ HandStep = "bump" /\ pc # 1
    <2>1. \/ /\ pc < Len(program)
             /\ server'.phase = "write" /\ server'.pc = pc + 1
             /\ server'.todo = server.todo
          \/ pc = Len(program) /\ server'.phase # "write"
          \/ pc = Len(program) /\ server'.pc = 1
      BY WriteServer DEF HandOp, HandProgram
    <2>2. \A n \in {3, 6} : n # 1
      OBVIOUS
    <2>3. pc = Len(program) => pc # 1
      BY <1>2, <2>2, Zenon
    <2> HIDE DEF program
    <2>4. CASE /\ pc < Len(program)
               /\ server'.phase = "write" /\ server'.pc = pc + 1
               /\ server'.todo = server.todo
      <3>1. pc + 1 > 1 /\ pc # Len(program)
        BY <1>2, <2>4
      <3>2. QED
        BY <1>2, <2>4, <3>1 DEF InHand
    <2>5. CASE pc = Len(program) /\ (server'.phase # "write" \/ server'.pc = 1)
      BY <1>2, <2>3, <2>5 DEF InHand
    <2>6. QED
      BY <2>1, <2>4, <2>5
  <1>7. ctl[l].seqno <= Len(log[l]) /\ d.seqno \in Nat /\ ctl[l].seqno <= d.seqno
    BY <1>4, <1>5
  <1>8. link' = link /\ snap' = snap /\ applied' = applied
    BY DEF Write, linkVars
  <1>9. Room(l)'
    BY <1>2, WriteRoom
  <1> HIDE DEF program, pc, op, m, d
  <1>10. Published(l)'
    <2>1. CASE HandStep # "bump" /\ InHand(l)' /\ Head(server'.todo) = op
      <3>1. d.seqno = m - 1
        BY <1>3, <1>4, <1>5, <2>1
      <3>2. QED
        BY <1>3, <2>1, <3>1 DEF Published, m
    <2>2. CASE pc = Len(program) /\ ~InHand(l)' /\ HandStep = "bump" /\ pc # 1
      <3>1. d.seqno = m
        BY <1>3, <1>4, <1>5, <2>2
      <3>2. QED
        BY <1>3, <2>2, <3>1 DEF Published, m
    <2>3. QED
      BY <1>6, <2>1, <2>2
  <1>11. ShadowCovers(l)'
    <2> SUFFICES ASSUME NEW p \in Param
                 PROVE  /\ d.shadow[p] <= m
                        /\ \A n \in 1 .. d.seqno : Opening[n].what = p => n <= d.shadow[p]
                        /\ InHand(l)' /\ server'.pc = 3 /\ Head(server'.todo).what = p =>
                             d.shadow[p] = m
      BY <1>3 DEF ShadowCovers, m
    <2>1. /\ ctl[l].shadow[p] <= Len(log[l]) /\ ctl[l].shadow[p] \in Nat
          /\ \A n \in 1 .. ctl[l].seqno : log[l][n].what = p => n <= ctl[l].shadow[p]
          /\ InHand(l) /\ server.pc = 3 /\ Head(server.todo).what = p =>
               ctl[l].shadow[p] = Len(log[l])
      BY <1>2, <1>5, LinkFacts DEF ShadowCovers
    <2>2. d.shadow[p] = IF HandStep = "param" /\ op.what = p THEN m ELSE ctl[l].shadow[p]
      BY <1>4, <1>5
    <2>3. m \in Nat /\ Len(log[l]) <= m
      BY <1>3, <1>5
    <2>4. d.shadow[p] <= m /\ ctl[l].shadow[p] <= d.shadow[p]
      BY <2>1, <2>2, <2>3, <1>5
    <2>5. \A n \in 1 .. ctl[l].seqno : Opening[n].what = p => n <= d.shadow[p]
      BY <1>3, <1>5, <1>7, <2>1, <2>2, <2>3, <2>4
    <2>6. ASSUME HandStep = "bump", op.what = p PROVE d.shadow[p] = m
      <3>1. pc = Len(program) /\ Len(program) = 3 /\ HandStep # "param"
        BY <1>2, <2>6 DEF op
      <3>2. ctl[l].shadow[p] = Len(log[l]) /\ m = Len(log[l])
        BY <1>2, <1>3, <1>5, <2>1, <2>6, <3>1 DEF pc
      <3>3. QED
        BY <2>2, <3>1, <3>2
    <2>7. \A n \in 1 .. d.seqno : Opening[n].what = p => n <= d.shadow[p]
      <3>1. CASE HandStep # "bump"
        BY <1>4, <2>5, <3>1
      <3>2. CASE HandStep = "bump"
        <4>1. d.seqno = m /\ d.seqno = ctl[l].seqno + 1
          BY <1>2, <1>3, <1>4, <1>5, <1>6, <3>2
        <4>2. \A n \in 1 .. d.seqno : n \in 1 .. ctl[l].seqno \/ n = m
          BY <4>1, <1>5
        <4>3. Opening[m].what = p => m <= d.shadow[p]
          BY <1>3, <2>3, <2>6, <3>2
        <4>4. QED
          BY <2>5, <4>2, <4>3
      <3>3. QED
        BY <3>1, <3>2
    <2>8. ASSUME InHand(l)', server'.pc = 3, Head(server'.todo).what = p
          PROVE  d.shadow[p] = m
      <3>1. pc + 1 = 3 /\ Head(server'.todo) = op
        BY <1>6, <2>8
      <3>2. pc = 2 /\ op.what = p
        BY <1>2, <2>8, <3>1
      <3>3. HandStep = "param"
        BY <1>2, <3>2
      <3>4. QED
        BY <2>2, <3>2, <3>3
    <2>9. QED
      BY <2>4, <2>7, <2>8
  <1>12. LinkTypes(l)'
    BY <1>2, <1>8, LinkFacts DEF LinkTypes
  <1>13. Observed(l)'
    <2>1. Observed(l) /\ snap[l].observed \in Int
      BY <1>2, LinkFacts
    <2>2. /\ link[l].seqno \in 0 .. d.seqno /\ Len(applied[l]) = link[l].seqno
          /\ snap[l].observed \in -1 .. d.seqno
      <3>1. /\ link[l].seqno \in 0 .. ctl[l].seqno /\ Len(applied[l]) = link[l].seqno
            /\ snap[l].observed \in -1 .. ctl[l].seqno
        BY ONLY <2>1 DEF Observed
      <3>2. ctl[l].seqno \in Nat
        BY <1>2, LinkFacts
      <3>3. \A a, b \in Nat, c \in Int : a <= b => (c \in 0 .. a => c \in 0 .. b)
                                               /\ (c \in -1 .. a => c \in -1 .. b)
        OBVIOUS
      <3>4. link[l].seqno \in Int /\ snap[l].observed \in Int
        BY ONLY <3>1, <3>2
      <3>5. QED
        BY ONLY <1>7, <3>1, <3>2, <3>3, <3>4
    <2>3. QED
      BY <1>3, <1>8, <2>1, <2>2 DEF Observed
  <1>14. LiveCovers(l)'
    <2>1. /\ \A n \in 1 .. link[l].seqno : n \in 1 .. Len(log[l])
          /\ \A n \in 1 .. snap[l].observed : n \in 1 .. Len(log[l])
      <3>1. Observed(l) /\ snap[l].observed \in Int
        BY <1>2, LinkFacts
      <3>2. link[l].seqno \in 0 .. ctl[l].seqno /\ snap[l].observed \in -1 .. ctl[l].seqno
        BY <3>1 DEF Observed
      <3>3. \A a, b, c \in Int : a <= b /\ b <= c => \A n \in 1 .. a : n \in 1 .. c
        OBVIOUS
      <3>4. QED
        BY <1>5, <1>7, <3>2, <3>3
    <2>2. LiveCovers(l)
      BY <1>2, LinkFacts
    <2>3. QED
      BY <1>3, <1>8, <2>1, <2>2 DEF LiveCovers
  <1>15. QED
    BY <1>2, <1>4, <1>9, <1>10, <1>11, <1>12, <1>13, <1>14 DEF LinkInv, d, m

LEMMA WriteInv ==
  ASSUME CtlInv, Write
  PROVE  CtlInv'
  <1>0. PICK l : l = HandOp.link
    OBVIOUS
  <1> DEFINE d == Store(ctl[l], HandOp, HandStep, Len(Opening))
  <1>1. l \in Link /\ LinkInv(l)' /\ d \in CtlStates
    BY <1>0, WriteOwn
  <1>2. log' = [log EXCEPT ![l] = Opening] /\ ctl' = [ctl EXCEPT ![l] = d] /\ Opening \in Seq(Op)
    BY <1>0, WriteLog
  <1>3. server' \in ServerStates /\ AtWork'
    BY WriteServer
  <1>4. \A q \in Link : LinkInv(q)'
    BY <1>0, <1>1, WriteOther
  <1> HIDE DEF d
  <1>5. Shapes'
    <2>1. ctl' \in [Link -> CtlStates] /\ log' \in [Link -> Seq(Op)]
      BY <1>1, <1>2 DEF CtlInv, Shapes
    <2>2. UNCHANGED << batches, link, snap, applied >>
      BY DEF Write, linkVars
    <2>3. QED
      BY <1>3, <2>1, <2>2 DEF CtlInv, Shapes
  <1>6. QED
    BY <1>3, <1>4, <1>5 DEF CtlInv
-----------------------------------------------------------------------------
LEMMA ServerInv ==
  ASSUME CtlInv, Server
  PROVE  CtlInv'
  <1>1. CASE \E op \in Op : ScalarUpdate(op)
    BY <1>1, BeginInv DEF ScalarUpdate
  <1>2. CASE \E op \in Op : ProfileSwap(op)
    BY <1>2, BeginInv DEF ProfileSwap
  <1>3. CASE \E op \in Op : MatrixProfileSwap(op)
    BY <1>3, BeginInv DEF MatrixProfileSwap
  <1>4. CASE \E op \in Op : CorrelationSwap(op)
    BY <1>4, BeginInv DEF CorrelationSwap
  <1>5. CASE \E b \in BatchId : BatchBegin(b)
    BY <1>5, BatchBeginInv
  <1>6. CASE \E b \in BatchId, op \in Op : Stage(b, op)
    BY <1>6, StageInv
  <1>7. CASE \E b \in BatchId, at \in Gate : BatchCommit(b, at)
    BY <1>7, BatchCommitInv
  <1>8. CASE \E b \in BatchId : BatchAbort(b)
    BY <1>8, BatchAbortInv
  <1>9. CASE Write
    BY <1>9, WriteInv
  <1>10. CASE Reply
    BY <1>10, ReplyInv
  <1>11. QED
    BY <1>1, <1>2, <1>3, <1>4, <1>5, <1>6, <1>7, <1>8, <1>9, <1>10 DEF Server

LEMMA SnapInv ==
  ASSUME CtlInv, NEW l \in Link, Snap(l)
  PROVE  CtlInv'
  <1>1. CASE SnapStore(l)
    BY <1>1, SnapStoreInv
  <1>2. CASE SnapLoad(l)
    BY <1>2, SnapLoadInv
  <1>3. CASE SnapGate(l)
    BY <1>3, SnapGateInv
  <1>4. CASE \E p \in Param : SnapParam(l, p)
    BY <1>4, SnapParamInv
  <1>5. CASE SnapVersion(l)
    BY <1>5, SnapVersionInv
  <1>6. CASE \E k \in SwapKind : SnapTest(l, k) \/ SnapDropped(l, k)
    BY <1>6, SnapTestInv
  <1>7. CASE \E k \in SwapKind, w \in Word : SnapCopy(l, k, w)
    BY <1>7, SnapCopyInv
  <1>8. CASE \E k \in SwapKind : SnapConsume(l, k)
    BY <1>8, SnapConsumeInv
  <1>9. CASE \E n \in Count : SnapFinish(l, n)
    BY <1>9, SnapFinishInv
  <1>10. QED
    BY <1>1, <1>2, <1>3, <1>4, <1>5, <1>6, <1>7, <1>8, <1>9 DEF Snap

\* Whatever the control thread's stores and the producers' loads interleave to,
\* the published seqno, the shadow, what a snap has observed and what it has
\* copied stay in the order that the handshake of snap_mutable_params needs.
THEOREM CtlInvariant == Spec => []CtlInv
  <1>1. CtlInv /\ [Next]_vars => CtlInv'
    <2> SUFFICES ASSUME CtlInv, [Next]_vars PROVE CtlInv'
      OBVIOUS
    <2>1. CASE Server
      BY <2>1, ServerInv
    <2>2. CASE \E l \in Link : Snap(l)
      BY <2>2, SnapInv
    <2>3. CASE UNCHANGED vars
      <3>1. UNCHANGED << ctl, server, batches, link, snap, log, applied >>
        BY <2>3 DEF vars, serverVars, linkVars
      <3>2. \A l \in Link : ToCome(l)' = ToCome(l) /\ (InHand(l)' <=> InHand(l))
        BY <3>1 DEF ToCome, InHand
      <3>3. Shapes' /\ AtWork'
        BY <3>1 DEF CtlInv, Shapes, AtWork
      <3>4. \A l \in Link : LinkInv(l)'
        BY <3>1, LinkKept
      <3>5. QED
        BY <3>3, <3>4 DEF CtlInv
    <2>4. QED
      BY <2>1, <2>2, <2>3 DEF Next
  <1>2. QED
    BY <1>1, CtlStart, PTL DEF Spec

\* Both threads' state keeps its type: a snap never observes a seqno beyond the
\* published one, a link never reports one it was not given, and every slot that
\* took an update live is on record, whatever requests the control server takes.
THEOREM CtlTypes == Spec => []CtlTypeOK
  BY CtlInvariant, InvTypes, PTL

\* A link that reports live_seqno s runs no parameter older than update s, for
\* any number of links, parameters, updates and batches: apply_update writes the
\* shadow before it bumps, snap_mutable_params loads the seqno before it copies.
THEOREM SeqnoCovers == Spec => []SeqnoCoversParams
  BY CtlInvariant, InvCovers, PTL
-----------------------------------------------------------------------------
(***************************************************************************)
(* A patient client.  It waits for telemetry to show an update before it   *)
(* sends the next one for that link, does not put two updates of a link in *)
(* one commit, and sends profiles that the link can use.  Then at most one *)
(* update of a link is on its way at any time, and each stage of it, from  *)
(* the first store of the control thread to the telemetry of the slot that *)
(* took it, is visible in the state: that is what the invariant says.      *)
(***************************************************************************)

Patient == Paced /\ (LeadingTdl \/ Layout \subseteq Forced)
OneEach ==
  \A b \in DOMAIN batches : \A i, j \in DOMAIN batches[b] :
    batches[b][i].link = batches[b][j].link => i = j

Told(l) == telemetry[l].seqno
Last(l) == log[l][Len(log[l])]

\* The store of that name is behind the update in hand.
Stored(l, step) == InHand(l) => \E i \in 1 .. server.pc - 1 : HandProgram[i] = step

\* At most one update of a link is on its way, and what telemetry tells says
\* how far the snap has got with it.
Turn(l) ==
  /\ Told(l) \in Nat /\ Told(l) <= link[l].seqno /\ Len(log[l]) - 1 <= Told(l)
  /\ ToCome(l) # {} => Told(l) = Len(log[l])
  /\ \A i, j \in ToCome(l) : i = j
  /\ snap[l].pc \in {"begin", "params"} => Told(l) = link[l].seqno
  /\ snap[l].pc = "params" => snap[l].observed = Len(log[l]) /\ Told(l) < Len(log[l])
  /\ snap[l].pc \in SwapKind => link[l].seqno = Len(log[l]) /\ Told(l) < Len(log[l])
  /\ snap[l].copy => snap[l].pc \in SwapKind

\* Each parameter, in the shadow and live.
Exact(l) ==
  \A p \in Param :
    /\ ctl[l].shadow[p] =
         IF InHand(l) /\ server.pc = 3 /\ HandOp.what = p THEN Len(log[l])
         ELSE LastIn(log[l], {p}, ctl[l].seqno)
    /\ link[l].live[p] =
         LastIn(log[l], {p}, IF snap[l].pc = "params" /\ p \notin snap[l].left
                             THEN Len(log[l]) ELSE link[l].seqno)

\* What the snap comes to after replacement k.
Later(k) ==
  CASE k = "profile" -> {"matrix", "correlation", "finish"}
    [] k = "matrix" -> {"correlation", "finish"}
    [] k = "correlation" -> {"finish"}

\* The last update is a replacement k that the snap has not come to yet.
Owed(l, k) ==
  /\ Told(l) < Len(log[l]) /\ Last(l).what = k /\ Stored(l, "pending")
  /\ ~(link[l].seqno = Len(log[l]) /\ snap[l].pc \in Later(k))

Owes(l) ==
  \A k \in SwapKind :
    /\ ctl[l].pending[k] <=> Owed(l, k)
    /\ log[l] # << >> /\ Last(l).what = k =>
         /\ Stored(l, "layout") => ctl[l].swap[k].layout = Last(l).layout
         /\ Stored(l, "gain") => ctl[l].swap[k].gain = Len(log[l])

Copying(l, k) == snap[l].copy /\ snap[l].pc = k

Whole(l, k) ==
  LET r == link[l].swap[k]
  IN  r = Blank \/ /\ r.gain \in 1 .. Len(log[l])
                   /\ log[l][r.gain].what = k /\ log[l][r.gain].layout = r.layout

\* The updates that the active profile takes account of, and those the
\* correlation factor does.
ProfileUpTo(l) ==
  IF \/ snap[l].pc \in {"correlation", "finish"}
     \/ snap[l].pc = "matrix" /\ Last(l).what # "matrix"
  THEN link[l].seqno ELSE Told(l)
FactorUpTo(l) == IF snap[l].pc = "finish" THEN link[l].seqno ELSE Told(l)

\* The replacements: one being copied, those in force.
Held(l) ==
  /\ \A k \in SwapKind :
       IF Copying(l, k)
       THEN /\ ctl[l].pending[k]
            /\ \A w \in Word \ snap[l].left : link[l].swap[k][w] = ctl[l].swap[k][w]
       ELSE Whole(l, k)
  /\ ~Copying(l, "profile") /\ ~Copying(l, "matrix") =>
       ActiveGain(l) = LastIn(log[l], {"profile", "matrix"}, ProfileUpTo(l))
  /\ ~Copying(l, "correlation") =>
       link[l].swap["correlation"].gain = LastIn(log[l], {"correlation"}, FactorUpTo(l))

\* The gate is that of the last update, and no update is taken before it opens.
Due(l) ==
  /\ telemetry[l].slot \in Nat /\ telemetry[l].slot <= link[l].next
  /\ \A n \in 1 .. Told(l) : log[l][n].at <= telemetry[l].slot
  /\ snap[l].pc \in {"params"} \cup SwapKind \/ link[l].seqno # Told(l) =>
       Last(l).at <= link[l].next
  /\ log[l] # << >> /\ Stored(l, "gate") => ctl[l].gate = Last(l).at

PatientLink(l) == Turn(l) /\ Exact(l) /\ Owes(l) /\ Held(l) /\ Due(l)
PatientInv ==
  /\ telemetry = [l \in Link |-> telemetry[l]]
  /\ \A l \in Link : PatientLink(l)
-----------------------------------------------------------------------------
(***************************************************************************)
(* Facts about a log, and what the invariant gives.                        *)
(***************************************************************************)
\* LastIn depends on the first s updates alone.
LEMMA LastInSame ==
  ASSUME NEW u, NEW v, NEW names, NEW s \in Nat, \A n \in 1 .. s : u[n] = v[n]
  PROVE  LastIn(u, names, s) = LastIn(v, names, s)
  <1> DEFINE x == LastIn(u, names, s)
             y == LastIn(v, names, s)
  <1>1. /\ x \in Nat /\ (x = 0 \/ (x \in 1 .. s /\ u[x].what \in names))
        /\ \A n \in 1 .. s : u[n].what \in names => n <= x
    BY LastInIs
  <1>2. /\ y \in Nat /\ (y = 0 \/ (y \in 1 .. s /\ v[y].what \in names))
        /\ \A n \in 1 .. s : v[n].what \in names => n <= y
    BY LastInIs
  <1> HIDE DEF x, y
  <1>3. x <= y /\ y <= x
    BY <1>1, <1>2
  <1>4. QED
    BY <1>1, <1>2, <1>3 DEF x, y

\* One update more.
LEMMA LastInNext ==
  ASSUME NEW u, NEW names, NEW s \in Nat
  PROVE  LastIn(u, names, s + 1) =
           IF u[s + 1].what \in names THEN s + 1 ELSE LastIn(u, names, s)
  <1> DEFINE x == LastIn(u, names, s + 1)
             y == LastIn(u, names, s)
  <1>1. /\ x \in Nat /\ (x = 0 \/ (x \in 1 .. s + 1 /\ u[x].what \in names))
        /\ \A n \in 1 .. s + 1 : u[n].what \in names => n <= x
    BY LastInIs
  <1>2. /\ y \in Nat /\ (y = 0 \/ (y \in 1 .. s /\ u[y].what \in names))
        /\ \A n \in 1 .. s : u[n].what \in names => n <= y
    BY LastInIs
  <1> HIDE DEF x, y
  <1>3. CASE u[s + 1].what \in names
    <2>1. s + 1 <= x
      BY <1>1, <1>3
    <2>2. QED
      BY <1>1, <1>3, <2>1 DEF x
  <1>4. CASE u[s + 1].what \notin names
    <2>1. x = 0 \/ x \in 1 .. s
      BY <1>1, <1>4
    <2>2. x <= y /\ y <= x
      BY <1>1, <1>2, <2>1
    <2>3. QED
      BY <1>1, <1>2, <1>4, <2>2 DEF x, y
  <1>5. QED
    BY <1>3, <1>4

\* Where a link's update can be.
LEMMA PatientFacts ==
  ASSUME CtlInv, NEW l \in Link, PatientLink(l)
  PROVE  /\ Len(log[l]) \in Nat /\ Told(l) \in Nat
         /\ link[l].seqno \in Nat /\ ctl[l].seqno \in Nat
         /\ Len(log[l]) - 1 <= Told(l) /\ Told(l) <= link[l].seqno
         /\ link[l].seqno <= ctl[l].seqno /\ ctl[l].seqno <= Len(log[l])
         /\ ctl[l].seqno = IF InHand(l) THEN Len(log[l]) - 1 ELSE Len(log[l])
         /\ log[l] \in Seq(Op)
         /\ snap[l].pc \in {"params"} \cup SwapKind =>
              /\ ~InHand(l) /\ ctl[l].seqno = Len(log[l]) /\ Told(l) = Len(log[l]) - 1
              /\ Len(log[l]) \in 1 .. Len(log[l]) /\ log[l] # << >> /\ Last(l) \in Op
  <1>1. /\ Len(log[l]) \in Nat /\ link[l].seqno \in Nat /\ ctl[l].seqno \in Nat
        /\ ctl[l].seqno <= Len(log[l]) /\ log[l] \in Seq(Op) /\ Published(l) /\ Observed(l)
    BY LinkFacts DEF LinkInv
  <1>2. ctl[l].seqno = IF InHand(l) THEN Len(log[l]) - 1 ELSE Len(log[l])
    BY <1>1 DEF Published
  <1>3. /\ link[l].seqno <= ctl[l].seqno
        /\ snap[l].observed \in -1 .. ctl[l].seqno
    BY <1>1 DEF Observed
  <1>4. /\ Told(l) \in Nat /\ Len(log[l]) - 1 <= Told(l) /\ Told(l) <= link[l].seqno
    BY DEF PatientLink, Turn
  <1>5. ASSUME snap[l].pc \in {"params"} \cup SwapKind
        PROVE  /\ ~InHand(l) /\ ctl[l].seqno = Len(log[l]) /\ Told(l) = Len(log[l]) - 1
               /\ Len(log[l]) \in 1 .. Len(log[l])
    <2>1. /\ Told(l) < Len(log[l])
          /\ snap[l].observed = Len(log[l]) \/ link[l].seqno = Len(log[l])
      BY <1>5 DEF PatientLink, Turn
    <2>2. ctl[l].seqno = Len(log[l])
      BY <1>1, <1>3, <2>1
    <2>3. QED
      BY <1>1, <1>2, <1>4, <2>1, <2>2
  <1>6. \A u \in Seq(Op) : Len(u) \in 1 .. Len(u) => u # << >> /\ u[Len(u)] \in Op
    OBVIOUS
  <1>7. QED
    BY <1>1, <1>2, <1>3, <1>4, <1>5, <1>6 DEF Last

\* A step that leaves a link and its update alone.
LEMMA PatientKept ==
  ASSUME NEW q \in Link, PatientLink(q),
         ctl'[q] = ctl[q], link'[q] = link[q], snap'[q] = snap[q], log'[q] = log[q],
         telemetry'[q] = telemetry[q],
         server' = server \/ (~InHand(q) /\ ~InHand(q)'),
         ToCome(q)' # {} => Told(q) = Len(log[q]),
         \A i, j \in ToCome(q)' : i = j
  PROVE  PatientLink(q)'
  <1>1. InHand(q)' <=> InHand(q)
    BY DEF InHand
  <1>2. InHand(q) => server' = server
    OBVIOUS
  <1>3. Told(q)' = Told(q) /\ Last(q)' = Last(q) /\ ActiveGain(q)' = ActiveGain(q)
    BY DEF Told, Last, ActiveGain
  <1>4. \A step : Stored(q, step)' <=> Stored(q, step)
    BY <1>1, <1>2 DEF Stored, HandProgram, HandOp
  <1>5. Turn(q)'
    BY <1>3 DEF PatientLink, Turn
  <1>6. Exact(q)'
    <2>1. InHand(q) => HandOp' = HandOp /\ server' = server
      BY <1>2 DEF HandOp
    <2>2. QED
      BY <1>1, <2>1 DEF PatientLink, Exact
  <1>7. \A k : Owed(q, k)' <=> Owed(q, k)
    BY <1>3, <1>4 DEF Owed
  <1>8. Owes(q)'
    BY <1>3, <1>4, <1>7 DEF PatientLink, Owes
  <1>9. Held(q)'
    <2>1. /\ \A k : (Copying(q, k)' <=> Copying(q, k)) /\ (Whole(q, k)' <=> Whole(q, k))
          /\ ProfileUpTo(q)' = ProfileUpTo(q) /\ FactorUpTo(q)' = FactorUpTo(q)
      BY <1>3 DEF Copying, Whole, ProfileUpTo, FactorUpTo
    <2>2. QED
      BY <1>3, <2>1 DEF PatientLink, Held
  <1>10. Due(q)'
    BY <1>3, <1>4 DEF PatientLink, Due
  <1>11. QED
    BY <1>5, <1>6, <1>8, <1>9, <1>10 DEF PatientLink

\* A step of the producer of one link.
LEMMA PatientProducer ==
  ASSUME CtlInv, PatientInv, NEW l \in Link, UNCHANGED serverVars, PatientLink(l)',
         telemetry' = [q \in Link |-> telemetry'[q]],
         \A q \in Link : q # l =>
           /\ ctl'[q] = ctl[q] /\ link'[q] = link[q] /\ snap'[q] = snap[q]
           /\ telemetry'[q] = telemetry[q]
  PROVE  PatientInv'
  <1>1. ASSUME NEW q \in Link, q # l PROVE PatientLink(q)'
    <2>1. PatientLink(q) /\ server' = server /\ log' = log /\ ToCome(q)' = ToCome(q)
      BY DEF PatientInv, serverVars, ToCome
    <2>2. (ToCome(q) # {} => Told(q) = Len(log[q])) /\ \A i, j \in ToCome(q) : i = j
      BY <2>1 DEF PatientLink, Turn
    <2>3. QED
      BY <1>1, <2>1, <2>2, PatientKept
  <1>2. QED
    BY <1>1 DEF PatientInv

LEMMA PatientStart == Init => PatientInv
  <1> SUFFICES ASSUME Init PROVE PatientInv
    OBVIOUS
  <1>0. telemetry = [l \in Link |-> telemetry[l]]
    BY DEF Init
  <1>1. ASSUME NEW l \in Link PROVE PatientLink(l)
    <2>1. /\ log[l] = << >> /\ ctl[l].seqno = 0 /\ ctl[l].shadow = [p \in Param |-> 0]
          /\ ctl[l].pending = [k \in SwapKind |-> FALSE] /\ ctl[l].gate = 0
      BY DEF Init
    <2>2. /\ link[l].live = [p \in Param |-> 0] /\ link[l].swap = [k \in SwapKind |-> Blank]
          /\ link[l].active = "none" /\ link[l].seqno = 0 /\ link[l].next = 0
          /\ snap[l].pc = "begin" /\ ~snap[l].copy
      BY DEF Init, NoSnap
    <2>3. telemetry[l].seqno = 0 /\ telemetry[l].slot = 0 /\ server.phase = "idle"
      BY DEF Init, Idle
    <2>4. ~InHand(l) /\ ToCome(l) = {} /\ Told(l) = 0 /\ Len(log[l]) = 0
      BY <2>1, <2>3 DEF InHand, ToCome, Told
    <2>5. \A names : LastIn(log[l], names, 0) = 0
      BY DEF LastIn
    <2>6. "correlation" \in SwapKind /\ "begin" \notin SwapKind
      BY DEF SwapKind
    <2>7. Turn(l)
      BY <2>2, <2>4, <2>6 DEF Turn
    <2>8. Exact(l)
      BY <2>1, <2>2, <2>4, <2>5 DEF Exact
    <2>9. Owes(l)
      BY <2>1, <2>4 DEF Owes, Owed
    <2>10. Held(l)
      <3>1. /\ \A k \in SwapKind : ~Copying(l, k) /\ Whole(l, k)
            /\ ActiveGain(l) = 0 /\ link[l].swap["correlation"].gain = 0
            /\ ProfileUpTo(l) = 0 /\ FactorUpTo(l) = 0
        BY <2>2, <2>4, <2>6 DEF Copying, Whole, ActiveGain, ProfileUpTo, FactorUpTo, Blank
      <3>2. QED
        BY <2>5, <3>1 DEF Held
    <2>11. Due(l)
      BY <2>1, <2>2, <2>3, <2>4, <2>6 DEF Due
    <2>12. QED
      BY <2>7, <2>8, <2>9, <2>10, <2>11 DEF PatientLink
  <1>2. QED
    BY <1>0, <1>1 DEF PatientInv

\* What a slot is served from: the updates that telemetry tells of.
LEMMA PatientServes ==
  ASSUME CtlInv, PatientInv, NEW l \in Link, snap[l].pc = "begin"
  PROVE  /\ Told(l) = link[l].seqno /\ link[l].seqno \in Nat
         /\ \A k \in SwapKind : Whole(l, k)
         /\ \A p \in Param : link[l].live[p] = LastIn(log[l], {p}, link[l].seqno)
         /\ ActiveGain(l) = LastIn(log[l], {"profile", "matrix"}, link[l].seqno)
         /\ link[l].swap["correlation"].gain = LastIn(log[l], {"correlation"}, link[l].seqno)
         /\ \A n \in 1 .. link[l].seqno : log[l][n].at <= telemetry[l].slot
  <1>1. Turn(l) /\ Exact(l) /\ Held(l) /\ Due(l) /\ link[l].seqno \in Nat
    BY LinkFacts DEF PatientInv, PatientLink
  <1>2. Told(l) = link[l].seqno /\ ~snap[l].copy
    BY <1>1 DEF Turn, SwapKind
  <1>3. ProfileUpTo(l) = link[l].seqno /\ FactorUpTo(l) = link[l].seqno
        /\ \A k : ~Copying(l, k)
    BY <1>2 DEF ProfileUpTo, FactorUpTo, Copying
  <1>4. QED
    BY <1>1, <1>2, <1>3 DEF Exact, Held, Due

LEMMA PatientOneVersion == CtlInv /\ PatientInv => OneVersion
  <1> SUFFICES ASSUME CtlInv, PatientInv PROVE OneVersion
    OBVIOUS
  <1>1. \A l, names, s : LastWrite(l, names, s) = LastIn(log[l], names, s)
    BY DEF LastWrite, LastIn
  <1>2. SwapWhole
    <2> SUFFICES ASSUME NEW l \in Link, NEW k \in SwapKind, snap[l].pc = "begin",
                        link[l].swap[k] # Blank
                 PROVE  /\ link[l].swap[k].gain # 0
                        /\ log[l][link[l].swap[k].gain].what = k
                        /\ log[l][link[l].swap[k].gain].layout = link[l].swap[k].layout
      BY DEF SwapWhole, Serving
    <2>1. Whole(l, k)
      BY PatientServes
    <2>2. link[l].swap[k].gain \in 1 .. Len(log[l])
      BY <2>1 DEF Whole
    <2>3. link[l].swap[k].gain # 0
      BY <2>2
    <2>4. QED
      BY <2>1, <2>3 DEF Whole
  <1>3. QED
    BY <1>1, <1>2, PatientServes DEF OneVersion, Serving

LEMMA PatientOnTime == CtlInv /\ PatientInv => NotBeforeItsSlot
  <1> SUFFICES ASSUME CtlInv, PatientInv, NEW l \in Link, snap[l].pc = "begin",
                      NEW n \in {link[l].live[p] : p \in Param} \cup {ActiveGain(l)}
                                \cup {link[l].swap["correlation"].gain},
                      n # 0
               PROVE  log[l][n].at <= telemetry[l].slot
    BY DEF NotBeforeItsSlot, Serving
  <1>1. link[l].seqno \in Nat
    BY PatientServes
  <1>2. PICK names : n = LastIn(log[l], names, link[l].seqno)
    <2>1. CASE n \in {link[l].live[p] : p \in Param}
      <3>1. PICK p \in Param : n = link[l].live[p]
        BY <2>1
      <3>2. n = LastIn(log[l], {p}, link[l].seqno)
        BY <3>1, PatientServes
      <3>3. QED
        BY <3>2
    <2>2. CASE n = ActiveGain(l)
      BY <2>2, PatientServes
    <2>3. CASE n = link[l].swap["correlation"].gain
      BY <2>3, PatientServes
    <2>4. QED
      BY <2>1, <2>2, <2>3
  <1>3. n \in 1 .. link[l].seqno
    BY <1>1, <1>2, LastInIs
  <1>4. QED
    BY <1>3, PatientServes
-----------------------------------------------------------------------------
(***************************************************************************)
(* The producer's steps.                                                   *)
(***************************************************************************)
\* What of the invariant looks at the link, the log and the control thread alone.
LEMMA ServerAside ==
  ASSUME NEW l \in Link, UNCHANGED << serverVars, link, telemetry >>
  PROVE  /\ Told(l)' = Told(l) /\ Last(l)' = Last(l) /\ ActiveGain(l)' = ActiveGain(l)
         /\ ToCome(l)' = ToCome(l) /\ (InHand(l)' <=> InHand(l)) /\ HandOp' = HandOp
         /\ \A step : Stored(l, step)' <=> Stored(l, step)
         /\ \A k : Whole(l, k)' <=> Whole(l, k)
  BY DEF serverVars, Told, Last, ActiveGain, ToCome, InHand, HandOp, HandProgram, Stored, Whole

\* A step before the gate that leaves a link and the words of its shadow alone.
LEMMA PatientBegins ==
  ASSUME CtlInv, PatientInv, NEW l \in Link, UNCHANGED << serverVars, link, telemetry >>,
         NEW c, ctl' = [ctl EXCEPT ![l] = c], c.seqno = ctl[l].seqno,
         c.shadow = ctl[l].shadow, c.pending = ctl[l].pending, c.swap = ctl[l].swap,
         c.gate = ctl[l].gate,
         NEW s, snap' = [snap EXCEPT ![l] = s], snap[l].pc = "begin", s.pc = "begin",
         s.left = snap[l].left, s.copy = snap[l].copy
  PROVE  PatientInv'
  <1>1. ctl'[l] = c /\ snap'[l] = s /\ \A q \in Link : q # l => ctl'[q] = ctl[q] /\ snap'[q] = snap[q]
    BY Unmoved
  <1>2. PatientLink(l) /\ log' = log /\ server' = server /\ link' = link /\ telemetry' = telemetry
    BY DEF PatientInv, serverVars
  <1>3. /\ Told(l)' = Told(l) /\ Last(l)' = Last(l) /\ ActiveGain(l)' = ActiveGain(l)
        /\ ToCome(l)' = ToCome(l) /\ (InHand(l)' <=> InHand(l)) /\ HandOp' = HandOp
        /\ \A step : Stored(l, step)' <=> Stored(l, step)
        /\ \A k : Whole(l, k)' <=> Whole(l, k)
    BY <1>2, ServerAside
  <1>4. Turn(l)' /\ Exact(l)' /\ Due(l)'
    <2>1. Turn(l)'
      BY <1>1, <1>2, <1>3 DEF PatientLink, Turn
    <2>2. Exact(l)'
      BY <1>1, <1>2, <1>3 DEF PatientLink, Exact
    <2>3. Due(l)'
      BY <1>1, <1>2, <1>3 DEF PatientLink, Due
    <2>4. QED
      BY <2>1, <2>2, <2>3
  <1>5. Owes(l)'
    <2>1. \A k : Owed(l, k)' <=> Owed(l, k)
      BY <1>1, <1>2, <1>3 DEF Owed
    <2>2. QED
      BY <1>1, <1>2, <1>3, <2>1 DEF PatientLink, Owes
  <1>6. Held(l)'
    <2>1. /\ \A k : Copying(l, k)' <=> Copying(l, k)
          /\ ProfileUpTo(l)' = ProfileUpTo(l) /\ FactorUpTo(l)' = FactorUpTo(l)
      BY <1>1, <1>2, <1>3 DEF Copying, ProfileUpTo, FactorUpTo
    <2>2. QED
      BY <1>1, <1>2, <1>3, <2>1 DEF PatientLink, Held
  <1>7. telemetry' = [q \in Link |-> telemetry'[q]]
    BY DEF PatientInv
  <1>8. QED
    BY <1>1, <1>2, <1>4, <1>5, <1>6, <1>7, PatientProducer DEF PatientLink

LEMMA PatientStore ==
  ASSUME CtlInv, PatientInv, NEW l \in Link, SnapStore(l)
  PROVE  PatientInv'
  <1> DEFINE c == [ctl[l] EXCEPT !.slot = link[l].next]
             s == [snap[l] EXCEPT !.stored = TRUE]
  <1>1. /\ c.seqno = ctl[l].seqno /\ c.shadow = ctl[l].shadow /\ c.pending = ctl[l].pending
        /\ c.swap = ctl[l].swap /\ c.gate = ctl[l].gate
    BY LinkFacts DEF CtlStates
  <1>2. s.pc = snap[l].pc /\ s.left = snap[l].left /\ s.copy = snap[l].copy
    BY LinkFacts DEF SnapStates
  <1>3. /\ ctl' = [ctl EXCEPT ![l] = c] /\ snap' = [snap EXCEPT ![l] = s]
        /\ snap[l].pc = "begin" /\ UNCHANGED << serverVars, link, telemetry >>
    BY DEF SnapStore
  <1> HIDE DEF c, s
  <1>4. QED
    BY <1>1, <1>2, <1>3, PatientBegins

LEMMA PatientLoad ==
  ASSUME CtlInv, PatientInv, NEW l \in Link, SnapLoad(l)
  PROVE  PatientInv'
  <1> DEFINE s == [snap[l] EXCEPT !.observed = ctl[l].seqno]
  <1>1. s.pc = snap[l].pc /\ s.left = snap[l].left /\ s.copy = snap[l].copy
    BY LinkFacts DEF SnapStates
  <1>2. /\ snap' = [snap EXCEPT ![l] = s] /\ ctl' = [ctl EXCEPT ![l] = ctl[l]]
        /\ snap[l].pc = "begin" /\ UNCHANGED << serverVars, link, telemetry >>
    BY Unmoved DEF SnapLoad
  <1> HIDE DEF s
  <1>3. QED
    BY <1>1, <1>2, PatientBegins

\* A step of the producer of one link that tells nothing.
LEMMA PatientMoves ==
  ASSUME CtlInv, PatientInv, NEW l \in Link, UNCHANGED << serverVars, telemetry >>,
         NEW c, ctl' = [ctl EXCEPT ![l] = c], NEW k, link' = [link EXCEPT ![l] = k],
         NEW s, snap' = [snap EXCEPT ![l] = s], PatientLink(l)'
  PROVE  PatientInv'
  <1>1. \A q \in Link : q # l =>
          /\ ctl'[q] = ctl[q] /\ link'[q] = link[q] /\ snap'[q] = snap[q]
          /\ telemetry'[q] = telemetry[q]
    BY Unmoved
  <1>2. telemetry' = [q \in Link |-> telemetry'[q]]
    BY DEF PatientInv
  <1>3. QED
    BY <1>1, <1>2, PatientProducer

LEMMA PatientGate ==
  ASSUME CtlInv, PatientInv, NEW l \in Link, SnapGate(l)
  PROVE  PatientInv'
  <1> DEFINE s == IF snap[l].observed # link[l].seqno /\ GateOpen(l)
                  THEN [snap[l] EXCEPT !.pc = "params", !.left = Param]
                  ELSE [snap[l] EXCEPT !.pc = "finish"]
  <1>1. /\ snap' = [snap EXCEPT ![l] = s] /\ snap[l].pc = "begin" /\ snap[l].observed # -1
        /\ UNCHANGED << ctl, serverVars, link, telemetry >>
    BY DEF SnapGate
  <1>2. /\ s.observed = snap[l].observed /\ s.copy = snap[l].copy
        /\ \/ /\ s.pc = "params" /\ s.left = Param
              /\ snap[l].observed # link[l].seqno /\ GateOpen(l)
           \/ s.pc = "finish"
    BY LinkFacts DEF SnapStates
  <1> HIDE DEF s
  <1>3. snap'[l] = s /\ ctl' = ctl /\ log' = log /\ server' = server /\ link' = link
        /\ telemetry' = telemetry
    BY <1>1, Unmoved DEF serverVars
  <1>4. PatientLink(l)
    BY DEF PatientInv
  <1>5. /\ Told(l)' = Told(l) /\ Last(l)' = Last(l) /\ ActiveGain(l)' = ActiveGain(l)
        /\ ToCome(l)' = ToCome(l) /\ (InHand(l)' <=> InHand(l)) /\ HandOp' = HandOp
        /\ \A step : Stored(l, step)' <=> Stored(l, step)
        /\ \A k : Whole(l, k)' <=> Whole(l, k)
    BY <1>1, ServerAside
  <1>6. Told(l) = link[l].seqno /\ ~snap[l].copy
    BY <1>1, <1>4 DEF PatientLink, Turn, SwapKind
  <1>7. ASSUME s.pc = "params"
        PROVE  /\ snap[l].observed = Len(log[l]) /\ Told(l) < Len(log[l])
               /\ ~InHand(l) /\ log[l] # << >>
    <2>1. /\ snap[l].observed \in -1 .. ctl[l].seqno /\ link[l].seqno <= snap[l].observed
          /\ snap[l].observed # link[l].seqno
      BY <1>1, <1>2, <1>7, LinkFacts DEF Observed
    <2>2. snap[l].observed = Len(log[l]) /\ Told(l) < Len(log[l]) /\ ~InHand(l)
          /\ Len(log[l]) # 0
      BY <1>4, <1>6, <2>1, PatientFacts
    <2>3. QED
      BY <2>2
  <1>8. Turn(l)'
    BY <1>2, <1>3, <1>4, <1>5, <1>6, <1>7 DEF PatientLink, Turn, SwapKind
  <1>9. Exact(l)'
    BY <1>1, <1>2, <1>3, <1>4, <1>5 DEF PatientLink, Exact
  <1>10. Owes(l)'
    <2>1. \A k : Owed(l, k)' <=> Owed(l, k)
      BY <1>3, <1>4, <1>5, <1>6, PatientFacts DEF Owed
    <2>2. QED
      BY <1>3, <1>4, <1>5, <2>1 DEF PatientLink, Owes
  <1>11. Held(l)'
    <2>1. /\ \A k : ~Copying(l, k) /\ ~Copying(l, k)'
          /\ ProfileUpTo(l)' = ProfileUpTo(l) /\ FactorUpTo(l)' = FactorUpTo(l)
      BY <1>1, <1>2, <1>3, <1>5, <1>6 DEF Copying, ProfileUpTo, FactorUpTo
    <2>2. QED
      BY <1>3, <1>4, <1>5, <2>1 DEF PatientLink, Held
  <1>12. Due(l)'
    <2>1. s.pc = "params" => Last(l).at <= link[l].next
      <3>1. s.pc = "params" => ctl[l].gate = Last(l).at
        BY <1>4, <1>7 DEF PatientLink, Due, Stored
      <3>2. QED
        BY <1>2, <3>1 DEF GateOpen
    <2>2. QED
      BY <1>1, <1>2, <1>3, <1>4, <1>5, <1>6, <2>1 DEF PatientLink, Due, SwapKind
  <1>13. QED
    BY <1>1, <1>8, <1>9, <1>10, <1>11, <1>12, Unmoved, PatientMoves DEF PatientLink

LEMMA PatientParam ==
  ASSUME CtlInv, PatientInv, NEW l \in Link, NEW p \in Param, SnapParam(l, p)
  PROVE  PatientInv'
  <1> DEFINE w == [link[l].live EXCEPT ![p] = ctl[l].shadow[p]]
             k == [live |-> w, swap |-> link[l].swap, active |-> link[l].active,
                   seqno |-> link[l].seqno, next |-> link[l].next, warmup |-> link[l].warmup,
                   since |-> link[l].since, count |-> link[l].count]
             s == [snap[l] EXCEPT !.left = snap[l].left \ {p}]
  <1>1. /\ snap[l].pc = "params" /\ p \in snap[l].left
        /\ link' = [link EXCEPT ![l] = k] /\ snap' = [snap EXCEPT ![l] = s]
        /\ UNCHANGED << ctl, serverVars, telemetry >>
    <2>1. [link[l] EXCEPT !.live = w] = k
      BY Unmoved, LinkUpdate
    <2>2. link' = [link EXCEPT ![l] = [link[l] EXCEPT !.live = w]]
      BY DEF SnapParam
    <2>3. QED
      BY <2>1, <2>2 DEF SnapParam
  <1>2. /\ k.swap = link[l].swap /\ k.active = link[l].active /\ k.next = link[l].next
        /\ k.seqno = link[l].seqno
        /\ \A r \in Param : k.live[r] = IF r = p THEN ctl[l].shadow[p] ELSE link[l].live[r]
    BY LinkFacts DEF LinkTypes
  <1>3. s.pc = "params" /\ s.left = snap[l].left \ {p} /\ s.copy = snap[l].copy
        /\ s.observed = snap[l].observed
    BY <1>1, LinkFacts DEF SnapStates
  <1> HIDE DEF k, s
  <1>4. link'[l] = k /\ snap'[l] = s /\ ctl' = ctl /\ log' = log /\ server' = server
        /\ telemetry' = telemetry
    BY <1>1, Unmoved DEF serverVars
  <1>5. PatientLink(l)
    BY DEF PatientInv
  <1>6. /\ ~InHand(l) /\ ctl[l].seqno = Len(log[l])
    BY <1>1, <1>5, PatientFacts
  <1>7. /\ Told(l)' = Told(l) /\ Last(l)' = Last(l) /\ ActiveGain(l)' = ActiveGain(l)
        /\ ToCome(l)' = ToCome(l) /\ (InHand(l)' <=> InHand(l)) /\ HandOp' = HandOp
        /\ \A step : Stored(l, step)' <=> Stored(l, step)
        /\ \A r : Whole(l, r)' <=> Whole(l, r)
    BY <1>2, <1>4 DEF Told, Last, ActiveGain, ToCome, InHand, HandOp, HandProgram, Stored, Whole
  <1>8. Turn(l)' /\ Due(l)'
    BY <1>1, <1>2, <1>3, <1>4, <1>5, <1>7 DEF PatientLink, Turn, Due
  <1>9. Exact(l)'
    <2>1. ASSUME NEW r \in Param
          PROVE  k.live[r] = LastIn(log[l], {r}, IF r \notin s.left THEN Len(log[l]) ELSE k.seqno)
      <3>1. CASE r = p
        BY <1>2, <1>3, <1>5, <1>6, <3>1 DEF PatientLink, Exact
      <3>2. CASE r # p
        BY <1>1, <1>2, <1>3, <1>5, <3>2 DEF PatientLink, Exact
      <3>3. QED
        BY <3>1, <3>2
    <2>2. QED
      BY <1>3, <1>4, <1>5, <1>6, <1>7, <2>1 DEF PatientLink, Exact
  <1>10. Owes(l)'
    <2>1. \A r : Owed(l, r)' <=> Owed(l, r)
      BY <1>1, <1>2, <1>3, <1>4, <1>7 DEF Owed
    <2>2. QED
      BY <1>4, <1>5, <1>7, <2>1 DEF PatientLink, Owes
  <1>11. Held(l)'
    <2>1. /\ \A r \in SwapKind : ~Copying(l, r) /\ ~Copying(l, r)'
          /\ ProfileUpTo(l)' = ProfileUpTo(l) /\ FactorUpTo(l)' = FactorUpTo(l)
      BY <1>1, <1>2, <1>3, <1>4, <1>7 DEF Copying, ProfileUpTo, FactorUpTo, SwapKind
    <2>2. QED
      BY <1>2, <1>4, <1>5, <1>7, <2>1 DEF PatientLink, Held, SwapKind
  <1>12. QED
    BY <1>1, <1>8, <1>9, <1>10, <1>11, Unmoved, PatientMoves DEF PatientLink

LEMMA PatientVersion ==
  ASSUME CtlInv, PatientInv, NEW l \in Link, SnapVersion(l)
  PROVE  PatientInv'
  <1> DEFINE k == [live |-> link[l].live, swap |-> link[l].swap, active |-> link[l].active,
                   seqno |-> snap[l].observed, next |-> link[l].next,
                   warmup |-> link[l].warmup,
                   since |-> link[l].since, count |-> link[l].count]
             s == [snap[l] EXCEPT !.pc = "profile"]
  <1>1. /\ snap[l].pc = "params" /\ snap[l].left = {}
        /\ link' = [link EXCEPT ![l] = k] /\ snap' = [snap EXCEPT ![l] = s]
        /\ UNCHANGED << ctl, serverVars, telemetry >>
    <2>1. [link[l] EXCEPT !.seqno = snap[l].observed] = k
      BY Unmoved, LinkUpdate
    <2>2. QED
      BY <2>1 DEF SnapVersion, Version
  <1>2. /\ k.live = link[l].live /\ k.swap = link[l].swap /\ k.active = link[l].active
        /\ k.next = link[l].next /\ k.seqno = snap[l].observed
    OBVIOUS
  <1>3. s.pc = "profile" /\ s.copy = snap[l].copy
    BY LinkFacts DEF SnapStates
  <1> HIDE DEF k, s
  <1>4. link'[l] = k /\ snap'[l] = s /\ ctl' = ctl /\ log' = log /\ server' = server
        /\ telemetry' = telemetry
    BY <1>1, Unmoved DEF serverVars
  <1>5. PatientLink(l)
    BY DEF PatientInv
  <1>6. /\ ~InHand(l) /\ k.seqno = Len(log[l]) /\ Told(l) < Len(log[l]) /\ ~snap[l].copy
        /\ Len(log[l]) \in Nat /\ Told(l) \in Nat
    BY <1>1, <1>2, <1>5, PatientFacts DEF PatientLink, Turn, SwapKind
  <1>7. /\ Told(l)' = Told(l) /\ Last(l)' = Last(l) /\ ActiveGain(l)' = ActiveGain(l)
        /\ ToCome(l)' = ToCome(l) /\ (InHand(l)' <=> InHand(l)) /\ HandOp' = HandOp
        /\ \A step : Stored(l, step)' <=> Stored(l, step)
        /\ \A r : Whole(l, r)' <=> Whole(l, r)
    BY <1>2, <1>4 DEF Told, Last, ActiveGain, ToCome, InHand, HandOp, HandProgram, Stored, Whole
  <1>8. Turn(l)'
    BY <1>3, <1>4, <1>5, <1>6, <1>7 DEF PatientLink, Turn, SwapKind
  <1>9. Due(l)'
    BY <1>1, <1>2, <1>4, <1>5, <1>7 DEF PatientLink, Due
  <1>10. Exact(l)'
    BY <1>1, <1>2, <1>3, <1>4, <1>5, <1>6, <1>7 DEF PatientLink, Exact
  <1>11. Owes(l)'
    <2>1. \A r \in SwapKind : "profile" \notin Later(r) /\ "params" \notin Later(r)
      BY DEF Later, SwapKind
    <2>2. \A r \in SwapKind : Owed(l, r)' <=> Owed(l, r)
      BY <1>1, <1>3, <1>4, <1>7, <2>1 DEF Owed
    <2>3. QED
      BY <1>4, <1>5, <1>7, <2>2 DEF PatientLink, Owes
  <1>12. Held(l)'
    <2>1. /\ \A r \in SwapKind : ~Copying(l, r) /\ ~Copying(l, r)'
          /\ ProfileUpTo(l)' = ProfileUpTo(l) /\ FactorUpTo(l)' = FactorUpTo(l)
      BY <1>1, <1>2, <1>3, <1>4, <1>6, <1>7 DEF Copying, ProfileUpTo, FactorUpTo
    <2>2. QED
      BY <1>2, <1>4, <1>5, <1>7, <2>1 DEF PatientLink, Held, SwapKind
  <1>13. QED
    BY <1>1, <1>8, <1>9, <1>10, <1>11, <1>12, Unmoved, PatientMoves DEF PatientLink

\* The last update, counted in or out.
LEMMA LastInLast ==
  ASSUME CtlInv, NEW l \in Link, PatientLink(l), NEW names,
         snap[l].pc \in {"params"} \cup SwapKind
  PROVE  LastIn(log[l], names, Len(log[l])) =
           IF Last(l).what \in names THEN Len(log[l]) ELSE LastIn(log[l], names, Told(l))
  <1>1. Told(l) \in Nat /\ Len(log[l]) = Told(l) + 1
    BY PatientFacts
  <1>2. LastIn(log[l], names, Told(l) + 1) =
          IF log[l][Told(l) + 1].what \in names THEN Told(l) + 1
          ELSE LastIn(log[l], names, Told(l))
    <2>1. \A s \in Nat : LastIn(log[l], names, s + 1) =
            IF log[l][s + 1].what \in names THEN s + 1 ELSE LastIn(log[l], names, s)
      BY LastInNext
    <2>2. QED
      BY <1>1, <2>1
  <1>3. QED
    BY <1>1, <1>2 DEF Last

\* The snap passes a replacement that is not the last update.
LEMMA PatientPasses ==
  ASSUME CtlInv, PatientInv, NEW l \in Link, UNCHANGED << ctl, serverVars, link, telemetry >>,
         NEW k \in SwapKind, snap[l].pc = k, ~snap[l].copy, Last(l).what # k,
         NEW s, snap' = [snap EXCEPT ![l] = s], s.pc = After(k), s.copy = FALSE
  PROVE  PatientInv'
  <1>1. snap'[l] = s /\ ctl' = ctl /\ log' = log /\ server' = server /\ link' = link
        /\ telemetry' = telemetry
    BY Unmoved DEF serverVars
  <1>2. PatientLink(l)
    BY DEF PatientInv
  <1>3. /\ Told(l)' = Told(l) /\ Last(l)' = Last(l) /\ ActiveGain(l)' = ActiveGain(l)
        /\ ToCome(l)' = ToCome(l) /\ (InHand(l)' <=> InHand(l)) /\ HandOp' = HandOp
        /\ \A step : Stored(l, step)' <=> Stored(l, step)
        /\ \A r : Whole(l, r)' <=> Whole(l, r)
    BY ServerAside
  <1>4. link[l].seqno = Len(log[l])
    BY <1>2 DEF PatientLink, Turn
  <1>5. /\ k # "params" /\ k # "begin" /\ After(k) \in {"finish", "matrix", "correlation"}
        /\ \A r \in SwapKind : r # k => (After(k) \in Later(r) <=> k \in Later(r))
    BY DEF SwapKind, After, Later
  <1>6. Turn(l)'
    BY <1>1, <1>2, <1>3, <1>5 DEF PatientLink, Turn
  <1>7. Exact(l)'
    BY <1>1, <1>2, <1>3, <1>5 DEF PatientLink, Exact
  <1>8. Owes(l)'
    <2>1. \A r \in SwapKind : Owed(l, r)' <=> Owed(l, r)
      BY <1>1, <1>3, <1>5 DEF Owed
    <2>2. QED
      BY <1>1, <1>2, <1>3, <2>1 DEF PatientLink, Owes
  <1>9. Held(l)'
    <2>1. \A r : ~Copying(l, r) /\ ~Copying(l, r)'
      BY <1>1 DEF Copying
    <2>2. /\ ActiveGain(l) = LastIn(log[l], {"profile", "matrix"}, ProfileUpTo(l))
          /\ link[l].swap["correlation"].gain =
               LastIn(log[l], {"correlation"}, FactorUpTo(l))
      BY <1>2, <2>1 DEF PatientLink, Held
    <2>3. LastIn(log[l], {"profile", "matrix"}, ProfileUpTo(l)') =
            LastIn(log[l], {"profile", "matrix"}, ProfileUpTo(l))
      <3>1. CASE k = "profile"
        <4>1. ProfileUpTo(l) = Told(l)
          BY <3>1 DEF ProfileUpTo
        <4>2. ProfileUpTo(l)' =
                IF Last(l).what # "matrix" THEN Len(log[l]) ELSE Told(l)
          BY <1>1, <1>3, <1>4, <3>1 DEF ProfileUpTo, After
        <4>3. QED
          BY <1>2, <3>1, <4>1, <4>2, LastInLast
      <3>2. CASE k # "profile"
        <4>1. ProfileUpTo(l) = link[l].seqno /\ ProfileUpTo(l)' = link[l].seqno
          BY <1>1, <3>2 DEF ProfileUpTo, After, SwapKind
        <4>2. QED
          BY <4>1
      <3>3. QED
        BY <3>1, <3>2
    <2>4. LastIn(log[l], {"correlation"}, FactorUpTo(l)') =
            LastIn(log[l], {"correlation"}, FactorUpTo(l))
      <3>1. CASE k = "correlation"
        <4>1. FactorUpTo(l) = Told(l) /\ FactorUpTo(l)' = Len(log[l])
          BY <1>1, <1>4, <3>1 DEF FactorUpTo, After
        <4>2. QED
          BY <1>2, <3>1, <4>1, LastInLast
      <3>2. CASE k # "correlation"
        <4>1. FactorUpTo(l) = Told(l) /\ FactorUpTo(l)' = Told(l)
          BY <1>1, <1>3, <3>2 DEF FactorUpTo, After, SwapKind
        <4>2. QED
          BY <4>1
      <3>3. QED
        BY <3>1, <3>2
    <2>5. \A r \in SwapKind : Whole(l, r)
      BY <1>2, <2>1 DEF PatientLink, Held
    <2>6. QED
      BY <1>1, <1>3, <2>1, <2>2, <2>3, <2>4, <2>5 DEF Held
  <1>10. Due(l)'
    BY <1>1, <1>2, <1>3, <1>5 DEF PatientLink, Due
  <1>11. QED
    BY <1>6, <1>7, <1>8, <1>9, <1>10, Unmoved, PatientMoves DEF PatientLink

LEMMA PatientTest ==
  ASSUME Patient, CtlInv, PatientInv, NEW l \in Link, NEW k \in SwapKind, SnapTest(l, k)
  PROVE  PatientInv'
  <1>1. snap[l].pc = k /\ ~snap[l].copy /\ UNCHANGED << ctl, serverVars, link, telemetry >>
    BY DEF SnapTest
  <1>2. PatientLink(l) /\ ctl' = ctl /\ log' = log /\ server' = server /\ link' = link
        /\ telemetry' = telemetry
    BY <1>1 DEF PatientInv, serverVars
  <1>3. /\ ~InHand(l) /\ Told(l) < Len(log[l]) /\ log[l] # << >> /\ Last(l) \in Op
    BY <1>1, <1>2, PatientFacts DEF PatientLink, Turn
  <1>4. CASE ctl[l].pending[k] /\ Eligible(l, k)
    <2> DEFINE s == [snap[l] EXCEPT !.copy = TRUE, !.left = Word, !.preserve = HistoryCompatible(l)]
    <2>1. snap' = [snap EXCEPT ![l] = s]
      BY <1>4 DEF SnapTest
    <2>2. s.pc = k /\ s.copy = TRUE /\ s.left = Word
      BY <1>1, LinkFacts DEF SnapStates
    <2> HIDE DEF s
    <2>3. snap'[l] = s
      BY <2>1, Unmoved
    <2>4. /\ Told(l)' = Told(l) /\ Last(l)' = Last(l) /\ ActiveGain(l)' = ActiveGain(l)
          /\ ToCome(l)' = ToCome(l) /\ (InHand(l)' <=> InHand(l)) /\ HandOp' = HandOp
          /\ \A step : Stored(l, step)' <=> Stored(l, step)
          /\ \A r : Whole(l, r)' <=> Whole(l, r)
      BY <1>1, ServerAside
    <2>5. k # "params"
      BY DEF SwapKind
    <2>6. Turn(l)'
      BY <1>1, <1>2, <2>2, <2>3, <2>4, <2>5 DEF PatientLink, Turn
    <2>7. Exact(l)'
      BY <1>1, <1>2, <2>2, <2>3, <2>4, <2>5 DEF PatientLink, Exact
    <2>8. Owes(l)'
      <3>1. \A r : Owed(l, r)' <=> Owed(l, r)
        BY <1>1, <1>2, <2>2, <2>3, <2>4 DEF Owed
      <3>2. QED
        BY <1>2, <2>4, <3>1 DEF PatientLink, Owes
    <2>9. Held(l)'
      <3>1. /\ \A r : ~Copying(l, r) /\ (Copying(l, r)' <=> r = k)
            /\ ProfileUpTo(l)' = ProfileUpTo(l) /\ FactorUpTo(l)' = FactorUpTo(l)
        BY <1>1, <1>2, <2>2, <2>3, <2>4 DEF Copying, ProfileUpTo, FactorUpTo
      <3>2. QED
        BY <1>2, <1>4, <2>2, <2>3, <2>4, <3>1 DEF PatientLink, Held
    <2>10. Due(l)'
      BY <1>1, <1>2, <2>2, <2>3, <2>4 DEF PatientLink, Due
    <2>11. QED
      BY <1>1, <2>1, <2>6, <2>7, <2>8, <2>9, <2>10, Unmoved, PatientMoves DEF PatientLink
  <1>5. CASE ~(ctl[l].pending[k] /\ Eligible(l, k))
    <2> DEFINE s == [snap[l] EXCEPT !.pc = After(k)]
    <2>1. snap' = [snap EXCEPT ![l] = s]
      BY <1>5 DEF SnapTest
    <2>2. s.pc = After(k) /\ s.copy = FALSE
      BY <1>1, LinkFacts DEF SnapStates
    <2> HIDE DEF s
    <2>3. ASSUME Last(l).what = k PROVE FALSE
      <3>1. k \notin Later(k)
        BY DEF Later, SwapKind
      <3>2. ctl[l].pending[k]
        BY <1>1, <1>2, <1>3, <2>3, <3>1 DEF PatientLink, Owes, Owed, Stored
      <3>3. ctl[l].swap[k].layout = Last(l).layout
        BY <1>2, <1>3, <2>3 DEF PatientLink, Owes, Stored
      <3>4. Last(l).layout \in Layout
        BY <1>3, <2>3, ControlAssumption DEF Op
      <3>5. Eligible(l, k)
        BY <3>3, <3>4 DEF Patient, Eligible
      <3>6. QED
        BY <1>5, <3>2, <3>5
    <2>4. QED
      BY <1>1, <2>1, <2>2, <2>3, PatientPasses
  <1>6. QED
    BY <1>4, <1>5

\* The replacement being copied is not superseded.
LEMMA PatientKeeps ==
  ASSUME CtlInv, PatientInv, NEW l \in Link, NEW k \in SwapKind, SnapDropped(l, k)
  PROVE  FALSE
  <1>1. Copying(l, k) /\ ~ctl[l].pending[k] /\ PatientLink(l)
    BY DEF SnapDropped, Copying, PatientInv
  <1>2. QED
    BY <1>1 DEF PatientLink, Held

LEMMA PatientCopy ==
  ASSUME CtlInv, PatientInv, NEW l \in Link, NEW k \in SwapKind, NEW w \in Word,
         SnapCopy(l, k, w)
  PROVE  PatientInv'
  <1> DEFINE x == link[l].swap[k]
             v == [link[l].swap EXCEPT ![k] = [x EXCEPT ![w] = ctl[l].swap[k][w]]]
             r == [live |-> link[l].live, swap |-> v, active |-> link[l].active,
                   seqno |-> link[l].seqno, next |-> link[l].next, warmup |-> link[l].warmup,
                   since |-> link[l].since, count |-> link[l].count]
             s == [snap[l] EXCEPT !.left = snap[l].left \ {w}]
  <1>1. /\ snap[l].pc = k /\ snap[l].copy /\ w \in snap[l].left
        /\ link' = [link EXCEPT ![l] = r] /\ snap' = [snap EXCEPT ![l] = s]
        /\ UNCHANGED << ctl, serverVars, telemetry >>
    <2>1. [link[l] EXCEPT !.swap = v] = r
      BY Unmoved, LinkUpdate
    <2>2. link' = [link EXCEPT ![l] = [link[l] EXCEPT !.swap = v]]
      BY DEF SnapCopy
    <2>3. QED
      BY <2>1, <2>2 DEF SnapCopy
  <1>2. /\ v[k][w] = ctl[l].swap[k][w] /\ \A z \in Word : z # w => v[k][z] = link[l].swap[k][z]
        /\ \A q \in SwapKind : q # k => v[q] = link[l].swap[q]
    <2>1. link[l].swap \in [SwapKind -> [layout : Layout \cup {0}, gain : 0 .. MaxUpdate]]
      BY LinkFacts DEF LinkTypes, SwapValues
    <2>2. x \in [layout : Layout \cup {0}, gain : 0 .. MaxUpdate]
      BY <2>1
    <2>3. \A y : [x EXCEPT ![w] = y][w] = y /\ \A z \in Word : z # w => [x EXCEPT ![w] = y][z] = x[z]
      <3> HIDE DEF x
      <3>1. CASE w = "layout"
        BY <2>2, <3>1 DEF Word
      <3>2. CASE w = "gain"
        BY <2>2, <3>2 DEF Word
      <3>3. QED
        BY <3>1, <3>2 DEF Word
    <2> HIDE DEF x
    <2>4. v[k] = [x EXCEPT ![w] = ctl[l].swap[k][w]]
          /\ \A q \in SwapKind : q # k => v[q] = link[l].swap[q]
      BY <2>1
    <2>5. QED
      BY <2>3, <2>4 DEF x
  <1>3. /\ r.live = link[l].live /\ r.swap = v /\ r.active = link[l].active
        /\ r.next = link[l].next /\ r.seqno = link[l].seqno
    OBVIOUS
  <1>4. s.pc = k /\ s.left = snap[l].left \ {w} /\ s.copy = snap[l].copy
        /\ snap[l].left \subseteq Param \cup Word
    BY <1>1, LinkFacts DEF SnapStates
  <1> HIDE DEF r, s, v, x
  <1>5. link'[l] = r /\ snap'[l] = s /\ ctl' = ctl /\ log' = log /\ server' = server
        /\ telemetry' = telemetry
    BY <1>1, Unmoved DEF serverVars
  <1>6. PatientLink(l) /\ k # "params"
    BY DEF PatientInv, SwapKind
  <1>7. /\ Told(l)' = Told(l) /\ Last(l)' = Last(l)
        /\ ToCome(l)' = ToCome(l) /\ (InHand(l)' <=> InHand(l)) /\ HandOp' = HandOp
        /\ \A step : Stored(l, step)' <=> Stored(l, step)
    BY <1>5 DEF Told, Last, ToCome, InHand, HandOp, HandProgram, Stored
  <1>8. Turn(l)' /\ Due(l)'
    BY <1>1, <1>3, <1>4, <1>5, <1>6, <1>7 DEF PatientLink, Turn, Due
  <1>9. Exact(l)'
    BY <1>1, <1>3, <1>4, <1>5, <1>6, <1>7 DEF PatientLink, Exact
  <1>10. Owes(l)'
    <2>1. \A q : Owed(l, q)' <=> Owed(l, q)
      BY <1>1, <1>3, <1>4, <1>5, <1>7 DEF Owed
    <2>2. QED
      BY <1>5, <1>6, <1>7, <2>1 DEF PatientLink, Owes
  <1>11. Held(l)'
    <2>1. /\ \A q : (Copying(l, q) <=> q = k) /\ (Copying(l, q)' <=> q = k)
          /\ ProfileUpTo(l)' = ProfileUpTo(l) /\ FactorUpTo(l)' = FactorUpTo(l)
      BY <1>1, <1>3, <1>4, <1>5, <1>7 DEF Copying, ProfileUpTo, FactorUpTo
    <2>2. \A q \in SwapKind : q # k => Whole(l, q)'
      <3>1. \A q \in SwapKind : q # k => Whole(l, q)
        BY <1>6, <2>1 DEF PatientLink, Held
      <3>2. QED
        BY <1>2, <1>3, <1>5, <3>1 DEF Whole
    <2>3. ctl[l].pending[k] /\ \A z \in Word \ s.left : v[k][z] = ctl[l].swap[k][z]
      <3>1. ctl[l].pending[k] /\ \A z \in Word \ snap[l].left : link[l].swap[k][z] = ctl[l].swap[k][z]
        BY <1>6, <2>1 DEF PatientLink, Held
      <3>2. QED
        BY <1>2, <1>4, <3>1
    <2>4. k = "correlation" =>
            ActiveGain(l)' = LastIn(log[l], {"profile", "matrix"}, ProfileUpTo(l))
      <3>1. k = "correlation" => ActiveGain(l)' = ActiveGain(l)
        BY <1>2, <1>3, <1>5, LinkFacts DEF ActiveGain, LinkTypes, SwapKind
      <3>2. k = "correlation" =>
              ActiveGain(l) = LastIn(log[l], {"profile", "matrix"}, ProfileUpTo(l))
        BY <1>6, <2>1 DEF PatientLink, Held
      <3>3. QED
        BY <3>1, <3>2
    <2>5. k # "correlation" =>
            v["correlation"].gain = LastIn(log[l], {"correlation"}, FactorUpTo(l))
      <3>1. k # "correlation" => v["correlation"] = link[l].swap["correlation"]
        BY <1>2 DEF SwapKind
      <3>2. QED
        BY <1>6, <2>1, <3>1 DEF PatientLink, Held
    <2>6. k \in {"profile", "matrix", "correlation"}
      BY DEF SwapKind
    <2>7. QED
      BY <1>3, <1>4, <1>5, <2>1, <2>2, <2>3, <2>4, <2>5, <2>6 DEF Held
  <1>12. QED
    BY <1>1, <1>8, <1>9, <1>10, <1>11, Unmoved, PatientMoves DEF PatientLink

LEMMA PatientConsume ==
  ASSUME CtlInv, PatientInv, NEW l \in Link, NEW k \in SwapKind, SnapConsume(l, k)
  PROVE  PatientInv'
  <1> DEFINE act == IF k = "correlation" THEN link[l].active ELSE k
             r == [live |-> link[l].live, swap |-> link[l].swap, active |-> act,
                   seqno |-> link[l].seqno, next |-> link[l].next, warmup |-> link[l].warmup,
                   since |-> link[l].since, count |-> link[l].count]
             c == [ctl[l] EXCEPT !.pending = [ctl[l].pending EXCEPT ![k] = FALSE]]
             s == [snap[l] EXCEPT !.pc = After(k), !.copy = FALSE,
                                  !.matrix = snap[l].matrix \/ k = "matrix",
                                  !.reset = CASE k = "profile" -> TRUE
                                              [] k = "matrix" -> ~snap[l].preserve
                                              [] OTHER -> snap[l].reset]
  <1>1. /\ snap[l].pc = k /\ snap[l].copy /\ snap[l].left = {}
        /\ link' = [link EXCEPT ![l] = r] /\ snap' = [snap EXCEPT ![l] = s]
        /\ ctl' = [ctl EXCEPT ![l] = c] /\ UNCHANGED << serverVars, telemetry >>
    <2>1. [link[l] EXCEPT !.active = act] = r
      BY Unmoved, LinkUpdate
    <2>2. link' = [link EXCEPT ![l] = [link[l] EXCEPT !.active = act]]
      BY DEF SnapConsume
    <2>3. snap' = [snap EXCEPT ![l] = s]
      BY LinkFacts DEF SnapConsume, SnapStates
    <2>4. QED
      BY <2>1, <2>2, <2>3 DEF SnapConsume
  <1>2. /\ r.live = link[l].live /\ r.swap = link[l].swap /\ r.active = act
        /\ r.next = link[l].next /\ r.seqno = link[l].seqno
    OBVIOUS
  <1>3. s.pc = After(k) /\ s.copy = FALSE
    BY LinkFacts DEF SnapStates
  <1>4. /\ c.seqno = ctl[l].seqno /\ c.shadow = ctl[l].shadow /\ c.swap = ctl[l].swap
        /\ c.gate = ctl[l].gate
        /\ \A q \in SwapKind : c.pending[q] = IF q = k THEN FALSE ELSE ctl[l].pending[q]
    BY LinkFacts DEF CtlStates
  <1> HIDE DEF r, s, c, act
  <1>5. link'[l] = r /\ snap'[l] = s /\ ctl'[l] = c /\ log' = log /\ server' = server
        /\ telemetry' = telemetry
    BY <1>1, Unmoved DEF serverVars
  <1>6. PatientLink(l)
    BY DEF PatientInv
  <1>7. /\ ~InHand(l) /\ link[l].seqno = Len(log[l]) /\ Told(l) < Len(log[l])
        /\ Len(log[l]) \in 1 .. Len(log[l]) /\ log[l] # << >>
    BY <1>1, <1>6, PatientFacts DEF PatientLink, Turn
  <1>8. /\ Told(l)' = Told(l) /\ Last(l)' = Last(l)
        /\ ToCome(l)' = ToCome(l) /\ (InHand(l)' <=> InHand(l)) /\ HandOp' = HandOp
        /\ \A step : Stored(l, step)' <=> Stored(l, step)
        /\ \A q : Whole(l, q)' <=> Whole(l, q)
    BY <1>2, <1>5 DEF Told, Last, ToCome, InHand, HandOp, HandProgram, Stored, Whole
  <1>9. /\ k # "params" /\ k # "begin" /\ After(k) \in {"finish", "matrix", "correlation"}
        /\ After(k) \in Later(k)
    BY DEF SwapKind, After, Later
  <1>10. /\ \A q : Copying(l, q) <=> q = k
         /\ \A q : ~Copying(l, q)'
    BY <1>1, <1>3, <1>5 DEF Copying
  \* What has been copied is the last update.
  <1>11. /\ ctl[l].pending[k] /\ Last(l).what = k
         /\ link[l].swap[k].layout = Last(l).layout /\ link[l].swap[k].gain = Len(log[l])
    <2>1. ctl[l].pending[k]
          /\ \A w \in Word : link[l].swap[k][w] = ctl[l].swap[k][w]
      BY <1>1, <1>6, <1>10 DEF PatientLink, Held
    <2>2. Last(l).what = k
      BY <1>6, <2>1 DEF PatientLink, Owes, Owed
    <2>3. ctl[l].swap[k].layout = Last(l).layout /\ ctl[l].swap[k].gain = Len(log[l])
      BY <1>6, <1>7, <2>2 DEF PatientLink, Owes, Stored
    <2>4. link[l].swap[k].layout = ctl[l].swap[k].layout
          /\ link[l].swap[k].gain = ctl[l].swap[k].gain
      BY <2>1 DEF Word
    <2>5. QED
      BY <2>1, <2>2, <2>3, <2>4
  <1>12. Turn(l)'
    BY <1>2, <1>3, <1>5, <1>6, <1>7, <1>8, <1>9 DEF PatientLink, Turn
  <1>13. Exact(l)'
    BY <1>1, <1>2, <1>3, <1>4, <1>5, <1>6, <1>8, <1>9 DEF PatientLink, Exact
  <1>14. Owes(l)'
    <2>1. \A q \in SwapKind : ~Owed(l, q)'
      BY <1>2, <1>3, <1>5, <1>7, <1>8, <1>9, <1>11 DEF Owed
    <2>2. \A q \in SwapKind : q # k => ~ctl[l].pending[q]
      BY <1>6, <1>11 DEF PatientLink, Owes, Owed
    <2>3. QED
      BY <1>4, <1>5, <1>6, <1>8, <2>1, <2>2 DEF PatientLink, Owes
  <1>15. Due(l)'
    BY <1>1, <1>2, <1>4, <1>5, <1>6, <1>8 DEF PatientLink, Due
  <1>16. Held(l)'
    <2>1. \A q \in SwapKind : Whole(l, q)
      <3>1. Whole(l, k)
        BY <1>7, <1>11 DEF Whole, Last
      <3>2. QED
        BY <1>6, <1>10, <3>1 DEF PatientLink, Held
    <2>2. ActiveGain(l)' = LastIn(log[l], {"profile", "matrix"}, ProfileUpTo(l)')
      <3>1. CASE k = "correlation"
        <4>1. /\ ActiveGain(l)' = ActiveGain(l) /\ ProfileUpTo(l) = link[l].seqno
              /\ ProfileUpTo(l)' = link[l].seqno
          BY <1>1, <1>2, <1>3, <1>5, <3>1 DEF ActiveGain, ProfileUpTo, After, act
        <4>2. QED
          BY <1>6, <1>10, <3>1, <4>1 DEF PatientLink, Held
      <3>2. CASE k # "correlation"
        <4>1. ActiveGain(l)' = Len(log[l])
          BY <1>2, <1>5, <1>11, <3>2 DEF ActiveGain, act, SwapKind
        <4>2. ProfileUpTo(l)' = Len(log[l])
          BY <1>2, <1>3, <1>5, <1>7, <1>8, <1>11, <3>2 DEF ProfileUpTo, After, SwapKind
        <4>3. k \in {"profile", "matrix"}
          BY <3>2 DEF SwapKind
        <4>4. QED
          BY <1>1, <1>6, <1>11, <4>1, <4>2, <4>3, LastInLast
      <3>3. QED
        BY <3>1, <3>2
    <2>3. link[l].swap["correlation"].gain = LastIn(log[l], {"correlation"}, FactorUpTo(l)')
      <3>1. CASE k = "correlation"
        <4>1. FactorUpTo(l)' = Len(log[l])
          BY <1>2, <1>3, <1>5, <1>7, <3>1 DEF FactorUpTo, After
        <4>2. QED
          BY <1>1, <1>6, <1>11, <3>1, <4>1, LastInLast
      <3>2. CASE k # "correlation"
        <4>1. FactorUpTo(l) = Told(l) /\ FactorUpTo(l)' = Told(l)
          BY <1>1, <1>3, <1>5, <1>8, <3>2 DEF FactorUpTo, After, SwapKind
        <4>2. QED
          BY <1>6, <1>10, <3>2, <4>1 DEF PatientLink, Held
      <3>3. QED
        BY <3>1, <3>2
    <2>4. QED
      BY <1>2, <1>5, <1>8, <1>10, <2>1, <2>2, <2>3 DEF Held
  <1>17. QED
    BY <1>1, <1>12, <1>13, <1>14, <1>15, <1>16, PatientMoves DEF PatientLink

LEMMA PatientFinish ==
  ASSUME CtlInv, PatientInv, NEW l \in Link, NEW n \in Count, SnapFinish(l, n)
  PROVE  PatientInv'
  <1>1. PICK warm, since :
          /\ link' = [link EXCEPT ![l].warmup = warm, ![l].since = since, ![l].count = n,
                        ![l].next = IF link[l].next < MaxSlot THEN link[l].next + 1
                                    ELSE link[l].next]
          /\ telemetry' = [telemetry EXCEPT ![l] =
                             [slot |-> link[l].next, seqno |-> link[l].seqno, warmup |-> warm]]
    BY DEF SnapFinish
  <1> DEFINE m == IF link[l].next < MaxSlot THEN link[l].next + 1 ELSE link[l].next
             r == [live |-> link[l].live, swap |-> link[l].swap, active |-> link[l].active,
                   seqno |-> link[l].seqno, next |-> m, warmup |-> warm,
                   since |-> since, count |-> n]
             t == [slot |-> link[l].next, seqno |-> link[l].seqno, warmup |-> warm]
  <1>2. link' = [link EXCEPT ![l] = r]
    <2>1. Finished(link[l], warm, since, n, m) = r
      <3> HIDE DEF m
      <3>1. QED
        BY Unmoved, FinishUpdate
    <2>2. [link[l] EXCEPT !.warmup = warm, !.since = since, !.count = n, !.next = m] = r
      <3> HIDE DEF m, r
      <3>1. QED
        BY <2>1 DEF Finished
    <2>3. link' = [link EXCEPT ![l] =
                     [link[l] EXCEPT !.warmup = warm, !.since = since, !.count = n, !.next = m]]
      BY <1>1, Unmoved
    <2>4. QED
      BY <2>2, <2>3
  <1>3. /\ r.live = link[l].live /\ r.swap = link[l].swap /\ r.active = link[l].active
        /\ r.seqno = link[l].seqno /\ r.next = m
        /\ t.slot = link[l].next /\ t.seqno = link[l].seqno
    OBVIOUS
  <1>4. link[l].next \in Nat /\ m \in Nat /\ link[l].next <= m
    BY LinkFacts, ControlAssumption DEF LinkTypes
  <1>5. NoSnap.pc = "begin" /\ ~NoSnap.copy
    BY DEF NoSnap
  <1>6. /\ snap[l].pc = "finish" /\ snap' = [snap EXCEPT ![l] = NoSnap]
        /\ telemetry' = [telemetry EXCEPT ![l] = t] /\ telemetry = [q \in Link |-> telemetry[q]]
        /\ UNCHANGED << ctl, serverVars >>
    BY <1>1 DEF SnapFinish, PatientInv
  <1> HIDE DEF r, t, m
  <1>7. /\ telemetry' = [q \in Link |-> telemetry'[q]] /\ telemetry'[l] = t
        /\ \A q \in Link : q # l => telemetry'[q] = telemetry[q]
    BY <1>6
  <1>8. /\ link'[l] = r /\ snap'[l] = NoSnap /\ ctl' = ctl /\ log' = log /\ server' = server
        /\ \A q \in Link : q # l => link'[q] = link[q] /\ snap'[q] = snap[q]
    BY <1>2, <1>6, Unmoved DEF serverVars
  <1>9. PatientLink(l)
    BY DEF PatientInv
  <1>10. ~snap[l].copy
    BY <1>6, <1>9 DEF PatientLink, Turn, SwapKind
  <1>11. /\ Told(l)' = link[l].seqno /\ Last(l)' = Last(l) /\ ActiveGain(l)' = ActiveGain(l)
         /\ ToCome(l)' = ToCome(l) /\ (InHand(l)' <=> InHand(l)) /\ HandOp' = HandOp
         /\ \A step : Stored(l, step)' <=> Stored(l, step)
         /\ \A q : Whole(l, q)' <=> Whole(l, q)
    BY <1>3, <1>7, <1>8 DEF Told, Last, ActiveGain, ToCome, InHand, HandOp, HandProgram,
                            Stored, Whole
  <1>12. /\ Len(log[l]) \in Nat /\ Told(l) \in Nat /\ link[l].seqno \in Nat
         /\ Len(log[l]) - 1 <= Told(l) /\ Told(l) <= link[l].seqno
         /\ link[l].seqno <= Len(log[l])
    <2>1. ctl[l].seqno \in Nat /\ link[l].seqno <= ctl[l].seqno /\ ctl[l].seqno <= Len(log[l])
      BY <1>9, PatientFacts
    <2>2. QED
      BY <1>9, <2>1, PatientFacts
  <1>13. Turn(l)'
    <2>1. ToCome(l) # {} => link[l].seqno = Len(log[l])
      BY <1>9, <1>12 DEF PatientLink, Turn
    <2>2. /\ link[l].seqno <= link[l].seqno /\ Len(log[l]) - 1 <= link[l].seqno
      BY <1>12
    <2>3. \A i, j \in ToCome(l) : i = j
      BY <1>9 DEF PatientLink, Turn
    <2>4. QED
      BY <1>3, <1>5, <1>8, <1>11, <1>12, <2>1, <2>2, <2>3 DEF Turn, SwapKind
  <1>14. Exact(l)'
    BY <1>3, <1>5, <1>6, <1>8, <1>9, <1>11 DEF PatientLink, Exact
  <1>15. Owes(l)'
    <2>1. \A q \in SwapKind : "finish" \in Later(q) /\ "begin" \notin Later(q)
      BY DEF Later, SwapKind
    <2>2. \A q \in SwapKind : Owed(l, q)' <=> Owed(l, q)
      BY <1>3, <1>5, <1>6, <1>8, <1>11, <1>12, <2>1 DEF Owed
    <2>3. QED
      BY <1>8, <1>9, <1>11, <2>2 DEF PatientLink, Owes
  <1>16. Held(l)'
    <2>1. \A q : ~Copying(l, q) /\ ~Copying(l, q)'
      BY <1>5, <1>8, <1>10 DEF Copying
    <2>2. /\ ProfileUpTo(l)' = ProfileUpTo(l) /\ FactorUpTo(l)' = FactorUpTo(l)
      BY <1>5, <1>6, <1>8, <1>11 DEF ProfileUpTo, FactorUpTo
    <2>3. QED
      BY <1>3, <1>8, <1>9, <1>11, <2>1, <2>2 DEF PatientLink, Held
  <1>17. Due(l)'
    <2>1. Due(l)
      BY <1>9 DEF PatientLink
    <2>2. ASSUME NEW i \in 1 .. link[l].seqno PROVE log[l][i].at <= link[l].next
      <3>1. CASE i \in 1 .. Told(l)
        <4>1. log[l][i].at <= telemetry[l].slot /\ telemetry[l].slot \in Nat
              /\ telemetry[l].slot <= link[l].next
          BY <2>1, <3>1 DEF Due
        <4>2. log[l][i].at \in Nat
          <5>1. log[l] \in Seq(Op) /\ i \in 1 .. Len(log[l])
            BY <1>9, <1>12, PatientFacts
          <5>2. log[l][i] \in Op
            BY <5>1
          <5>3. log[l][i].at \in Gate /\ Gate \subseteq Nat
            BY <5>2, OpFields, ControlAssumption
          <5>4. QED
            BY <5>3
        <4>3. QED
          BY <1>4, <4>1, <4>2
      <3>2. CASE i \notin 1 .. Told(l)
        <4>1. i = Len(log[l]) /\ link[l].seqno # Told(l)
          BY <1>12, <3>2
        <4>2. QED
          BY <2>1, <4>1 DEF Due, Last
      <3>3. QED
        BY <3>1, <3>2
    <2>3. QED
      BY <1>3, <1>4, <1>5, <1>7, <1>8, <1>11, <2>1, <2>2 DEF Due, SwapKind
  <1>18. QED
    BY <1>6, <1>7, <1>8, <1>13, <1>14, <1>15, <1>16, <1>17, PatientProducer DEF PatientLink

LEMMA PatientSnap ==
  ASSUME Patient, CtlInv, PatientInv, NEW l \in Link, Snap(l)
  PROVE  PatientInv'
  <1>1. CASE SnapStore(l)
    BY <1>1, PatientStore
  <1>2. CASE SnapLoad(l)
    BY <1>2, PatientLoad
  <1>3. CASE SnapGate(l)
    BY <1>3, PatientGate
  <1>4. CASE \E p \in Param : SnapParam(l, p)
    BY <1>4, PatientParam
  <1>5. CASE SnapVersion(l)
    BY <1>5, PatientVersion
  <1>6. CASE \E k \in SwapKind : SnapTest(l, k)
    BY <1>6, PatientTest
  <1>7. CASE \E k \in SwapKind : SnapDropped(l, k)
    BY <1>7, PatientKeeps
  <1>8. CASE \E k \in SwapKind, w \in Word : SnapCopy(l, k, w)
    BY <1>8, PatientCopy
  <1>9. CASE \E k \in SwapKind : SnapConsume(l, k)
    BY <1>9, PatientConsume
  <1>10. CASE \E n \in Count : SnapFinish(l, n)
    BY <1>10, PatientFinish
  <1>11. QED
    BY <1>1, <1>2, <1>3, <1>4, <1>5, <1>6, <1>7, <1>8, <1>9, <1>10 DEF Snap
-----------------------------------------------------------------------------
(***************************************************************************)
(* The control thread's steps.                                             *)
(***************************************************************************)
\* A step of the control thread that stores nothing.
LEMMA PatientRests ==
  ASSUME PatientInv, UNCHANGED << ctl, log, linkVars >>, server.phase # "write",
         server'.phase = "write" => server'.pc = 1,
         \A l \in Link : /\ ToCome(l)' # {} => Told(l) = Len(log[l])
                         /\ \A i, j \in ToCome(l)' : i = j
  PROVE  PatientInv'
  <1>1. ASSUME NEW l \in Link PROVE PatientLink(l)'
    <2>1. PatientLink(l) /\ ~InHand(l) /\ ~InHand(l)'
      BY DEF PatientInv, InHand
    <2>2. link' = link /\ snap' = snap /\ telemetry' = telemetry
      BY DEF linkVars
    <2>3. QED
      BY <2>1, <2>2, PatientKept
  <1>2. telemetry' = telemetry
    BY DEF linkVars
  <1>3. QED
    BY <1>1, <1>2 DEF PatientInv

LEMMA PatientBegin ==
  ASSUME Patient, CtlInv, PatientInv, NEW op \in Op, Begin(op)
  PROVE  PatientInv'
  <1> DEFINE s == [phase |-> "write", todo |-> << op >>, pc |-> 1, batch |-> FALSE]
  <1>1. server' = s /\ UNCHANGED << ctl, log, linkVars >> /\ server.phase = "idle"
        /\ Told(op.link) = Len(log[op.link])
    BY DEF Begin, Idle, CaughtUp, Patient, Told
  <1>2. s.phase = "write" /\ s.pc = 1 /\ s.todo = << op >>
    OBVIOUS
  <1>3. Len(<< op >>) = 1 /\ << op >>[1] = op
    OBVIOUS
  <1> HIDE DEF s
  <1>4. ASSUME NEW l \in Link
        PROVE  ToCome(l)' = IF l = op.link THEN {1} ELSE {}
    BY <1>1, <1>2, <1>3 DEF ToCome
  <1>5. ASSUME NEW l \in Link
        PROVE  /\ ToCome(l)' # {} => Told(l) = Len(log[l])
               /\ \A i, j \in ToCome(l)' : i = j
    BY <1>1, <1>4
  <1>6. QED
    BY <1>1, <1>2, <1>5, PatientRests

LEMMA PatientCommit ==
  ASSUME Patient, OneEach, CtlInv, PatientInv, NEW b \in BatchId, NEW at \in Gate,
         BatchCommit(b, at)
  PROVE  PatientInv'
  <1> DEFINE todo == [i \in DOMAIN batches[b] |-> [batches[b][i] EXCEPT !.at = at]]
             s == [phase |-> "write", pc |-> 1, batch |-> TRUE, todo |-> todo]
  <1>1. /\ UNCHANGED << ctl, log, linkVars >> /\ server.phase = "idle"
        /\ b \in DOMAIN batches /\ batches[b] \in Seq(Op)
        /\ server' = IF batches[b] = << >> THEN Idle ELSE s
    BY DEF BatchCommit, CtlInv, Shapes
  <1>2. server'.phase = "write" => server' = s
    BY <1>1, IdleTyped
  <1>3. s.pc = 1 /\ s.todo = todo
    OBVIOUS
  <1>4. /\ DOMAIN todo = 1 .. Len(batches[b]) /\ Len(batches[b]) \in Nat
        /\ \A i \in 1 .. Len(batches[b]) : todo[i].link = batches[b][i].link
    BY <1>1 DEF Op
  <1>5. Len(todo) = Len(batches[b])
    BY <1>4
  <1> HIDE DEF todo, s
  <1>6. ASSUME NEW l \in Link
        PROVE  /\ ToCome(l)' # {} => Told(l) = Len(log[l])
               /\ \A i, j \in ToCome(l)' : i = j
    <2> DEFINE mine == {i \in DOMAIN batches[b] : batches[b][i].link = l}
    <2>1. \A i \in ToCome(l)' : i \in mine
      BY <1>1, <1>2, <1>3, <1>4, <1>5 DEF ToCome
    <2>2. mine # {} => Told(l) = Len(log[l])
      BY DEF BatchCommit, CaughtUp, Patient, Told
    <2>3. \A i, j \in mine : i = j
      BY <1>1 DEF OneEach
    <2> HIDE DEF mine
    <2>4. QED
      BY <2>1, <2>2, <2>3
  <1>7. QED
    BY <1>1, <1>2, <1>3, <1>6, PatientRests

\* The remaining steps that store nothing leave no request in hand.
LEMMA PatientIdles ==
  ASSUME PatientInv, UNCHANGED << ctl, log, linkVars >>, server.phase # "write",
         server'.phase # "write"
  PROVE  PatientInv'
  <1>1. \A l \in Link : ToCome(l)' = {}
    BY DEF ToCome
  <1>2. QED
    BY <1>1, PatientRests
-----------------------------------------------------------------------------
\* A store, word by word.
LEMMA StoreWords ==
  ASSUME NEW c \in CtlStates, NEW op \in Op, NEW step \in StoreName,
         NEW n \in 0 .. MaxUpdate,
         step = "param" => op.what \in Param,
         op.what \in Param => step \in {"gate", "param", "bump"}
  PROVE  LET d == Store(c, op, step, n)
         IN  /\ d.gate = IF step = "gate" THEN op.at ELSE c.gate
             /\ \A k \in SwapKind :
                  /\ d.pending[k] <=> \/ step = "pending" /\ k = op.what
                                      \/ /\ c.pending[k]
                                         /\ ~(step = "supersede" /\ k \in Superseded(op.what))
                  /\ d.swap[k].layout =
                       IF step = "layout" /\ k = op.what THEN op.layout ELSE c.swap[k].layout
                  /\ d.swap[k].gain =
                       IF step = "gain" /\ k = op.what THEN n ELSE c.swap[k].gain
  <1> DEFINE d == Store(c, op, step, n)
  <1>1. /\ op.what \notin Param => op.what \in SwapKind
        /\ c.swap \in [SwapKind -> [layout : Layout \cup {0}, gain : 0 .. MaxUpdate]]
        /\ c.pending \in [SwapKind -> BOOLEAN]
    BY OpFields DEF CtlStates, SwapValues
  <1>2. CASE step = "gate"
    <2>1. d = [c EXCEPT !.gate = op.at]
      BY <1>2 DEF Store
    <2>2. d.gate = op.at /\ d.swap = c.swap /\ d.pending = c.pending
      BY <2>1 DEF CtlStates
    <2>3. QED
      BY <1>2, <2>2
  <1>3. CASE step = "param"
    <2>1. d = [c EXCEPT !.shadow = [c.shadow EXCEPT ![op.what] = n]]
      BY <1>3 DEF Store
    <2>2. d.gate = c.gate /\ d.swap = c.swap /\ d.pending = c.pending
      BY <2>1 DEF CtlStates
    <2>3. QED
      BY <1>3, <2>2
  <1>4. CASE step = "layout"
    <2> DEFINE x == c.swap[op.what]
    <2>1. d = [c EXCEPT !.swap = [c.swap EXCEPT ![op.what] = [x EXCEPT !.layout = op.layout]]]
          /\ op.what \in SwapKind
      BY <1>1, <1>4 DEF Store
    <2>2. /\ d.gate = c.gate /\ d.pending = c.pending
          /\ d.swap = [c.swap EXCEPT ![op.what] = [x EXCEPT !.layout = op.layout]]
      BY <2>1 DEF CtlStates
    <2>3. x \in [layout : Layout \cup {0}, gain : 0 .. MaxUpdate]
      BY <1>1, <2>1
    <2>4. [x EXCEPT !.layout = op.layout].layout = op.layout
          /\ [x EXCEPT !.layout = op.layout].gain = x.gain
      <3> HIDE DEF x
      <3>1. QED
        BY <2>3
    <2>5. \A k \in SwapKind : d.swap[k] = IF k = op.what THEN [x EXCEPT !.layout = op.layout]
                                          ELSE c.swap[k]
      BY <1>1, <2>1, <2>2
    <2>6. QED
      BY <1>4, <2>2, <2>4, <2>5
  <1>5. CASE step = "gain"
    <2> DEFINE x == c.swap[op.what]
    <2>1. d = [c EXCEPT !.swap = [c.swap EXCEPT ![op.what] = [x EXCEPT !.gain = n]]]
          /\ op.what \in SwapKind
      BY <1>1, <1>5 DEF Store
    <2>2. /\ d.gate = c.gate /\ d.pending = c.pending
          /\ d.swap = [c.swap EXCEPT ![op.what] = [x EXCEPT !.gain = n]]
      BY <2>1 DEF CtlStates
    <2>3. x \in [layout : Layout \cup {0}, gain : 0 .. MaxUpdate]
      BY <1>1, <2>1
    <2>4. [x EXCEPT !.gain = n].gain = n /\ [x EXCEPT !.gain = n].layout = x.layout
      <3> HIDE DEF x
      <3>1. QED
        BY <2>3
    <2>5. \A k \in SwapKind : d.swap[k] = IF k = op.what THEN [x EXCEPT !.gain = n]
                                          ELSE c.swap[k]
      BY <1>1, <2>1, <2>2
    <2>6. QED
      BY <1>5, <2>2, <2>4, <2>5
  <1>6. CASE step = "pending"
    <2>1. d = [c EXCEPT !.pending = [c.pending EXCEPT ![op.what] = TRUE]]
          /\ op.what \in SwapKind
      BY <1>1, <1>6 DEF Store
    <2>2. /\ d.gate = c.gate /\ d.swap = c.swap
          /\ d.pending = [c.pending EXCEPT ![op.what] = TRUE]
      BY <2>1 DEF CtlStates
    <2>3. \A k \in SwapKind : d.pending[k] <=> (k = op.what \/ c.pending[k])
      BY <1>1, <2>2
    <2>4. QED
      BY <1>6, <2>2, <2>3
  <1>7. CASE step = "supersede"
    <2>1. d = [c EXCEPT !.pending =
                 [k \in SwapKind |-> c.pending[k] /\ k \notin Superseded(op.what)]]
      BY <1>7 DEF Store, CtlStates
    <2>2. /\ d.gate = c.gate /\ d.swap = c.swap
          /\ d.pending = [k \in SwapKind |-> c.pending[k] /\ k \notin Superseded(op.what)]
      BY <2>1 DEF CtlStates
    <2>3. \A k \in SwapKind : d.pending[k] <=> (c.pending[k] /\ k \notin Superseded(op.what))
      BY <2>2
    <2>4. QED
      BY <1>7, <2>2, <2>3
  <1>8. CASE step = "bump"
    <2>1. d = [c EXCEPT !.seqno = c.seqno + 1]
      BY <1>8 DEF Store, CtlStates
    <2>2. d.gate = c.gate /\ d.swap = c.swap /\ d.pending = c.pending
      BY <2>1 DEF CtlStates
    <2>3. QED
      BY <1>8, <2>2
  <1>9. QED
    BY <1>2, <1>3, <1>4, <1>5, <1>6, <1>7, <1>8 DEF StoreName

\* Before the bump, a program has set the gate, and that of a replacement has
\* stored it.
LEMMA ProgramStores ==
  ASSUME NEW op, NEW batch
  PROVE  LET program == Program(op, batch)
             Behind(step) == \E i \in 1 .. Len(program) - 1 : program[i] = step
         IN  /\ Behind("gate")
             /\ op.what \notin Param =>
                  Behind("pending") /\ Behind("layout") /\ Behind("gain")
  <1>1. CASE op.what \in Param
    <2>1. Program(op, batch) = << "gate", "param", "bump" >>
      BY <1>1 DEF Program, ScalarStores
    <2>2. Program(op, batch)[1] = "gate" /\ 1 \in 1 .. Len(Program(op, batch)) - 1
      BY <2>1
    <2>3. QED
      BY <1>1, <2>2
  <1>2. CASE op.what \notin Param /\ batch
    <2> DEFINE u == << "gate", "layout", "gain", "pending", "supersede", "bump" >>
    <2>1. Program(op, batch) = u
      BY <1>2 DEF Program, StagedSwapStores
    <2>2. /\ u[1] = "gate" /\ u[2] = "layout" /\ u[3] = "gain" /\ u[4] = "pending"
          /\ Len(u) = 6
      OBVIOUS
    <2> HIDE DEF u
    <2>3. 1 \in 1 .. 6 - 1 /\ 2 \in 1 .. 6 - 1 /\ 3 \in 1 .. 6 - 1 /\ 4 \in 1 .. 6 - 1
      OBVIOUS
    <2>4. QED
      BY <2>1, <2>2, <2>3
  <1>3. CASE op.what \notin Param /\ ~batch
    <2> DEFINE u == << "layout", "gain", "pending", "supersede", "gate", "bump" >>
    <2>1. Program(op, batch) = u
      BY <1>3 DEF Program, SwapStores
    <2>2. /\ u[1] = "layout" /\ u[2] = "gain" /\ u[3] = "pending" /\ u[5] = "gate"
          /\ Len(u) = 6
      OBVIOUS
    <2> HIDE DEF u
    <2>3. 1 \in 1 .. 6 - 1 /\ 2 \in 1 .. 6 - 1 /\ 3 \in 1 .. 6 - 1 /\ 5 \in 1 .. 6 - 1
      OBVIOUS
    <2>4. QED
      BY <2>1, <2>2, <2>3
  <1>4. QED
    BY <1>1, <1>2, <1>3
-----------------------------------------------------------------------------
\* The request in hand after a store: the next store of its program, or the
\* update is published.
LEMMA WriteStands ==
  ASSUME CtlInv, Write, NEW l, l = HandOp.link
  PROVE  /\ server.phase = "write" /\ l \in Link /\ HandOp \in Op
         /\ HandStep \in StoreName /\ Len(HandProgram) \in {3, 6}
         /\ server.pc \in 1 .. Len(HandProgram)
         /\ HandStep = "bump" <=> server.pc = Len(HandProgram)
         /\ HandOp.what \in Param => HandStep \in {"gate", "param", "bump"}
         /\ HandOp.what \in Param => (HandStep = "param" <=> server.pc = 2)
         /\ HandOp.what \in Param => (HandStep = "bump" <=> server.pc = 3)
         /\ HandStep = "param" => HandOp.what \in Param
         /\ InHand(l) <=> server.pc # 1
         /\ \/ /\ HandStep # "bump" /\ InHand(l)' /\ server'.pc = server.pc + 1
               /\ HandOp' = HandOp /\ HandProgram' = HandProgram
            \/ HandStep = "bump" /\ ~InHand(l)' /\ server.pc # 1
  <1>1. server.phase = "write"
    BY DEF Write
  <1>2. /\ l \in Link /\ HandOp \in Op /\ HandOp = Head(server.todo)
        /\ HandStep \in StoreName /\ Len(HandProgram) \in {3, 6}
        /\ server.pc \in 1 .. Len(HandProgram) /\ server \in ServerStates
        /\ HandStep = "bump" <=> server.pc = Len(HandProgram)
        /\ HandOp.what \in Param =>
             /\ Len(HandProgram) = 3 /\ (HandStep = "param" <=> server.pc = 2)
             /\ HandStep \in {"gate", "param", "bump"}
        /\ HandStep = "param" => HandOp.what \in Param
    BY <1>1, WriteFacts DEF HandOp, HandProgram, HandStep
  <1>3. InHand(l) <=> server.pc # 1
    BY <1>1, <1>2 DEF InHand
  <1>4. \/ /\ server.pc < Len(HandProgram)
           /\ server' = [server EXCEPT !.pc = server.pc + 1]
           /\ server'.phase = "write" /\ server'.pc = server.pc + 1
           /\ server'.todo = server.todo
        \/ server.pc = Len(HandProgram) /\ (server'.phase # "write" \/ server'.pc = 1)
    BY WriteServer DEF HandOp, HandProgram
  <1>5. CASE /\ server.pc < Len(HandProgram)
             /\ server' = [server EXCEPT !.pc = server.pc + 1]
             /\ server'.phase = "write" /\ server'.pc = server.pc + 1
             /\ server'.todo = server.todo
    <2>1. HandOp' = HandOp
      BY <1>5 DEF HandOp
    <2>2. server'.batch = server.batch
      BY <1>2, <1>5 DEF ServerStates
    <2>3. HandProgram' = HandProgram
      BY <2>1, <2>2 DEF HandProgram
    <2>4. server'.pc > 1 /\ server.pc # Len(HandProgram)
      BY <1>2, <1>5
    <2>5. InHand(l)'
      BY <1>2, <1>5, <2>1, <2>4 DEF InHand, HandOp
    <2>6. QED
      BY <1>1, <1>2, <1>3, <1>5, <2>1, <2>3, <2>4, <2>5
  <1>6. CASE server.pc = Len(HandProgram) /\ (server'.phase # "write" \/ server'.pc = 1)
    <2>1. \A n \in {3, 6} : n # 1
      OBVIOUS
    <2>2. server.pc # 1
      BY <1>2, <1>6, <2>1, Zenon
    <2>3. ~InHand(l)'
      BY <1>6 DEF InHand
    <2>4. QED
      BY <1>1, <1>2, <1>3, <1>6, <2>2, <2>3
  <1>7. QED
    BY <1>4, <1>5, <1>6

\* What is behind the update in hand after a store.
LEMMA WriteStored ==
  ASSUME CtlInv, Write, NEW l, l = HandOp.link, NEW step
  PROVE  /\ Stored(l, step)' <=>
              ~InHand(l)' \/ HandStep = step \/ (InHand(l) /\ Stored(l, step))
         /\ HandStep = "bump" /\ step = "gate" => InHand(l) /\ Stored(l, step)
         /\ HandStep = "bump" /\ step \in {"pending", "layout", "gain"}
              /\ HandOp.what \notin Param => InHand(l) /\ Stored(l, step)
  <1>1. /\ server.pc \in 1 .. Len(HandProgram) /\ Len(HandProgram) \in {3, 6}
        /\ HandStep = "bump" <=> server.pc = Len(HandProgram)
        /\ InHand(l) <=> server.pc # 1
        /\ \/ /\ HandStep # "bump" /\ InHand(l)' /\ server'.pc = server.pc + 1
              /\ HandOp' = HandOp /\ HandProgram' = HandProgram
           \/ HandStep = "bump" /\ ~InHand(l)' /\ server.pc # 1
    BY WriteStands
  <1>2. server.pc \in Nat \ {0}
    BY <1>1
  <1>3. CASE InHand(l)'
    <2>1. (\E i \in 1 .. server'.pc - 1 : HandProgram[i] = step)
            <=> HandStep = step \/ \E i \in 1 .. server.pc - 1 : HandProgram[i] = step
      <3>1. 1 .. server'.pc - 1 = (1 .. server.pc - 1) \cup {server.pc}
        BY <1>1, <1>2, <1>3
      <3>2. QED
        BY <3>1 DEF HandStep
    <2>2. server.pc = 1 => ~\E i \in 1 .. server.pc - 1 : HandProgram[i] = step
      OBVIOUS
    <2>3. Stored(l, step)' <=> \E i \in 1 .. server'.pc - 1 : HandProgram[i] = step
      <3>1. HandProgram' = HandProgram
        BY <1>1, <1>3
      <3>2. QED
        BY <1>3, <3>1 DEF Stored
    <2>4. InHand(l) => (Stored(l, step) <=> \E i \in 1 .. server.pc - 1 : HandProgram[i] = step)
      BY DEF Stored
    <2>5. CASE server.pc = 1
      BY <1>1, <1>3, <2>1, <2>2, <2>3, <2>5
    <2>6. CASE server.pc # 1
      BY <1>1, <1>3, <2>1, <2>3, <2>4, <2>6
    <2>7. QED
      BY <2>5, <2>6
  <1>4. CASE ~InHand(l)'
    <2>1. HandStep = "bump" /\ server.pc = Len(HandProgram) /\ InHand(l)
      BY <1>1, <1>4
    <2>2. /\ \E i \in 1 .. server.pc - 1 : HandProgram[i] = "gate"
          /\ HandOp.what \notin Param =>
               /\ \E i \in 1 .. server.pc - 1 : HandProgram[i] = "pending"
               /\ \E i \in 1 .. server.pc - 1 : HandProgram[i] = "layout"
               /\ \E i \in 1 .. server.pc - 1 : HandProgram[i] = "gain"
      BY <2>1, ProgramStores DEF HandProgram
    <2>3. QED
      BY <1>4, <2>1, <2>2 DEF Stored
  <1>5. QED
    BY <1>3, <1>4

\* A store takes nothing into the request, and its first operation out of it.
LEMMA WriteToCome ==
  ASSUME CtlInv, Write, NEW q \in Link
  PROVE  \E h \in {0, 1} : \A i \in ToCome(q)' : i + h \in ToCome(q) /\ i + h # 1 /\ i \in Nat
  <1>1. server.phase = "write"
    BY DEF Write
  <1>2. /\ server.todo \in Seq(Op) /\ server.todo # << >> /\ Len(server.todo) \in Nat \ {0}
        /\ server.pc \in 1 .. Len(HandProgram) /\ Len(HandProgram) \in {3, 6}
    BY <1>1, WriteFacts DEF HandOp, HandProgram
  <1>3. \/ /\ server'.phase = "write" /\ server'.pc = server.pc + 1
           /\ server'.todo = server.todo
        \/ server'.phase # "write"
        \/ /\ server'.phase = "write" /\ server'.pc = 1
           /\ server'.todo = Tail(server.todo)
    BY WriteServer DEF HandOp, HandProgram
  <1>4. CASE /\ server'.phase = "write" /\ server'.pc = server.pc + 1
             /\ server'.todo = server.todo
    <2>1. server'.pc # 1
      BY <1>2, <1>4
    <2>2. \A i \in ToCome(q)' : i \in ToCome(q) /\ i # 1 /\ i \in Nat
      BY <1>1, <1>2, <1>4, <2>1 DEF ToCome
    <2>3. \A i \in ToCome(q)' : i + 0 \in ToCome(q) /\ i + 0 # 1 /\ i \in Nat
      BY <2>2
    <2>4. QED
      BY <2>3
  <1>5. CASE server'.phase # "write"
    <2>1. ToCome(q)' = {}
      BY <1>5 DEF ToCome
    <2>2. QED
      BY <2>1
  <1>6. CASE /\ server'.phase = "write" /\ server'.pc = 1
             /\ server'.todo = Tail(server.todo)
    <2>1. /\ Len(Tail(server.todo)) = Len(server.todo) - 1
          /\ \A i \in 1 .. Len(Tail(server.todo)) : Tail(server.todo)[i] = server.todo[i + 1]
      BY <1>2
    <2>2. \A i \in ToCome(q)' : /\ i \in 1 .. Len(server.todo) - 1
                                /\ server.todo[i + 1].link = q
      BY <1>6, <2>1 DEF ToCome
    <2>3. \A i \in 1 .. Len(server.todo) - 1 :
            i + 1 \in 1 .. Len(server.todo) /\ i + 1 > 1 /\ i + 1 # 1 /\ i \in Nat
      BY <1>2
    <2>4. \A i \in ToCome(q)' : i + 1 \in ToCome(q) /\ i + 1 # 1 /\ i \in Nat
      BY <1>1, <2>2, <2>3 DEF ToCome
    <2>5. QED
      BY <2>4
  <1>7. QED
    BY <1>3, <1>4, <1>5, <1>6

\* While an update of a link is written, the link is at rest: what telemetry
\* tells, what is live and what is published is the update before.
LEMMA WriteQuiet ==
  ASSUME CtlInv, PatientInv, Write, NEW l, l = HandOp.link, NEW m, m = Len(Opening)
  PROVE  /\ m \in 0 .. MaxUpdate /\ m \in Nat \ {0} /\ Len(log[l]) \in Nat
         /\ m - 1 <= Len(log[l]) /\ Len(log[l]) <= m
         /\ m = IF InHand(l) THEN Len(log[l]) ELSE Len(log[l]) + 1
         /\ Told(l) = m - 1 /\ link[l].seqno = m - 1 /\ ctl[l].seqno = m - 1
         /\ snap[l].pc \in {"begin", "finish"} /\ ~snap[l].copy
         /\ ToCome(l)' = {}
  <1>1. l \in Link /\ (InHand(l) <=> server.pc # 1) /\ server.phase = "write"
    BY WriteStands
  <1>2. PatientLink(l) /\ Turn(l)
    BY <1>1 DEF PatientInv, PatientLink
  <1>3. /\ m \in 0 .. MaxUpdate
        /\ m = IF server.pc = 1 THEN Len(log[l]) + 1 ELSE Len(log[l])
        /\ Opening # << >> /\ Opening \in Seq(Op)
    BY WriteLog
  <1>4. m \in Nat \ {0}
    <2>1. \A u \in Seq(Op) : u # << >> => Len(u) \in Nat \ {0}
      OBVIOUS
    <2>2. QED
      BY <1>3, <2>1
  <1>5. /\ Len(log[l]) \in Nat /\ Told(l) \in Nat
        /\ link[l].seqno \in Nat /\ ctl[l].seqno \in Nat
        /\ Len(log[l]) - 1 <= Told(l) /\ Told(l) <= link[l].seqno
        /\ link[l].seqno <= ctl[l].seqno
        /\ ctl[l].seqno = IF InHand(l) THEN Len(log[l]) - 1 ELSE Len(log[l])
        /\ snap[l].pc \in {"params"} \cup SwapKind => ~InHand(l) /\ Told(l) = Len(log[l]) - 1
    BY <1>1, <1>2, PatientFacts
  <1>6. server.pc = 1 => 1 \in ToCome(l)
    BY <1>1, WriteFacts DEF ToCome, HandOp
  <1>7. ToCome(l) # {} => Told(l) = Len(log[l])
    BY <1>2 DEF Turn
  <1>8. /\ Told(l) = m - 1 /\ link[l].seqno = m - 1 /\ ctl[l].seqno = m - 1
        /\ m = IF InHand(l) THEN Len(log[l]) ELSE Len(log[l]) + 1
    <2>1. CASE server.pc = 1
      <3>1. Told(l) = Len(log[l]) /\ ~InHand(l) /\ m = Len(log[l]) + 1
        BY <1>1, <1>3, <1>6, <1>7, <2>1
      <3>2. QED
        BY <1>5, <3>1
    <2>2. CASE server.pc # 1
      <3>1. InHand(l) /\ m = Len(log[l])
        BY <1>1, <1>3, <2>2
      <3>2. QED
        BY <1>5, <3>1
    <2>3. QED
      BY <2>1, <2>2
  <1>9. snap[l].pc \notin {"params"} \cup SwapKind
    <2>1. CASE server.pc = 1
      <3>1. Told(l) = Len(log[l])
        BY <1>6, <1>7, <2>1
      <3>2. QED
        BY <1>5, <3>1
    <2>2. CASE server.pc # 1
      BY <1>1, <1>5, <2>2
    <2>3. QED
      BY <2>1, <2>2
  <1>10. snap[l].pc \in {"begin", "finish"} /\ ~snap[l].copy
    <2>1. snap[l].pc \in {"begin", "params", "finish"} \cup SwapKind
      BY <1>1, LinkFacts DEF SnapStates
    <2>2. snap[l].copy => snap[l].pc \in SwapKind
      BY <1>2 DEF Turn
    <2>3. QED
      BY <1>9, <2>1, <2>2
  <1>11. ToCome(l)' = {}
    <2> SUFFICES ASSUME NEW i \in ToCome(l)' PROVE FALSE
      OBVIOUS
    <2>1. PICK j \in ToCome(l) : j # 1
      BY <1>1, WriteToCome
    <2>2. Told(l) = Len(log[l]) /\ \A x, y \in ToCome(l) : x = y
      BY <1>2, <2>1 DEF Turn
    <2>3. server.pc # 1
      BY <1>6, <2>1, <2>2
    <2>4. QED
      BY <1>3, <1>5, <1>8, <2>2, <2>3
  <1>12. QED
    BY <1>3, <1>4, <1>5, <1>8, <1>10, <1>11

\* The store and the link it is made to.
LEMMA PatientWriteOwn ==
  ASSUME CtlInv, PatientInv, Write, NEW l, l = HandOp.link
  PROVE  PatientLink(l)'
  <1> DEFINE m == Len(Opening)
             d == Store(ctl[l], HandOp, HandStep, m)
             op == HandOp
  <1>1. /\ l \in Link /\ op \in Op /\ HandStep \in StoreName
        /\ op.what \in Param => HandStep \in {"gate", "param", "bump"}
        /\ op.what \in Param => (HandStep = "param" <=> server.pc = 2)
        /\ op.what \in Param => (HandStep = "bump" <=> server.pc = 3)
        /\ HandStep = "param" => op.what \in Param
        /\ server.pc \in Nat \ {0}
        /\ \/ HandStep # "bump" /\ InHand(l)' /\ server'.pc = server.pc + 1 /\ HandOp' = op
           \/ HandStep = "bump" /\ ~InHand(l)'
        /\ InHand(l) <=> server.pc # 1
    <2>1. server.pc \in 1 .. Len(HandProgram) /\ Len(HandProgram) \in {3, 6}
      BY WriteStands
    <2>2. server.pc \in Nat \ {0}
      BY <2>1
    <2>3. QED
      BY <2>2, WriteStands
  <1>2. /\ m \in 0 .. MaxUpdate /\ m \in Nat \ {0} /\ Len(log[l]) \in Nat
        /\ m - 1 <= Len(log[l]) /\ Len(log[l]) <= m
        /\ m = IF InHand(l) THEN Len(log[l]) ELSE Len(log[l]) + 1
        /\ Told(l) = m - 1 /\ link[l].seqno = m - 1 /\ ctl[l].seqno = m - 1
        /\ snap[l].pc \in {"begin", "finish"} /\ ~snap[l].copy
        /\ ToCome(l)' = {}
    BY WriteQuiet
  <1>3. /\ \A n \in 1 .. Len(log[l]) : Opening[n] = log[l][n]
        /\ Opening # << >> /\ Opening[m] = op
        /\ log' = [log EXCEPT ![l] = Opening] /\ ctl' = [ctl EXCEPT ![l] = d]
    BY WriteLog
  <1>4. log \in [Link -> Seq(Op)] /\ ctl \in [Link -> CtlStates] /\ ctl[l] \in CtlStates
    BY <1>1 DEF CtlInv, Shapes
  <1>5. /\ d \in CtlStates
        /\ d.seqno = IF HandStep = "bump" THEN ctl[l].seqno + 1 ELSE ctl[l].seqno
        /\ d.shadow = IF HandStep = "param" THEN [ctl[l].shadow EXCEPT ![op.what] = m]
                      ELSE ctl[l].shadow
    <2>1. /\ op \in Op /\ HandStep \in StoreName /\ m \in 0 .. MaxUpdate
          /\ HandStep = "param" => op.what \in Param
          /\ op.what \in Param => HandStep \in {"gate", "param", "bump"}
      BY <1>1, <1>2
    <2> HIDE DEF m
    <2>2. QED
      BY <1>4, <2>1, StoreTypes
  <1>6. /\ d.gate = IF HandStep = "gate" THEN op.at ELSE ctl[l].gate
        /\ \A k \in SwapKind :
             /\ d.pending[k] <=> \/ HandStep = "pending" /\ k = op.what
                                 \/ /\ ctl[l].pending[k]
                                    /\ ~(HandStep = "supersede" /\ k \in Superseded(op.what))
             /\ d.swap[k].layout =
                  IF HandStep = "layout" /\ k = op.what THEN op.layout ELSE ctl[l].swap[k].layout
             /\ d.swap[k].gain =
                  IF HandStep = "gain" /\ k = op.what THEN m ELSE ctl[l].swap[k].gain
    <2>1. /\ op \in Op /\ HandStep \in StoreName /\ m \in 0 .. MaxUpdate
          /\ HandStep = "param" => op.what \in Param
          /\ op.what \in Param => HandStep \in {"gate", "param", "bump"}
      BY <1>1, <1>2
    <2> HIDE DEF m
    <2>2. QED
      BY <1>4, <2>1, StoreWords
  <1>7. \A step : /\ Stored(l, step)' <=>
                       ~InHand(l)' \/ HandStep = step \/ (InHand(l) /\ Stored(l, step))
                  /\ HandStep = "bump" /\ step = "gate" => InHand(l) /\ Stored(l, step)
                  /\ HandStep = "bump" /\ step \in {"pending", "layout", "gain"}
                       /\ op.what \notin Param => InHand(l) /\ Stored(l, step)
    BY WriteStored
  <1> HIDE DEF m, d, op
  <1>8. /\ log'[l] = Opening /\ ctl'[l] = d /\ link' = link /\ snap' = snap
        /\ telemetry' = telemetry
    BY <1>1, <1>3, <1>4 DEF Write, linkVars
  <1>9. /\ Told(l)' = m - 1 /\ Last(l)' = op /\ Len(log'[l]) = m /\ ActiveGain(l)' = ActiveGain(l)
    BY <1>2, <1>3, <1>8 DEF Told, Last, ActiveGain, m
  \* Before: the update in hand is the last of the log, or not in it yet.
  <1>10. PatientLink(l) /\ (InHand(l) => Last(l) = op /\ log[l] # << >>)
    <2>1. InHand(l) => Last(l) = op /\ log[l] # << >>
      BY <1>1, LinkFacts DEF LinkInv, Published, Last, HandOp, op
    <2>2. QED
      BY <1>1, <2>1 DEF PatientInv
  <1>11. \A names : LastIn(Opening, names, m - 1) = LastIn(log[l], names, m - 1)
    <2>1. m - 1 \in Nat /\ \A n \in 1 .. m - 1 : Opening[n] = log[l][n]
      BY <1>2, <1>3
    <2>2. QED
      BY <2>1, LastInSame
  <1>12. \A names : LastIn(Opening, names, m) =
                      IF op.what \in names THEN m ELSE LastIn(Opening, names, m - 1)
    <2>1. m - 1 \in Nat /\ m - 1 + 1 = m
      BY <1>2
    <2>2. \A names : \A s \in Nat : LastIn(Opening, names, s + 1) =
            IF Opening[s + 1].what \in names THEN s + 1 ELSE LastIn(Opening, names, s)
      BY LastInNext
    <2>3. \A names : LastIn(Opening, names, m - 1 + 1) =
            IF Opening[m - 1 + 1].what \in names THEN m - 1 + 1 ELSE LastIn(Opening, names, m - 1)
      BY <2>1, <2>2
    <2>4. QED
      BY <1>3, <2>1, <2>3
  <1>13. Turn(l)'
    <2>1. /\ Told(l)' \in Nat /\ Told(l)' <= link'[l].seqno /\ Len(log'[l]) - 1 <= Told(l)'
          /\ Told(l)' = link'[l].seqno
      BY <1>2, <1>8, <1>9
    <2>2. snap'[l].pc \notin {"params"} \cup SwapKind /\ ~snap'[l].copy
      BY <1>2, <1>8 DEF SwapKind
    <2>3. QED
      BY <1>2, <2>1, <2>2 DEF Turn
  <1>14. Exact(l)'
    <2> SUFFICES ASSUME NEW p \in Param
                 PROVE  /\ d.shadow[p] =
                             IF InHand(l)' /\ server'.pc = 3 /\ HandOp'.what = p THEN m
                             ELSE LastIn(Opening, {p}, d.seqno)
                        /\ link[l].live[p] = LastIn(Opening, {p}, link[l].seqno)
      BY <1>2, <1>8, <1>9 DEF Exact
    <2>1. /\ ctl[l].shadow[p] =
               IF InHand(l) /\ server.pc = 3 /\ op.what = p THEN Len(log[l])
               ELSE LastIn(log[l], {p}, m - 1)
          /\ link[l].live[p] = LastIn(log[l], {p}, m - 1)
      BY <1>2, <1>10 DEF PatientLink, Exact, op
    <2>2. d.shadow[p] = IF HandStep = "param" /\ op.what = p THEN m ELSE ctl[l].shadow[p]
      BY <1>4, <1>5 DEF CtlStates
    <2>3. CASE HandStep = "bump"
      <3>1. d.seqno = m /\ ~InHand(l)' /\ InHand(l) /\ m = Len(log[l])
        BY <1>1, <1>2, <1>5, <1>7, <2>3
      <3>2. op.what = p => server.pc = 3
        BY <1>1, <2>3
      <3>3. d.shadow[p] = IF op.what = p THEN m ELSE LastIn(Opening, {p}, m - 1)
        BY <1>11, <2>1, <2>2, <2>3, <3>1, <3>2
      <3>4. QED
        BY <1>2, <1>11, <1>12, <2>1, <3>1, <3>3
    <2>4. CASE HandStep # "bump"
      <3>1. d.seqno = m - 1 /\ InHand(l)' /\ server'.pc = server.pc + 1 /\ HandOp' = op
        BY <1>1, <1>2, <1>5, <2>4
      <3>2. op.what = p => (HandStep = "param" <=> server'.pc = 3) /\ server.pc # 3
        BY <1>1, <2>4, <3>1
      <3>3. d.shadow[p] = IF HandStep = "param" /\ op.what = p THEN m
                          ELSE LastIn(Opening, {p}, m - 1)
        BY <1>11, <2>1, <2>2, <3>2
      <3>4. QED
        BY <1>2, <1>11, <2>1, <3>1, <3>2, <3>3
    <2>5. QED
      BY <2>3, <2>4
  <1>15. Owes(l)'
    <2> SUFFICES ASSUME NEW k \in SwapKind
                 PROVE  /\ d.pending[k] <=> Owed(l, k)'
                        /\ op.what = k =>
                             /\ Stored(l, "layout")' => d.swap[k].layout = op.layout
                             /\ Stored(l, "gain")' => d.swap[k].gain = m
      BY <1>8, <1>9 DEF Owes
    <2>1. k \notin Param
      BY ControlAssumption
    <2>2. Owed(l, k)' <=> op.what = k /\ Stored(l, "pending")'
      BY <1>2, <1>8, <1>9 DEF Owed
    <2>3. ctl[l].pending[k] <=> InHand(l) /\ op.what = k /\ Stored(l, "pending")
      <3>1. ctl[l].pending[k] <=> Owed(l, k)
        BY <1>10 DEF PatientLink, Owes
      <3>2. CASE InHand(l)
        BY <1>2, <1>10, <3>1, <3>2 DEF Owed
      <3>3. CASE ~InHand(l)
        BY <1>2, <3>1, <3>3 DEF Owed
      <3>4. QED
        BY <3>2, <3>3
    <2>4. k \notin Superseded(k)
      BY DEF Superseded, SwapKind
    <2>5. d.pending[k] <=> op.what = k /\ Stored(l, "pending")'
      <3>1. CASE HandStep = "bump"
        BY <1>1, <1>6, <1>7, <2>1, <2>3, <3>1
      <3>2. CASE HandStep # "bump"
        BY <1>1, <1>6, <1>7, <2>3, <2>4, <3>2
      <3>3. QED
        BY <3>1, <3>2
    <2>6. InHand(l) /\ op.what = k =>
            /\ Stored(l, "layout") => ctl[l].swap[k].layout = op.layout
            /\ Stored(l, "gain") => ctl[l].swap[k].gain = m
      BY <1>2, <1>10 DEF PatientLink, Owes
    <2>7. ASSUME op.what = k
          PROVE  /\ Stored(l, "layout")' => d.swap[k].layout = op.layout
                 /\ Stored(l, "gain")' => d.swap[k].gain = m
      <3>1. CASE HandStep = "bump"
        BY <1>6, <1>7, <2>1, <2>6, <2>7, <3>1
      <3>2. CASE HandStep # "bump"
        BY <1>1, <1>6, <1>7, <2>6, <2>7, <3>2
      <3>3. QED
        BY <3>1, <3>2
    <2>8. QED
      BY <2>2, <2>5, <2>7
  <1>16. Held(l)'
    <2>1. \A k : ~Copying(l, k) /\ ~Copying(l, k)'
      BY <1>2, <1>8 DEF Copying
    <2>2. /\ ActiveGain(l) = LastIn(log[l], {"profile", "matrix"}, m - 1)
          /\ link[l].swap["correlation"].gain = LastIn(log[l], {"correlation"}, m - 1)
          /\ \A k \in SwapKind : Whole(l, k)
      <3>1. ProfileUpTo(l) = m - 1 /\ FactorUpTo(l) = m - 1
        BY <1>2 DEF ProfileUpTo, FactorUpTo
      <3>2. QED
        BY <1>10, <2>1, <3>1 DEF PatientLink, Held
    <2>3. ProfileUpTo(l)' = m - 1 /\ FactorUpTo(l)' = m - 1
      BY <1>2, <1>8, <1>9 DEF ProfileUpTo, FactorUpTo
    <2>4. ASSUME NEW k \in SwapKind PROVE Whole(l, k)'
      <3>1. Whole(l, k)
        BY <2>2
      <3>2. link[l].swap[k].gain \in 1 .. Len(log[l]) =>
              /\ link[l].swap[k].gain \in 1 .. m
              /\ Opening[link[l].swap[k].gain] = log[l][link[l].swap[k].gain]
        BY <1>2, <1>3
      <3>3. QED
        BY <1>8, <1>9, <3>1, <3>2 DEF Whole
    <2>5. QED
      BY <1>8, <1>9, <1>11, <2>1, <2>2, <2>3, <2>4 DEF Held
  <1>17. Due(l)'
    <2>1. /\ telemetry[l].slot \in Nat /\ telemetry[l].slot <= link[l].next
          /\ \A n \in 1 .. m - 1 : log[l][n].at <= telemetry[l].slot
          /\ InHand(l) /\ Stored(l, "gate") => ctl[l].gate = op.at
      BY <1>2, <1>10 DEF PatientLink, Due
    <2>2. \A n \in 1 .. m - 1 : Opening[n].at <= telemetry[l].slot
      <3>1. \A n \in 1 .. m - 1 : n \in 1 .. Len(log[l])
        BY <1>2
      <3>2. QED
        BY <1>3, <2>1, <3>1
    <2>3. Stored(l, "gate")' => d.gate = op.at
      BY <1>1, <1>6, <1>7, <2>1
    <2>4. snap'[l].pc \notin {"params"} \cup SwapKind /\ link'[l].seqno = Told(l)'
      BY <1>2, <1>8, <1>9 DEF SwapKind
    <2>5. QED
      BY <1>8, <1>9, <2>1, <2>2, <2>3, <2>4 DEF Due
  <1>18. QED
    BY <1>13, <1>14, <1>15, <1>16, <1>17 DEF PatientLink

LEMMA PatientWrite ==
  ASSUME CtlInv, PatientInv, Write
  PROVE  PatientInv'
  <1>1. PICK l : l = HandOp.link
    OBVIOUS
  <1>2. /\ link' = link /\ snap' = snap /\ telemetry' = telemetry
        /\ log \in [Link -> Seq(Op)] /\ ctl \in [Link -> CtlStates]
    BY DEF Write, linkVars, CtlInv, Shapes
  <1>3. PICK d, o : ctl' = [ctl EXCEPT ![l] = d] /\ log' = [log EXCEPT ![l] = o]
    <2>1. PICK d, o :
            ctl' = [ctl EXCEPT ![HandOp.link] = d] /\ log' = [log EXCEPT ![HandOp.link] = o]
      BY DEF Write, HandOp
    <2>2. QED
      BY <1>1, <2>1
  <1>4. ASSUME NEW q \in Link, q # l PROVE PatientLink(q)'
    <2>1. PatientLink(q) /\ Turn(q)
      BY DEF PatientInv, PatientLink
    <2>2. ctl'[q] = ctl[q] /\ log'[q] = log[q]
      BY <1>2, <1>3, <1>4
    <2>3. ~InHand(q) /\ ~InHand(q)'
      <3>1. server'.todo = server.todo \/ server'.phase # "write" \/ server'.pc = 1
        BY WriteServer DEF HandOp
      <3>2. QED
        BY <1>1, <1>4, <3>1 DEF InHand, HandOp
    <2>4. PICK h \in {0, 1} : \A i \in ToCome(q)' : i + h \in ToCome(q) /\ i \in Nat
      BY WriteToCome
    <2>5. \A i, j \in ToCome(q)' : i = j
      <3>1. \A i, j \in ToCome(q)' : i + h = j + h /\ i \in Nat /\ j \in Nat
        BY <2>1, <2>4 DEF Turn
      <3>2. QED
        BY <3>1
    <2>6. ToCome(q)' # {} => Told(q) = Len(log[q])
      <3>1. ToCome(q)' # {} => ToCome(q) # {}
        BY <2>4
      <3>2. QED
        BY <2>1, <3>1 DEF Turn
    <2>7. QED
      BY <1>2, <2>1, <2>2, <2>3, <2>5, <2>6, PatientKept
  <1>5. QED
    BY <1>1, <1>2, <1>4, PatientWriteOwn DEF PatientInv

LEMMA PatientServer ==
  ASSUME Patient, OneEach, CtlInv, PatientInv, Server
  PROVE  PatientInv'
  <1>1. CASE \E op \in Op : ScalarUpdate(op)
    BY <1>1, PatientBegin DEF ScalarUpdate
  <1>2. CASE \E op \in Op : ProfileSwap(op)
    BY <1>2, PatientBegin DEF ProfileSwap
  <1>3. CASE \E op \in Op : MatrixProfileSwap(op)
    BY <1>3, PatientBegin DEF MatrixProfileSwap
  <1>4. CASE \E op \in Op : CorrelationSwap(op)
    BY <1>4, PatientBegin DEF CorrelationSwap
  <1>5. CASE \E b \in BatchId : BatchBegin(b)
    BY <1>5, PatientIdles DEF BatchBegin
  <1>6. CASE \E b \in BatchId, op \in Op : Stage(b, op)
    BY <1>6, PatientIdles DEF Stage
  <1>7. CASE \E b \in BatchId, at \in Gate : BatchCommit(b, at)
    BY <1>7, PatientCommit
  <1>8. CASE \E b \in BatchId : BatchAbort(b)
    BY <1>8, PatientIdles DEF BatchAbort
  <1>9. CASE Write
    BY <1>9, PatientWrite
  <1>10. CASE Reply
    BY <1>10, IdleTyped, PatientIdles DEF Reply
  <1>11. QED
    BY <1>1, <1>2, <1>3, <1>4, <1>5, <1>6, <1>7, <1>8, <1>9, <1>10 DEF Server

\* However the control thread's stores interleave with a snap, an update of a
\* patient client is copied only when all of it is stored: the bump that lets the
\* snap see it comes last (apply_update, the swap handlers), and the next update
\* is stored only after the snap has told of this one (snap_physical_link).
THEOREM PatientInvariant ==
  ASSUME Patient
  PROVE  Spec /\ []OneEach => [](CtlInv /\ PatientInv)
  <1>1. CtlInv /\ PatientInv /\ OneEach /\ [Next]_vars /\ CtlInv' => PatientInv'
    <2> SUFFICES ASSUME CtlInv, PatientInv, OneEach, [Next]_vars PROVE PatientInv'
      OBVIOUS
    <2>1. CASE Server
      BY <2>1, PatientServer
    <2>2. CASE \E l \in Link : Snap(l)
      BY <2>2, PatientSnap
    <2>3. CASE UNCHANGED vars
      <3>1. UNCHANGED << ctl, server, link, snap, log, telemetry >>
        BY <2>3 DEF vars, serverVars, linkVars
      <3>2. ASSUME NEW l \in Link PROVE PatientLink(l)'
        <4>1. PatientLink(l) /\ Turn(l) /\ ToCome(l)' = ToCome(l)
          BY <3>1 DEF PatientInv, PatientLink, ToCome
        <4>2. (ToCome(l) # {} => Told(l) = Len(log[l])) /\ \A i, j \in ToCome(l) : i = j
          BY <4>1 DEF Turn
        <4>3. QED
          BY <3>1, <4>1, <4>2, PatientKept
      <3>3. QED
        BY <3>1, <3>2 DEF PatientInv
    <2>4. QED
      BY <2>1, <2>2, <2>3 DEF Next
  <1>2. QED
    BY <1>1, PatientStart, CtlInvariant, PTL DEF Spec

\* A slot is served from exactly the updates its reported live_seqno counts, all
\* of each and none of the next, for any number of links, parameters, layouts
\* and batches: the promise of the lock-free handshake of runtime_control.h and
\* snap_physical_link to a client that waits for its telemetry.
THEOREM PatientGetsOneVersion ==
  ASSUME Patient
  PROVE  Spec /\ []OneEach => []OneVersion
  BY PatientInvariant, PatientOneVersion, PTL

\* No slot before its take_effect_at_slot is served from an update of such a
\* client: the gate is stored before the bump, and is not written again until
\* the snap has passed it.
THEOREM PatientGetsItsSlot ==
  ASSUME Patient
  PROVE  Spec /\ []OneEach => []NotBeforeItsSlot
  BY PatientInvariant, PatientOnTime, PTL
-----------------------------------------------------------------------------
(***************************************************************************)
(* What a reply promises such a client.                                    *)
(***************************************************************************)
\* The last update that was answered is not live yet.
Unserved(l) == ack[l].seqno > link[l].seqno

\* The slot that the control thread reads is at most one behind the producer's.
Clock(l) ==
  /\ telemetry[l].slot <= ctl[l].slot /\ link[l].next <= ctl[l].slot + 1
  /\ snap[l].stored => ctl[l].slot = link[l].next
  /\ snap[l].pc # "begin" => snap[l].stored
  /\ \A n \in 1 .. Len(applied[l]) : applied[l][n] <= link[l].next

\* A snap that does not take update n: it is past the gate, or looked before the
\* bump.
PassesOver(s, n) == s.pc = "finish" \/ (s.pc = "begin" /\ s.observed \notin {-1, n})

\* An answered update went live in time, or its slot can still come: a snap that
\* does not take it has at least one more before the promise is broken.
Answered(l) ==
  /\ ack[l].seqno \in Nat /\ ack[l].at \in Nat /\ ack[l].seqno <= ctl[l].seqno
  /\ ack[l].seqno \in 1 .. link[l].seqno => applied[l][ack[l].seqno] <= ack[l].at + 2
  /\ Unserved(l) =>
       /\ ctl[l].gate <= ack[l].at
       /\ telemetry[l].slot <= ack[l].at + 1 /\ link[l].next <= ack[l].at + 2
       /\ PassesOver(snap[l], ack[l].seqno) => link[l].next <= ack[l].at + 1

AckLink(l) == Clock(l) /\ Answered(l)
AckInv == ack = [l \in Link |-> ack[l]] /\ \A l \in Link : AckLink(l)

LEMMA AckStart == Init => AckInv
  <1> SUFFICES ASSUME Init PROVE AckInv
    OBVIOUS
  <1>1. ack = [l \in Link |-> ack[l]]
    BY DEF Init
  <1>2. ASSUME NEW l \in Link PROVE AckLink(l)
    <2>1. /\ ctl[l].slot = 0 /\ ctl[l].gate = 0 /\ ctl[l].seqno = 0 /\ applied[l] = << >>
          /\ link[l].next = 0 /\ link[l].seqno = 0 /\ ack[l].seqno = 0 /\ ack[l].at = 0
          /\ telemetry[l].slot = 0
      BY DEF Init
    <2>2. ~snap[l].stored /\ snap[l].pc = "begin"
      BY DEF Init, NoSnap
    <2>3. QED
      BY <2>1, <2>2 DEF AckLink, Clock, Answered, Unserved
  <1>3. QED
    BY <1>1, <1>2 DEF AckInv

\* The numbers; and an answered update that is not live is the last one, stored
\* and published.
LEMMA AckFacts ==
  ASSUME CtlInv, PatientInv, AckInv, NEW l \in Link
  PROVE  /\ telemetry[l].slot \in Nat /\ telemetry[l].slot <= link[l].next
         /\ link[l].next \in Nat /\ ctl[l].slot \in Nat /\ ctl[l].gate \in Nat
         /\ ctl[l].seqno \in Nat /\ link[l].seqno \in Nat /\ link[l].seqno <= ctl[l].seqno
         /\ applied[l] \in Seq(Nat) /\ Len(applied[l]) = link[l].seqno
         /\ ack[l].seqno \in Nat /\ ack[l].at \in Nat
         /\ Unserved(l) =>
              /\ ack[l].seqno = Len(log[l]) /\ ctl[l].seqno = Len(log[l]) /\ ~InHand(l)
              /\ snap[l].pc \notin SwapKind
              /\ snap[l].pc = "params" => snap[l].observed = ack[l].seqno
         /\ Clock(l) /\ Answered(l)
  <1>1. PatientLink(l) /\ Clock(l) /\ Answered(l)
    BY DEF PatientInv, AckInv, AckLink
  <1>2. /\ ctl[l].slot \in Nat /\ ctl[l].gate \in Nat /\ link[l].next \in Nat
        /\ applied[l] \in Seq(Nat) /\ Len(applied[l]) = link[l].seqno
    <2>1. /\ ctl[l] \in CtlStates /\ link[l].next \in 0 .. MaxSlot
          /\ Len(applied[l]) = link[l].seqno
      BY LinkFacts DEF LinkTypes
    <2>2. Gate \subseteq Nat /\ MaxSlot \in Nat
      BY ControlAssumption
    <2>3. ctl[l].gate \in Gate /\ ctl[l].slot \in 0 .. MaxSlot
      BY <2>1 DEF CtlStates
    <2>4. QED
      BY <2>1, <2>2, <2>3, Unmoved
  <1>3. /\ Len(log[l]) \in Nat /\ Told(l) \in Nat
        /\ link[l].seqno \in Nat /\ ctl[l].seqno \in Nat
        /\ Len(log[l]) - 1 <= Told(l) /\ Told(l) <= link[l].seqno
        /\ link[l].seqno <= ctl[l].seqno /\ ctl[l].seqno <= Len(log[l])
        /\ ctl[l].seqno = IF InHand(l) THEN Len(log[l]) - 1 ELSE Len(log[l])
    BY <1>1, PatientFacts
  <1>4. ack[l].seqno \in Nat /\ ack[l].at \in Nat /\ ack[l].seqno <= ctl[l].seqno
    BY <1>1 DEF Answered
  <1>5. ASSUME Unserved(l)
        PROVE  /\ ack[l].seqno = Len(log[l]) /\ ctl[l].seqno = Len(log[l]) /\ ~InHand(l)
               /\ snap[l].pc \notin SwapKind
               /\ snap[l].pc = "params" => snap[l].observed = ack[l].seqno
    <2>1. /\ ack[l].seqno = Len(log[l]) /\ ctl[l].seqno = Len(log[l]) /\ ~InHand(l)
          /\ link[l].seqno # Len(log[l])
      BY <1>3, <1>4, <1>5 DEF Unserved
    <2>2. /\ snap[l].pc = "params" => snap[l].observed = Len(log[l])
          /\ snap[l].pc \in SwapKind => link[l].seqno = Len(log[l])
      BY <1>1 DEF PatientLink, Turn
    <2>3. QED
      BY <2>1, <2>2
  <1>6. telemetry[l].slot \in Nat /\ telemetry[l].slot <= link[l].next
    BY <1>1 DEF PatientLink, Due
  <1>7. QED
    BY <1>1, <1>2, <1>3, <1>4, <1>5, <1>6

LEMMA AckGivesIt == CtlInv /\ PatientInv /\ AckInv => AckHonoured
  <1> SUFFICES ASSUME CtlInv, PatientInv, AckInv, NEW l \in Link
               PROVE  /\ 0 < ack[l].seqno /\ ack[l].seqno <= link[l].seqno
                           => applied[l][ack[l].seqno] <= ack[l].at + 2
                      /\ ack[l].seqno > link[l].seqno => telemetry[l].slot < ack[l].at + 2
    BY DEF AckHonoured
  <1>1. /\ ack[l].seqno \in Nat /\ ack[l].at \in Nat /\ link[l].seqno \in Nat
        /\ telemetry[l].slot \in Nat /\ Answered(l)
    BY AckFacts
  <1>2. 0 < ack[l].seqno /\ ack[l].seqno <= link[l].seqno => ack[l].seqno \in 1 .. link[l].seqno
    BY <1>1
  <1>3. ack[l].seqno > link[l].seqno => telemetry[l].slot <= ack[l].at + 1
    BY <1>1 DEF Answered, Unserved
  <1>4. QED
    BY <1>1, <1>2, <1>3 DEF Answered

\* A step of the producer of one link.
LEMMA AckProducer ==
  ASSUME AckInv, NEW l \in Link, UNCHANGED serverVars, AckLink(l)',
         \A q \in Link : q # l =>
           /\ ctl'[q] = ctl[q] /\ link'[q] = link[q] /\ snap'[q] = snap[q]
           /\ telemetry'[q] = telemetry[q] /\ applied'[q] = applied[q]
  PROVE  AckInv'
  <1>1. ack' = ack
    BY DEF serverVars
  <1>2. ASSUME NEW q \in Link, q # l PROVE AckLink(q)'
    <2>1. AckLink(q)
      BY DEF AckInv
    <2>2. QED
      BY <1>1, <1>2, <2>1 DEF AckLink, Clock, Answered, Unserved
  <1>3. QED
    BY <1>1, <1>2 DEF AckInv

\* One that leaves slots and seqnos alone.
LEMMA AckMoves ==
  ASSUME CtlInv, PatientInv, AckInv, NEW l \in Link, UNCHANGED << serverVars, telemetry, applied >>,
         NEW c, ctl' = [ctl EXCEPT ![l] = c],
         c.seqno = ctl[l].seqno, c.slot = ctl[l].slot, c.gate = ctl[l].gate,
         NEW k, link' = [link EXCEPT ![l] = k],
         k.seqno = link[l].seqno, k.next = link[l].next,
         NEW s, snap' = [snap EXCEPT ![l] = s],
         s.stored = snap[l].stored, s.pc # "begin" => s.stored,
         Unserved(l) /\ PassesOver(s, ack[l].seqno) => link[l].next <= ack[l].at + 1
  PROVE  AckInv'
  <1>1. ctl'[l] = c /\ link'[l] = k /\ snap'[l] = s /\ ack' = ack
    BY Unmoved DEF serverVars
  <1>2. \A q \in Link : q # l =>
          /\ ctl'[q] = ctl[q] /\ link'[q] = link[q] /\ snap'[q] = snap[q]
          /\ telemetry'[q] = telemetry[q] /\ applied'[q] = applied[q]
    BY Unmoved
  <1>3. Clock(l) /\ Answered(l)
    BY AckFacts
  <1>4. Clock(l)'
    BY <1>1, <1>3 DEF Clock
  <1>5. Answered(l)'
    BY <1>1, <1>3 DEF Answered, Unserved
  <1>6. QED
    BY <1>2, <1>4, <1>5, AckProducer DEF AckLink

LEMMA AckStore ==
  ASSUME CtlInv, PatientInv, AckInv, NEW l \in Link, SnapStore(l)
  PROVE  AckInv'
  <1> DEFINE c == [ctl[l] EXCEPT !.slot = link[l].next]
             s == [snap[l] EXCEPT !.stored = TRUE]
  <1>1. /\ c.seqno = ctl[l].seqno /\ c.gate = ctl[l].gate /\ c.slot = link[l].next
        /\ s.stored /\ s.pc = snap[l].pc /\ s.observed = snap[l].observed
    BY LinkFacts DEF CtlStates, SnapStates
  <1>2. ctl' = [ctl EXCEPT ![l] = c] /\ snap' = [snap EXCEPT ![l] = s]
        /\ UNCHANGED << serverVars, link, telemetry, applied >>
    BY DEF SnapStore
  <1> HIDE DEF c, s
  <1>3. /\ ctl'[l] = c /\ snap'[l] = s /\ link' = link /\ ack' = ack
        /\ telemetry' = telemetry /\ applied' = applied
        /\ \A q \in Link : q # l => ctl'[q] = ctl[q] /\ snap'[q] = snap[q]
    BY <1>2, Unmoved DEF serverVars
  <1>4. /\ telemetry[l].slot <= link[l].next /\ link[l].next \in Nat
        /\ Clock(l) /\ Answered(l)
    BY AckFacts
  <1>5. Clock(l)'
    BY <1>1, <1>3, <1>4 DEF Clock
  <1>6. Answered(l)'
    <2>1. PassesOver(s, ack[l].seqno) <=> PassesOver(snap[l], ack[l].seqno)
      BY <1>1 DEF PassesOver
    <2>2. QED
      BY <1>1, <1>3, <1>4, <2>1 DEF Answered, Unserved
  <1>7. QED
    BY <1>2, <1>3, <1>5, <1>6, AckProducer DEF AckLink

\* A snap that looks after the reply sees the update.
LEMMA AckLoad ==
  ASSUME CtlInv, PatientInv, AckInv, NEW l \in Link, SnapLoad(l)
  PROVE  AckInv'
  <1> DEFINE s == [snap[l] EXCEPT !.observed = ctl[l].seqno]
  <1>1. /\ s.pc = "begin" /\ s.stored = snap[l].stored /\ s.observed = ctl[l].seqno
    BY LinkFacts DEF SnapLoad, SnapStates
  <1>2. /\ snap' = [snap EXCEPT ![l] = s] /\ ctl' = [ctl EXCEPT ![l] = ctl[l]]
        /\ link' = [link EXCEPT ![l] = link[l]]
        /\ UNCHANGED << serverVars, telemetry, applied >>
    BY Unmoved DEF SnapLoad
  <1>3. Unserved(l) => ~PassesOver(s, ack[l].seqno)
    BY <1>1, AckFacts DEF PassesOver
  <1> HIDE DEF s
  <1>4. QED
    BY <1>1, <1>2, <1>3, AckMoves

\* A snap that passes it over looked before the bump, or is before its gate.
LEMMA AckGate ==
  ASSUME CtlInv, PatientInv, AckInv, NEW l \in Link, SnapGate(l)
  PROVE  AckInv'
  <1> DEFINE s == IF snap[l].observed # link[l].seqno /\ GateOpen(l)
                  THEN [snap[l] EXCEPT !.pc = "params", !.left = Param]
                  ELSE [snap[l] EXCEPT !.pc = "finish"]
  <1>1. /\ snap[l].pc = "begin" /\ snap[l].observed # -1 /\ snap[l].stored
        /\ snap' = [snap EXCEPT ![l] = s] /\ ctl' = [ctl EXCEPT ![l] = ctl[l]]
        /\ link' = [link EXCEPT ![l] = link[l]]
        /\ UNCHANGED << serverVars, telemetry, applied >>
    BY Unmoved DEF SnapGate
  <1>2. /\ s.stored = snap[l].stored
        /\ \/ s.pc = "params"
           \/ s.pc = "finish" /\ (snap[l].observed = link[l].seqno \/ ~GateOpen(l))
    BY LinkFacts DEF SnapStates
  <1> HIDE DEF s
  <1>3. ASSUME Unserved(l), s.pc = "finish" PROVE link[l].next <= ack[l].at + 1
    <2>1. /\ link[l].next \in Nat /\ ctl[l].gate \in Nat /\ ack[l].at \in Nat
          /\ ack[l].seqno \in Nat /\ link[l].seqno \in Nat /\ Answered(l)
      BY AckFacts
    <2>2. CASE snap[l].observed = link[l].seqno
      <3>1. snap[l].observed \notin {-1, ack[l].seqno}
        BY <1>1, <1>3, <2>1, <2>2 DEF Unserved
      <3>2. QED
        BY <1>1, <1>3, <2>1, <3>1 DEF Answered, PassesOver
    <2>3. CASE ~GateOpen(l)
      <3>1. link[l].next < ctl[l].gate /\ ctl[l].gate <= ack[l].at
        BY <1>3, <2>1, <2>3 DEF GateOpen, Answered
      <3>2. QED
        BY <2>1, <3>1
    <2>4. QED
      BY <1>2, <1>3, <2>2, <2>3
  <1>4. Unserved(l) /\ PassesOver(s, ack[l].seqno) => link[l].next <= ack[l].at + 1
    BY <1>2, <1>3 DEF PassesOver
  <1>5. QED
    BY <1>1, <1>2, <1>4, AckMoves

LEMMA AckParam ==
  ASSUME CtlInv, PatientInv, AckInv, NEW l \in Link, NEW p \in Param, SnapParam(l, p)
  PROVE  AckInv'
  <1> DEFINE w == [link[l].live EXCEPT ![p] = ctl[l].shadow[p]]
             k == [link[l] EXCEPT !.live = w]
             s == [snap[l] EXCEPT !.left = snap[l].left \ {p}]
  <1>1. k.seqno = link[l].seqno /\ k.next = link[l].next
    BY Unmoved, LinkUpdate
  <1>2. s.pc = "params" /\ s.stored = snap[l].stored /\ snap[l].stored
    <2>1. s.pc = "params" /\ s.stored = snap[l].stored /\ snap[l].pc = "params"
      BY LinkFacts DEF SnapStates, SnapParam
    <2>2. QED
      BY <2>1, AckFacts DEF Clock
  <1>3. /\ snap' = [snap EXCEPT ![l] = s] /\ ctl' = [ctl EXCEPT ![l] = ctl[l]]
        /\ link' = [link EXCEPT ![l] = k]
        /\ UNCHANGED << serverVars, telemetry, applied >>
    BY Unmoved DEF SnapParam
  <1> HIDE DEF k, s
  <1>4. ~PassesOver(s, ack[l].seqno)
    BY <1>2 DEF PassesOver
  <1>5. QED
    BY <1>1, <1>2, <1>3, <1>4, AckMoves

\* One slot for each update taken.
LEMMA SlotsAppended ==
  ASSUME NEW u \in Seq(Nat), NEW o \in Nat, Len(u) <= o, NEW x \in Nat
  PROVE  LET w == u \o [i \in 1 .. o - Len(u) |-> x]
         IN  /\ Len(w) = o
             /\ \A i \in 1 .. o : w[i] = IF i <= Len(u) THEN u[i] ELSE x
  <1> DEFINE v == [i \in 1 .. o - Len(u) |-> x]
  <1>1. /\ v \in Seq(Nat) /\ Len(v) = o - Len(u) /\ Len(u) \in Nat
        /\ \A i \in 1 .. Len(v) : v[i] = x
    OBVIOUS
  <1> HIDE DEF v
  <1>2. Len(u \o v) = Len(u) + Len(v)
    BY <1>1
  <1>3. ASSUME NEW i \in 1 .. o PROVE (u \o v)[i] = IF i <= Len(u) THEN u[i] ELSE x
    <2>1. i \in 1 .. Len(u) + Len(v)
      BY <1>1
    <2>2. (u \o v)[i] = IF i <= Len(u) THEN u[i] ELSE v[i - Len(u)]
      BY <1>1, <2>1
    <2>3. ~(i <= Len(u)) => i - Len(u) \in 1 .. Len(v)
      BY <1>1
    <2>4. QED
      BY <1>1, <2>2, <2>3
  <1>4. QED
    BY <1>1, <1>2, <1>3 DEF v

\* The step that takes the update live, in time.
LEMMA AckVersion ==
  ASSUME CtlInv, PatientInv, AckInv, NEW l \in Link, SnapVersion(l)
  PROVE  AckInv'
  <1> DEFINE k == [link[l] EXCEPT !.seqno = snap[l].observed]
             s == [snap[l] EXCEPT !.pc = "profile"]
             more == [i \in 1 .. snap[l].observed - link[l].seqno |-> link[l].next]
  <1>1. k.seqno = snap[l].observed /\ k.next = link[l].next
    BY Unmoved, LinkUpdate
  <1>2. s.pc = "profile" /\ s.stored = snap[l].stored
    BY LinkFacts DEF SnapStates
  <1>3. /\ snap[l].pc = "params"
        /\ snap' = [snap EXCEPT ![l] = s] /\ link' = [link EXCEPT ![l] = k]
        /\ applied' = [applied EXCEPT ![l] = applied[l] \o more]
        /\ UNCHANGED << ctl, serverVars, telemetry >>
    BY DEF SnapVersion, Version
  <1>4. /\ link[l].next \in Nat /\ link[l].seqno \in Nat /\ applied[l] \in Seq(Nat)
        /\ Len(applied[l]) = link[l].seqno /\ ack[l].seqno \in Nat /\ ack[l].at \in Nat
        /\ Unserved(l) => ack[l].seqno = snap[l].observed
        /\ Clock(l) /\ Answered(l)
    BY <1>3, AckFacts
  <1>5. snap[l].observed \in Nat /\ link[l].seqno <= snap[l].observed
    <2>1. /\ snap[l].observed \in -1 .. ctl[l].seqno /\ ctl[l].seqno \in Nat
          /\ snap[l].observed # -1 /\ link[l].seqno <= snap[l].observed
      BY <1>3, LinkFacts DEF Observed
    <2>2. QED
      BY <2>1
  <1>6. more = [i \in 1 .. snap[l].observed - Len(applied[l]) |-> link[l].next]
    BY <1>4
  <1> HIDE DEF k, s, more
  <1>7. /\ Len(applied[l] \o more) = snap[l].observed
        /\ \A i \in 1 .. snap[l].observed : (applied[l] \o more)[i] =
             IF i <= link[l].seqno THEN applied[l][i] ELSE link[l].next
    <2>1. /\ applied[l] \in Seq(Nat) /\ Len(applied[l]) <= snap[l].observed
          /\ snap[l].observed \in Nat /\ link[l].next \in Nat
      BY <1>4, <1>5
    <2>2. LET w == applied[l] \o [i \in 1 .. snap[l].observed - Len(applied[l]) |-> link[l].next]
          IN  /\ Len(w) = snap[l].observed
              /\ \A i \in 1 .. snap[l].observed :
                   w[i] = IF i <= Len(applied[l]) THEN applied[l][i] ELSE link[l].next
      BY <2>1, SlotsAppended
    <2>3. QED
      BY <1>4, <1>6, <2>2
  <1>8. /\ snap'[l] = s /\ link'[l] = k /\ applied'[l] = applied[l] \o more
        /\ ctl' = ctl /\ telemetry' = telemetry /\ ack' = ack
        /\ \A q \in Link : q # l => /\ link'[q] = link[q] /\ snap'[q] = snap[q]
                                   /\ applied'[q] = applied[q]
    BY <1>3, Unmoved DEF serverVars
  <1>9. Clock(l)'
    <2>1. \A i \in 1 .. snap[l].observed : (applied[l] \o more)[i] <= link[l].next
      <3>1. \A i \in 1 .. link[l].seqno : applied[l][i] <= link[l].next
        BY <1>4 DEF Clock
      <3>2. QED
        BY <1>4, <1>5, <1>7, <3>1
    <2>2. QED
      BY <1>1, <1>2, <1>3, <1>4, <1>7, <1>8, <2>1 DEF Clock
  <1>10. Answered(l)'
    <2>1. ack[l].seqno <= snap[l].observed
      BY <1>4, <1>5 DEF Unserved
    <2>2. ack[l].seqno \in 1 .. snap[l].observed =>
            (applied[l] \o more)[ack[l].seqno] <= ack[l].at + 2
      <3>1. Unserved(l) => link[l].next <= ack[l].at + 2
        BY <1>4 DEF Answered
      <3>2. ack[l].seqno \in 1 .. link[l].seqno =>
              ack[l].seqno <= link[l].seqno /\ applied[l][ack[l].seqno] <= ack[l].at + 2
        BY <1>4 DEF Answered
      <3>3. ack[l].seqno \in 1 .. snap[l].observed =>
              \/ ack[l].seqno \in 1 .. link[l].seqno
              \/ Unserved(l) /\ ~(ack[l].seqno <= link[l].seqno)
        BY <1>4, <1>5 DEF Unserved
      <3>4. QED
        BY <1>7, <3>1, <3>2, <3>3
    <2>3. ~Unserved(l)'
      BY <1>1, <1>4, <1>5, <1>8, <2>1 DEF Unserved
    <2>4. QED
      BY <1>1, <1>4, <1>8, <2>2, <2>3 DEF Answered
  <1>11. QED
    BY <1>3, <1>8, <1>9, <1>10, AckProducer DEF AckLink

\* Once there is a replacement to look at, the update is live.
LEMMA AckSwap ==
  ASSUME CtlInv, PatientInv, AckInv, NEW l \in Link, NEW k \in SwapKind,
         \/ SnapTest(l, k) \/ SnapDropped(l, k) \/ SnapConsume(l, k)
         \/ \E w \in Word : SnapCopy(l, k, w)
  PROVE  AckInv'
  <1>1. snap[l].pc = k /\ k # "begin" /\ UNCHANGED << serverVars, telemetry, applied >>
    BY DEF SnapTest, SnapDropped, SnapConsume, SnapCopy, SwapKind
  <1>2. snap[l].stored /\ ~Unserved(l)
    BY <1>1, AckFacts DEF Clock
  <1>3. PICK s : snap' = [snap EXCEPT ![l] = s] /\ s.stored = snap[l].stored
    <2>1. CASE SnapTest(l, k)
      <3> DEFINE s == IF ctl[l].pending[k] /\ Eligible(l, k)
                      THEN [snap[l] EXCEPT !.copy = TRUE, !.left = Word,
                                           !.preserve = HistoryCompatible(l)]
                      ELSE [snap[l] EXCEPT !.pc = After(k)]
      <3>1. snap' = [snap EXCEPT ![l] = s]
        BY <2>1 DEF SnapTest
      <3>2. s.stored = snap[l].stored
        BY LinkFacts DEF SnapStates
      <3>3. QED
        BY <3>1, <3>2
    <2>2. CASE SnapDropped(l, k)
      <3> DEFINE s == [snap[l] EXCEPT !.pc = After(k), !.copy = FALSE]
      <3>1. snap' = [snap EXCEPT ![l] = s] /\ s.stored = snap[l].stored
        BY <2>2, LinkFacts DEF SnapDropped, SnapStates
      <3>2. QED
        BY <3>1
    <2>3. CASE SnapConsume(l, k)
      <3> DEFINE s == [snap[l] EXCEPT !.pc = After(k), !.copy = FALSE,
                                      !.matrix = snap[l].matrix \/ k = "matrix",
                                      !.reset = CASE k = "profile" -> TRUE
                                                  [] k = "matrix" -> ~snap[l].preserve
                                                  [] OTHER -> snap[l].reset]
      <3>1. snap' = [snap EXCEPT ![l] = s] /\ s.stored = snap[l].stored
        BY <2>3, LinkFacts DEF SnapConsume, SnapStates
      <3>2. QED
        BY <3>1
    <2>4. CASE \E w \in Word : SnapCopy(l, k, w)
      <3>1. PICK w \in Word : SnapCopy(l, k, w)
        BY <2>4
      <3> DEFINE s == [snap[l] EXCEPT !.left = snap[l].left \ {w}]
      <3>2. snap' = [snap EXCEPT ![l] = s] /\ s.stored = snap[l].stored
        BY <3>1, LinkFacts DEF SnapCopy, SnapStates
      <3>3. QED
        BY <3>2
    <2>5. QED
      BY <2>1, <2>2, <2>3, <2>4
  <1>4. PICK c : /\ ctl' = [ctl EXCEPT ![l] = c] /\ c.seqno = ctl[l].seqno
                 /\ c.slot = ctl[l].slot /\ c.gate = ctl[l].gate
    <2>1. CASE SnapConsume(l, k)
      <3> DEFINE c == [ctl[l] EXCEPT !.pending = [ctl[l].pending EXCEPT ![k] = FALSE]]
      <3>1. /\ ctl' = [ctl EXCEPT ![l] = c] /\ c.seqno = ctl[l].seqno
            /\ c.slot = ctl[l].slot /\ c.gate = ctl[l].gate
        BY <2>1, LinkFacts DEF SnapConsume, CtlStates
      <3>2. QED
        BY <3>1
    <2>2. CASE ~SnapConsume(l, k)
      <3>1. ctl' = [ctl EXCEPT ![l] = ctl[l]]
        BY <2>2, Unmoved DEF SnapTest, SnapDropped, SnapCopy
      <3>2. QED
        BY <3>1
    <2>3. QED
      BY <2>1, <2>2
  <1>5. PICK r : /\ link' = [link EXCEPT ![l] = r]
                 /\ r.seqno = link[l].seqno /\ r.next = link[l].next
    <2>1. CASE SnapConsume(l, k)
      <3> DEFINE act == IF k = "correlation" THEN link[l].active ELSE k
                 r == [link[l] EXCEPT !.active = act]
      <3>1. link' = [link EXCEPT ![l] = r]
        BY <2>1 DEF SnapConsume
      <3>2. r.seqno = link[l].seqno /\ r.next = link[l].next
        BY Unmoved, LinkUpdate
      <3>3. QED
        BY <3>1, <3>2
    <2>2. CASE \E w \in Word : SnapCopy(l, k, w)
      <3>1. PICK w \in Word : SnapCopy(l, k, w)
        BY <2>2
      <3> DEFINE v == [link[l].swap EXCEPT ![k][w] = ctl[l].swap[k][w]]
                 r == [link[l] EXCEPT !.swap = v]
      <3>2. link' = [link EXCEPT ![l] = r]
        BY <3>1 DEF SnapCopy
      <3>3. r.seqno = link[l].seqno /\ r.next = link[l].next
        BY Unmoved, LinkUpdate
      <3>4. QED
        BY <3>2, <3>3
    <2>3. CASE SnapTest(l, k) \/ SnapDropped(l, k)
      <3>1. link' = [link EXCEPT ![l] = link[l]]
        BY <2>3, Unmoved DEF SnapTest, SnapDropped
      <3>2. QED
        BY <3>1
    <2>4. QED
      BY <2>1, <2>2, <2>3
  <1>6. QED
    BY <1>1, <1>2, <1>3, <1>4, <1>5, AckMoves

\* The end of a slot: one that did not take the update had a slot to spare.
LEMMA AckFinish ==
  ASSUME CtlInv, PatientInv, AckInv, NEW l \in Link, NEW n \in Count, SnapFinish(l, n)
  PROVE  AckInv'
  <1>1. PICK warm, since :
          /\ link' = [link EXCEPT ![l].warmup = warm, ![l].since = since, ![l].count = n,
                        ![l].next = IF link[l].next < MaxSlot THEN link[l].next + 1
                                    ELSE link[l].next]
          /\ telemetry' = [telemetry EXCEPT ![l] =
                             [slot |-> link[l].next, seqno |-> link[l].seqno, warmup |-> warm]]
    BY DEF SnapFinish
  <1> DEFINE m == IF link[l].next < MaxSlot THEN link[l].next + 1 ELSE link[l].next
             r == Finished(link[l], warm, since, n, m)
             t == [slot |-> link[l].next, seqno |-> link[l].seqno, warmup |-> warm]
  <1>2. link' = [link EXCEPT ![l] = r]
    <2>1. link' = [link EXCEPT ![l] =
                     [link[l] EXCEPT !.warmup = warm, !.since = since, !.count = n, !.next = m]]
      BY <1>1, Unmoved
    <2> HIDE DEF m
    <2>2. QED
      BY <2>1 DEF Finished
  <1>3. r.seqno = link[l].seqno /\ r.next = m /\ t.slot = link[l].next
    <2> HIDE DEF m
    <2>1. QED
      BY Unmoved, FinishUpdate
  <1>4. link[l].next \in Nat /\ m \in Nat /\ link[l].next <= m /\ m <= link[l].next + 1
    BY LinkFacts, ControlAssumption DEF LinkTypes
  <1>5. NoSnap.pc = "begin" /\ ~NoSnap.stored /\ NoSnap.observed = -1
    BY DEF NoSnap
  <1>6. /\ snap[l].pc = "finish" /\ snap' = [snap EXCEPT ![l] = NoSnap]
        /\ telemetry' = [telemetry EXCEPT ![l] = t] /\ telemetry = [q \in Link |-> telemetry[q]]
        /\ UNCHANGED << ctl, serverVars, applied >>
    BY <1>1 DEF SnapFinish, PatientInv
  <1> HIDE DEF r, t, m
  <1>7. /\ link'[l] = r /\ snap'[l] = NoSnap /\ telemetry'[l] = t /\ ctl' = ctl
        /\ ack' = ack /\ applied' = applied
        /\ \A q \in Link : q # l => /\ link'[q] = link[q] /\ snap'[q] = snap[q]
                                   /\ telemetry'[q] = telemetry[q]
    BY <1>2, <1>6, Unmoved DEF serverVars
  <1>8. /\ ctl[l].slot \in Nat /\ link[l].seqno \in Nat /\ ack[l].seqno \in Nat
        /\ ack[l].at \in Nat /\ applied[l] \in Seq(Nat) /\ Len(applied[l]) = link[l].seqno
        /\ Clock(l) /\ Answered(l) /\ ctl[l].slot = link[l].next
    BY <1>6, AckFacts DEF Clock
  <1>9. Clock(l)'
    <2>1. \A i \in 1 .. Len(applied[l]) : applied[l][i] <= m
      <3>1. \A i \in 1 .. Len(applied[l]) : applied[l][i] \in Nat /\ applied[l][i] <= link[l].next
        BY <1>8 DEF Clock
      <3>2. QED
        BY <1>4, <3>1
    <2>2. telemetry'[l].slot <= ctl'[l].slot /\ link'[l].next <= ctl'[l].slot + 1
      BY <1>3, <1>4, <1>7, <1>8
    <2>3. QED
      BY <1>3, <1>5, <1>7, <2>1, <2>2 DEF Clock
  <1>10. Answered(l)'
    <2>1. Unserved(l)' <=> Unserved(l)
      BY <1>3, <1>7 DEF Unserved
    <2>2. Unserved(l) => link[l].next <= ack[l].at + 1 /\ m <= ack[l].at + 2
      <3>1. Unserved(l) => link[l].next <= ack[l].at + 1
        BY <1>6, <1>8 DEF Answered, PassesOver
      <3>2. QED
        BY <1>4, <1>8, <3>1
    <2>3. ~PassesOver(NoSnap, ack[l].seqno)
      BY <1>5 DEF PassesOver
    <2>4. QED
      BY <1>3, <1>7, <1>8, <2>1, <2>2, <2>3 DEF Answered
  <1>11. QED
    BY <1>6, <1>7, <1>9, <1>10, AckProducer DEF AckLink

LEMMA AckSnap ==
  ASSUME CtlInv, PatientInv, AckInv, NEW l \in Link, Snap(l)
  PROVE  AckInv'
  <1>1. CASE SnapStore(l)
    BY <1>1, AckStore
  <1>2. CASE SnapLoad(l)
    BY <1>2, AckLoad
  <1>3. CASE SnapGate(l)
    BY <1>3, AckGate
  <1>4. CASE \E p \in Param : SnapParam(l, p)
    BY <1>4, AckParam
  <1>5. CASE SnapVersion(l)
    BY <1>5, AckVersion
  <1>6. CASE \E k \in SwapKind : SnapTest(l, k) \/ SnapDropped(l, k) \/ SnapConsume(l, k)
    BY <1>6, AckSwap
  <1>7. CASE \E k \in SwapKind, w \in Word : SnapCopy(l, k, w)
    BY <1>7, AckSwap
  <1>8. CASE \E n \in Count : SnapFinish(l, n)
    BY <1>8, AckFinish
  <1>9. QED
    BY <1>1, <1>2, <1>3, <1>4, <1>5, <1>6, <1>7, <1>8 DEF Snap

\* A step of the control thread that neither stores nor answers.
LEMMA AckRests ==
  ASSUME AckInv, UNCHANGED << ctl, ack, linkVars >>
  PROVE  AckInv'
  <1>1. UNCHANGED << link, snap, telemetry, applied >>
    BY DEF linkVars
  <1>2. ASSUME NEW l \in Link PROVE AckLink(l)'
    BY <1>1 DEF AckInv, AckLink, Clock, Answered, Unserved
  <1>3. QED
    BY <1>2 DEF AckInv

\* The control thread reads the gate it has stored and a slot that is at most
\* one behind.
LEMMA AckReply ==
  ASSUME CtlInv, PatientInv, AckInv, Reply
  PROVE  AckInv'
  <1>1. UNCHANGED << ctl, link, snap, telemetry, applied, log >>
    BY DEF Reply, linkVars
  <1>2. PICK l : l = Head(server.todo).link
    OBVIOUS
  <1>3. CASE ack' = ack
    BY <1>1, <1>3, AckRests DEF linkVars
  <1>4. CASE ack' = [ack EXCEPT ![l] = [seqno |-> ctl[l].seqno, at |-> ReplySlot(ctl[l])]]
    <2>1. /\ ack = [q \in Link |-> ack[q]]
          /\ ack' = [q \in Link |-> ack'[q]]
          /\ \A q \in Link : q # l => ack'[q] = ack[q]
          /\ l \in Link => ack'[l] = [seqno |-> ctl[l].seqno, at |-> ReplySlot(ctl[l])]
      BY <1>4 DEF AckInv
    <2>2. ASSUME NEW q \in Link, q # l PROVE AckLink(q)'
      <3>1. AckLink(q) /\ ack'[q] = ack[q]
        BY <2>1, <2>2 DEF AckInv
      <3>2. QED
        BY <1>1, <3>1 DEF AckLink, Clock, Answered, Unserved
    <2>3. ASSUME l \in Link PROVE AckLink(l)'
      <3>1. /\ ctl[l].slot \in Nat /\ ctl[l].gate \in Nat /\ ctl[l].seqno \in Nat
            /\ link[l].next \in Nat /\ link[l].seqno \in Nat /\ telemetry[l].slot \in Nat
            /\ applied[l] \in Seq(Nat) /\ Len(applied[l]) = link[l].seqno /\ Clock(l)
        BY <2>3, AckFacts
      <3> DEFINE at == ReplySlot(ctl[l])
      <3>2. /\ at \in Nat /\ ctl[l].gate <= at /\ ctl[l].slot <= at
        BY <3>1 DEF ReplySlot, Larger
      <3> HIDE DEF at
      <3>3. ack'[l].seqno = ctl[l].seqno /\ ack'[l].at = at
        BY <2>1, <2>3 DEF at
      <3>4. link[l].next <= at + 1 /\ link[l].next <= at + 2 /\ telemetry[l].slot <= at + 1
        BY <3>1, <3>2 DEF Clock
      <3>5. \A i \in 1 .. link[l].seqno : applied[l][i] <= at + 2
        <4>1. \A i \in 1 .. link[l].seqno : applied[l][i] \in Nat /\ applied[l][i] <= link[l].next
          BY <3>1 DEF Clock
        <4>2. QED
          BY <3>1, <3>2, <3>4, <4>1
      <3>6. Clock(l)'
        BY <1>1, <3>1 DEF Clock
      <3>7. Answered(l)'
        BY <1>1, <3>1, <3>2, <3>3, <3>4, <3>5 DEF Answered
      <3>8. QED
        BY <3>6, <3>7 DEF AckLink
    <2>4. QED
      BY <2>1, <2>2, <2>3 DEF AckInv
  <1>5. QED
    BY <1>2, <1>3, <1>4 DEF Reply

LEMMA StoreSlot ==
  ASSUME NEW c \in CtlStates, NEW op, NEW step \in StoreName, NEW n
  PROVE  Store(c, op, step, n).slot = c.slot
  <1>1. CASE step \in {"gate", "param", "layout", "gain"}
    BY <1>1 DEF Store, CtlStates
  <1>2. CASE step \in {"pending", "supersede", "bump"}
    BY <1>2 DEF Store, CtlStates
  <1>3. QED
    BY <1>1, <1>2 DEF StoreName

\* While an update is written, all that was answered before it is live.
LEMMA AckWrite ==
  ASSUME CtlInv, PatientInv, AckInv, Write
  PROVE  AckInv'
  <1>1. PICK l : l = HandOp.link
    OBVIOUS
  <1>2. UNCHANGED << ack, link, snap, telemetry, applied >>
    BY DEF Write, linkVars
  <1>3. l \in Link /\ HandOp \in Op /\ HandStep \in StoreName
    BY <1>1, WriteStands
  <1> DEFINE m == Len(Opening)
             d == Store(ctl[l], HandOp, HandStep, m)
  <1>4. /\ ctl' = [ctl EXCEPT ![l] = d] /\ ctl \in [Link -> CtlStates]
        /\ m \in 0 .. MaxUpdate
    BY <1>1, WriteLog DEF CtlInv, Shapes
  <1>5. link[l].seqno = m - 1 /\ ctl[l].seqno = m - 1 /\ m \in Nat
    BY <1>1, WriteQuiet
  <1>6. /\ d.seqno = ctl[l].seqno \/ d.seqno = ctl[l].seqno + 1
        /\ d.slot = ctl[l].slot
    <2>1. /\ HandStep = "param" => HandOp.what \in Param
          /\ HandOp.what \in Param => HandStep \in {"gate", "param", "bump"}
          /\ ctl[l] \in CtlStates
      BY <1>1, <1>3, <1>4, WriteStands
    <2> HIDE DEF m
    <2>2. /\ d \in CtlStates
          /\ d.seqno = IF HandStep = "bump" THEN ctl[l].seqno + 1 ELSE ctl[l].seqno
          /\ d.shadow = IF HandStep = "param" THEN [ctl[l].shadow EXCEPT ![HandOp.what] = m]
                        ELSE ctl[l].shadow
      BY <1>3, <1>4, <2>1, StoreTypes
    <2>3. d.slot = ctl[l].slot
      BY <1>3, <2>1, StoreSlot
    <2>4. QED
      BY <2>2, <2>3
  <1> HIDE DEF d, m
  <1>7. ASSUME NEW q \in Link, q # l PROVE AckLink(q)'
    <2>1. AckLink(q) /\ ctl'[q] = ctl[q]
      BY <1>4, <1>7 DEF AckInv
    <2>2. QED
      BY <1>2, <2>1 DEF AckLink, Clock, Answered, Unserved
  <1>8. AckLink(l)'
    <2>1. /\ ack[l].seqno \in Nat /\ Clock(l) /\ Answered(l) /\ ctl'[l] = d
          /\ ctl[l].seqno \in Nat
      BY <1>3, <1>4, AckFacts
    <2>2. ack[l].seqno <= ctl[l].seqno /\ ack[l].seqno <= d.seqno
      BY <1>6, <2>1 DEF Answered
    <2>3. ~Unserved(l)'
      BY <1>2, <1>5, <2>1, <2>2 DEF Unserved
    <2>4. Clock(l)'
      BY <1>2, <1>6, <2>1 DEF Clock
    <2>5. Answered(l)'
      BY <1>2, <2>1, <2>2, <2>3 DEF Answered
    <2>6. QED
      BY <2>4, <2>5 DEF AckLink
  <1>9. QED
    BY <1>2, <1>7, <1>8 DEF AckInv

LEMMA AckServer ==
  ASSUME CtlInv, PatientInv, AckInv, Server
  PROVE  AckInv'
  <1>1. CASE Write
    BY <1>1, AckWrite
  <1>2. CASE Reply
    BY <1>2, AckReply
  <1>3. CASE ~Write /\ ~Reply
    <2>1. UNCHANGED << ctl, ack, linkVars >>
      BY <1>3 DEF Server, ScalarUpdate, ProfileSwap, MatrixProfileSwap, CorrelationSwap,
                  Begin, BatchBegin, Stage, BatchCommit, BatchAbort
    <2>2. QED
      BY <2>1, AckRests
  <1>4. QED
    BY <1>1, <1>2, <1>3

\* The applied_at_slot of a reply (make_success_reply_v2) is right up to two slots
\* for a patient client: one because the snap under way may have read the seqno
\* before the bump, one because the control thread may read an old current_slot.
THEOREM PatientIsAnswered ==
  ASSUME Patient
  PROVE  Spec /\ []OneEach => []AckHonoured
  <1>1. AckInv /\ (CtlInv /\ PatientInv) /\ [Next]_vars => AckInv'
    <2> SUFFICES ASSUME AckInv, CtlInv, PatientInv, [Next]_vars PROVE AckInv'
      OBVIOUS
    <2>1. CASE Server
      BY <2>1, AckServer
    <2>2. CASE \E l \in Link : Snap(l)
      BY <2>2, AckSnap
    <2>3. CASE UNCHANGED vars
      BY <2>3, AckRests DEF vars, serverVars
    <2>4. QED
      BY <2>1, <2>2, <2>3 DEF Next
  <1>2. QED
    BY <1>1, PatientInvariant, AckStart, AckGivesIt, PTL DEF Spec
-----------------------------------------------------------------------------
(***************************************************************************)
(* The warm-up window.  Slots must have one length, for the window is      *)
(* counted in slots as long as the first, and the model's cap on the       *)
(* samples served must not hide a history that is longer.                  *)
(***************************************************************************)
Steady == (\A m, n \in Count : m = n) /\ (\A x \in Layout : History(x) <= MaxSlot)

Need(l) == History(link[l].swap["matrix"].layout)

\* A reset is decided by the replacement that the slot is going to be served from.
Resets(l) ==
  /\ snap[l].matrix => snap[l].pc \in {"correlation", "finish"} /\ link[l].active = "matrix"
  /\ snap[l].reset =>
       /\ snap[l].pc \in {"matrix", "correlation", "finish"}
       /\ link[l].active = "matrix" => snap[l].pc # "matrix" /\ snap[l].matrix

\* A profile that keeps the delay lines is copied over one of the same layout.
Keeps(l) ==
  Copying(l, "matrix") /\ snap[l].preserve =>
    /\ link[l].active = "matrix" /\ ~snap[l].reset
    /\ ctl[l].swap["matrix"].layout = link[l].swap["matrix"].layout

\* The matrix profile in force stays, and keeps its delay lines.
Settled(l) ==
  /\ link[l].active = "matrix" /\ ~snap[l].reset
  /\ Copying(l, "matrix") => snap[l].preserve

\* What is left of the window is enough for what is left of the history.
Covers(l) ==
  link[l].since < Need(l) =>
    /\ link[l].count \in Count
    /\ (link[l].warmup - telemetry[l].slot) * link[l].count + link[l].since >= Need(l)

WarmLink(l) ==
  /\ telemetry[l].warmup = link[l].warmup /\ link[l].warmup \in Nat
  /\ link[l].since \in Nat /\ link[l].count \in Count \cup {0}
  /\ link[l].next <= telemetry[l].slot + 1
  /\ Resets(l) /\ Keeps(l)
  /\ link[l].active = "matrix" => link[l].swap["matrix"].layout \in Layout
  /\ Settled(l) => Covers(l)
WarmInv == \A l \in Link : WarmLink(l)

\* A window is at least as long as what it is for.
LEMMA WindowCovers ==
  ASSUME NEW dl \in Nat, NEW n \in Nat \ {0}
  PROVE  WarmupSlots(dl, n) \in Nat \ {0} /\ WarmupSlots(dl, n) * n >= dl
  <1> DEFINE q == (dl + n - 1) \div n
             r == (dl + n - 1) % n
             m == dl + n - 1
  <1>1. m \in Nat /\ m = dl + n - 1
    OBVIOUS
  <1>2. q = m \div n /\ r = m % n
    OBVIOUS
  <1> HIDE DEF m
  <1>3. m \div n \in Nat /\ m % n \in 0 .. n - 1 /\ m = n * (m \div n) + (m % n)
    BY ONLY <1>1, n \in Nat \ {0}
  <1> HIDE DEF q, r
  <1>4. q \in Nat /\ r \in 0 .. n - 1 /\ m = n * q + r
    BY <1>2, <1>3
  <1>5. q * n = n * q /\ q * n \in Nat /\ n * q \in Nat
    BY <1>4
  <1>6. q * n >= dl
    <2> DEFINE p == q * n
    <2>1. p \in Nat /\ m = p + r
      BY <1>4, <1>5
    <2> HIDE DEF p
    <2>2. p >= dl
      BY <1>1, <1>4, <2>1
    <2>3. QED
      BY <2>2 DEF p
  <1>7. WarmupSlots(dl, n) = IF 1 >= q THEN 1 ELSE q
    BY DEF WarmupSlots, Larger, q
  <1>8. CASE 1 >= q
    <2>1. q * n <= n
      <3>1. q = 0 \/ q = 1
        BY <1>4, <1>8
      <3>2. QED
        BY <3>1
    <2>2. 1 * n = n
      OBVIOUS
    <2>3. n >= dl
      BY <1>5, <1>6, <2>1
    <2>4. QED
      BY <1>7, <1>8, <2>2, <2>3
  <1>9. CASE ~(1 >= q)
    <2>1. WarmupSlots(dl, n) = q /\ q # 0
      BY <1>4, <1>7, <1>9
    <2>2. QED
      BY <1>4, <1>6, <2>1
  <1>10. QED
    BY <1>8, <1>9

\* One slot later.
LEMMA WindowPasses ==
  ASSUME NEW w \in Nat, NEW s \in Nat, NEW n \in Nat \ {0}, NEW f \in Nat, NEW h \in Nat,
         (w - s) * n + f >= h
  PROVE  /\ (w - (s + 1)) * n + (f + n) >= h
         /\ (w - s) * n + (f + n) >= h
         /\ f < h => w > s
  <1> DEFINE a == (w - s) * n
             b == (w - (s + 1)) * n
  <1>1. a \in Int /\ b \in Int
    OBVIOUS
  <1>2. b = a - n
    <2> DEFINE d == w - s
    <2>1. d \in Int /\ w - (s + 1) = d - 1 /\ w - s = d
      OBVIOUS
    <2> HIDE DEF d
    <2>2. (d - 1) * n = d * n - n
      BY <2>1
    <2>3. QED
      BY <2>1, <2>2
  <1>3. ~(w > s) => a <= 0
    <2> DEFINE d == w - s
    <2>1. d \in Int /\ w - s = d /\ (~(w > s) => d <= 0)
      OBVIOUS
    <2> HIDE DEF d
    <2>2. d <= 0 => d * n <= 0
      BY <2>1
    <2>3. QED
      BY <2>1, <2>2
  <1>4. a + f >= h
    OBVIOUS
  <1> HIDE DEF a, b
  <1>5. b + (f + n) >= h /\ a + (f + n) >= h
    BY <1>1, <1>2, <1>4
  <1>6. f < h => w > s
    BY <1>1, <1>3, <1>4
  <1>7. QED
    BY <1>5, <1>6 DEF a, b

\* A matrix profile that is being copied has a layout.
LEMMA CopiedLayout ==
  ASSUME CtlInv, PatientInv, NEW l \in Link, Copying(l, "matrix")
  PROVE  ctl[l].swap["matrix"].layout \in Layout
  <1>1. PatientLink(l) /\ snap[l].pc = "matrix" /\ "matrix" \in SwapKind
    BY DEF PatientInv, Copying, SwapKind
  <1>2. /\ ~InHand(l) /\ log[l] # << >> /\ Last(l) \in Op
    BY <1>1, PatientFacts
  <1>3. Owed(l, "matrix")
    BY <1>1 DEF PatientLink, Held, Owes
  <1>4. Last(l).what = "matrix"
    BY <1>3 DEF Owed
  <1>5. ctl[l].swap["matrix"].layout = Last(l).layout
    BY <1>1, <1>2, <1>4 DEF PatientLink, Owes, Stored
  <1>6. "matrix" \notin Param
    BY <1>1, ControlAssumption
  <1>7. Last(l).layout \in Layout
    BY <1>2, <1>4, <1>6 DEF Op
  <1>8. QED
    BY <1>5, <1>7

LEMMA WarmFacts ==
  ASSUME CtlInv, PatientInv, WarmInv, NEW l \in Link
  PROVE  /\ WarmLink(l) /\ snap[l] \in SnapStates
         /\ snap[l].copy => snap[l].pc \in SwapKind
         /\ telemetry[l].slot \in Nat /\ link[l].next \in 0 .. MaxSlot
         /\ telemetry[l].slot <= link[l].next
         /\ \A k \in SwapKind : Copying(l, k) =>
              /\ ctl[l].pending[k]
              /\ \A w \in Word \ snap[l].left : link[l].swap[k][w] = ctl[l].swap[k][w]
  <1>1. WarmLink(l) /\ PatientLink(l) /\ snap[l] \in SnapStates /\ LinkTypes(l)
    BY LinkFacts DEF WarmInv, PatientInv
  <1>2. Turn(l) /\ Held(l) /\ Due(l)
    BY <1>1 DEF PatientLink
  <1>3. QED
    BY <1>1, <1>2 DEF Turn, Held, Due, LinkTypes

LEMMA WarmStart == Init => WarmInv
  <1> SUFFICES ASSUME Init, NEW l \in Link PROVE WarmLink(l)
    BY DEF WarmInv
  <1>1. /\ link[l].active = "none" /\ link[l].next = 0 /\ link[l].warmup = 0
        /\ link[l].since = MaxSlot /\ link[l].count = 0
    BY DEF Init
  <1>2. telemetry[l].slot = 0 /\ telemetry[l].warmup = 0
    BY DEF Init
  <1>3. ~snap[l].copy /\ ~snap[l].reset /\ ~snap[l].matrix
    BY DEF Init, NoSnap
  <1>4. MaxSlot \in Nat
    BY ControlAssumption
  <1>5. QED
    BY <1>1, <1>2, <1>3, <1>4 DEF WarmLink, Resets, Keeps, Settled, Copying

\* A step that leaves the other links alone.
LEMMA WarmProducer ==
  ASSUME WarmInv, NEW l \in Link, WarmLink(l)',
         \A q \in Link : q # l =>
           /\ ctl'[q] = ctl[q] /\ link'[q] = link[q] /\ snap'[q] = snap[q]
           /\ telemetry'[q] = telemetry[q]
  PROVE  WarmInv'
  <1>1. ASSUME NEW q \in Link, q # l PROVE WarmLink(q)'
    <2>1. WarmLink(q) /\ ctl'[q] = ctl[q] /\ link'[q] = link[q] /\ snap'[q] = snap[q]
          /\ telemetry'[q] = telemetry[q]
      BY <1>1 DEF WarmInv
    <2>2. (Resets(q) /\ Keeps(q))' /\ (Settled(q)' <=> Settled(q)) /\ Covers(q)' = Covers(q)
      BY <2>1 DEF WarmLink, Resets, Keeps, Settled, Covers, Need, Copying
    <2>3. QED
      BY <2>1, <2>2 DEF WarmLink
  <1>2. QED
    BY <1>1 DEF WarmInv

\* What a snap does before it ends leaves the window alone.
LEMMA WarmSame ==
  ASSUME CtlInv, PatientInv, WarmInv, NEW l \in Link, UNCHANGED telemetry,
         NEW c, ctl' = [ctl EXCEPT ![l] = c], NEW s, snap' = [snap EXCEPT ![l] = s],
         NEW k, link' = [link EXCEPT ![l] = k],
         k.warmup = link[l].warmup, k.since = link[l].since, k.count = link[l].count,
         k.next = link[l].next,
         Resets(l)', Keeps(l)',
         k.active = "matrix" => k.swap["matrix"].layout \in Layout,
         Settled(l)' => Settled(l) /\ k.swap["matrix"].layout = link[l].swap["matrix"].layout
  PROVE  WarmInv'
  <1>1. /\ ctl'[l] = c /\ snap'[l] = s /\ link'[l] = k
        /\ \A q \in Link : q # l =>
             /\ ctl'[q] = ctl[q] /\ link'[q] = link[q] /\ snap'[q] = snap[q]
    BY Unmoved
  <1>2. WarmLink(l)
    BY DEF WarmInv
  <1>3. Settled(l)' => Covers(l)'
    <2>1. SUFFICES ASSUME Settled(l)' PROVE Covers(l)'
      OBVIOUS
    <2>2. Covers(l) /\ Need(l)' = Need(l)
      BY <1>1, <1>2, <2>1 DEF WarmLink, Need
    <2>3. QED
      BY <1>1, <2>2 DEF Covers
  <1>4. WarmLink(l)'
    BY <1>1, <1>2, <1>3 DEF WarmLink
  <1>5. QED
    BY <1>1, <1>4, WarmProducer

\* Up to the replacements.
LEMMA WarmEarly ==
  ASSUME CtlInv, PatientInv, WarmInv, NEW l \in Link, UNCHANGED telemetry,
         snap[l].pc \in {"begin", "params"},
         NEW c, ctl' = [ctl EXCEPT ![l] = c], NEW s, snap' = [snap EXCEPT ![l] = s],
         s.copy = snap[l].copy, s.reset = snap[l].reset, s.matrix = snap[l].matrix,
         NEW k, link' = [link EXCEPT ![l] = k],
         k.warmup = link[l].warmup, k.since = link[l].since, k.count = link[l].count,
         k.next = link[l].next, k.active = link[l].active, k.swap = link[l].swap
  PROVE  WarmInv'
  <1>1. ~snap[l].copy /\ ~snap[l].reset /\ ~snap[l].matrix /\ WarmLink(l)
    BY WarmFacts DEF WarmLink, Resets, SwapKind
  <1>2. snap'[l] = s /\ link'[l] = k
    BY Unmoved
  <1>3. Resets(l)' /\ Keeps(l)'
    BY <1>1, <1>2 DEF Resets, Keeps, Copying
  <1>4. k.active = "matrix" => k.swap["matrix"].layout \in Layout
    BY <1>1 DEF WarmLink
  <1>5. Settled(l)' => Settled(l)
    BY <1>1, <1>2 DEF Settled, Copying
  <1>6. QED
    BY <1>3, <1>4, <1>5, WarmSame

LEMMA WarmBegins ==
  ASSUME CtlInv, PatientInv, WarmInv, NEW l \in Link,
         SnapStore(l) \/ SnapLoad(l) \/ SnapGate(l) \/ SnapVersion(l)
         \/ \E p \in Param : SnapParam(l, p)
  PROVE  WarmInv'
  <1>1. snap[l].pc \in {"begin", "params"} /\ telemetry' = telemetry
    BY DEF SnapStore, SnapLoad, SnapGate, SnapVersion, SnapParam
  <1>2. PICK s : snap' = [snap EXCEPT ![l] = s] /\ s.copy = snap[l].copy /\ s.reset = snap[l].reset /\ s.matrix = snap[l].matrix
    <2>1. CASE SnapStore(l)
      <3> DEFINE s == [snap[l] EXCEPT !.stored = TRUE]
      <3>1. snap' = [snap EXCEPT ![l] = s] /\ s.copy = snap[l].copy /\ s.reset = snap[l].reset /\ s.matrix = snap[l].matrix
        BY <2>1, LinkFacts DEF SnapStore, SnapStates
      <3>2. QED
        BY <3>1
    <2>2. CASE SnapLoad(l)
      <3> DEFINE s == [snap[l] EXCEPT !.observed = ctl[l].seqno]
      <3>1. snap' = [snap EXCEPT ![l] = s] /\ s.copy = snap[l].copy /\ s.reset = snap[l].reset /\ s.matrix = snap[l].matrix
        BY <2>2, LinkFacts DEF SnapLoad, SnapStates
      <3>2. QED
        BY <3>1
    <2>3. CASE SnapGate(l)
      <3> DEFINE s == IF snap[l].observed # link[l].seqno /\ GateOpen(l)
                      THEN [snap[l] EXCEPT !.pc = "params", !.left = Param]
                      ELSE [snap[l] EXCEPT !.pc = "finish"]
      <3>1. snap' = [snap EXCEPT ![l] = s]
        BY <2>3 DEF SnapGate
      <3>2. s.copy = snap[l].copy /\ s.reset = snap[l].reset /\ s.matrix = snap[l].matrix
        BY LinkFacts DEF SnapStates
      <3>3. QED
        BY <3>1, <3>2
    <2>4. CASE SnapVersion(l)
      <3> DEFINE s == [snap[l] EXCEPT !.pc = "profile"]
      <3>1. snap' = [snap EXCEPT ![l] = s] /\ s.copy = snap[l].copy /\ s.reset = snap[l].reset /\ s.matrix = snap[l].matrix
        BY <2>4, LinkFacts DEF SnapVersion, SnapStates
      <3>2. QED
        BY <3>1
    <2>5. CASE \E p \in Param : SnapParam(l, p)
      <3>1. PICK p \in Param : SnapParam(l, p)
        BY <2>5
      <3> DEFINE s == [snap[l] EXCEPT !.left = snap[l].left \ {p}]
      <3>2. snap' = [snap EXCEPT ![l] = s] /\ s.copy = snap[l].copy /\ s.reset = snap[l].reset /\ s.matrix = snap[l].matrix
        BY <3>1, LinkFacts DEF SnapParam, SnapStates
      <3>3. QED
        BY <3>2
    <2>6. QED
      BY <2>1, <2>2, <2>3, <2>4, <2>5
  <1>3. PICK c : ctl' = [ctl EXCEPT ![l] = c]
    <2>1. CASE SnapStore(l)
      BY <2>1 DEF SnapStore
    <2>2. CASE ~SnapStore(l)
      <3>1. ctl' = [ctl EXCEPT ![l] = ctl[l]]
        BY <2>2, Unmoved DEF SnapLoad, SnapGate, SnapVersion, SnapParam
      <3>2. QED
        BY <3>1
    <2>3. QED
      BY <2>1, <2>2
  <1>4. PICK k :
          /\ link' = [link EXCEPT ![l] = k]
          /\ k.warmup = link[l].warmup /\ k.since = link[l].since /\ k.count = link[l].count
          /\ k.next = link[l].next /\ k.active = link[l].active /\ k.swap = link[l].swap
    <2>1. CASE SnapVersion(l)
      <3> DEFINE v == snap[l].observed
                 k == [link[l] EXCEPT !.seqno = v]
      <3>1. link' = [link EXCEPT ![l] = k]
        BY <2>1 DEF SnapVersion, Version
      <3> HIDE DEF v
      <3>2. /\ k.warmup = link[l].warmup /\ k.since = link[l].since /\ k.count = link[l].count
            /\ k.next = link[l].next /\ k.active = link[l].active /\ k.swap = link[l].swap
        BY Unmoved, LinkUpdate
      <3>3. QED
        BY <3>1, <3>2
    <2>2. CASE \E p \in Param : SnapParam(l, p)
      <3>1. PICK p \in Param : SnapParam(l, p)
        BY <2>2
      <3> DEFINE w == [link[l].live EXCEPT ![p] = ctl[l].shadow[p]]
                 k == [link[l] EXCEPT !.live = w]
      <3>2. link' = [link EXCEPT ![l] = k]
        BY <3>1 DEF SnapParam
      <3> HIDE DEF w
      <3>3. /\ k.warmup = link[l].warmup /\ k.since = link[l].since /\ k.count = link[l].count
            /\ k.next = link[l].next /\ k.active = link[l].active /\ k.swap = link[l].swap
        BY Unmoved, LinkUpdate
      <3>4. QED
        BY <3>2, <3>3
    <2>3. CASE SnapStore(l) \/ SnapLoad(l) \/ SnapGate(l)
      <3>1. link' = [link EXCEPT ![l] = link[l]]
        BY <2>3, Unmoved DEF SnapStore, SnapLoad, SnapGate
      <3>2. QED
        BY <3>1
    <2>4. QED
      BY <2>1, <2>2, <2>3
  <1>5. QED
    BY <1>1, <1>2, <1>3, <1>4, WarmEarly

\* Whether the delay lines are kept is decided before the copy.
LEMMA WarmTest ==
  ASSUME CtlInv, PatientInv, WarmInv, NEW l \in Link, NEW j \in SwapKind, SnapTest(l, j)
  PROVE  WarmInv'
  <1> DEFINE s == IF ctl[l].pending[j] /\ Eligible(l, j)
                  THEN [snap[l] EXCEPT !.copy = TRUE, !.left = Word,
                                       !.preserve = HistoryCompatible(l)]
                  ELSE [snap[l] EXCEPT !.pc = After(j)]
  <1>1. /\ snap[l].pc = j /\ ~snap[l].copy /\ snap' = [snap EXCEPT ![l] = s]
        /\ link' = [link EXCEPT ![l] = link[l]] /\ ctl' = [ctl EXCEPT ![l] = ctl[l]]
        /\ link' = link /\ ctl' = ctl /\ telemetry' = telemetry
    BY Unmoved DEF SnapTest
  <1>2. /\ s.reset = snap[l].reset /\ s.matrix = snap[l].matrix
        /\ \/ s.copy /\ s.pc = j /\ s.preserve = HistoryCompatible(l)
           \/ ~s.copy /\ s.pc = After(j)
    BY <1>1, LinkFacts DEF SnapStates
  <1> HIDE DEF s
  <1>3. snap'[l] = s /\ WarmLink(l)
    BY <1>1, Unmoved DEF WarmInv
  <1>4. Resets(l)'
    <2>1. CASE j = "profile"
      BY <1>1, <1>2, <1>3, <2>1 DEF WarmLink, Resets
    <2>2. CASE j = "matrix"
      BY <1>1, <1>2, <1>3, <2>2 DEF WarmLink, Resets, After
    <2>3. CASE j = "correlation"
      BY <1>1, <1>2, <1>3, <2>3 DEF WarmLink, Resets, After
    <2>4. QED
      BY <2>1, <2>2, <2>3 DEF SwapKind
  <1>5. Keeps(l)'
    BY <1>1, <1>2, <1>3 DEF WarmLink, Resets, Keeps, Copying, HistoryCompatible
  <1>6. Settled(l)' => Settled(l)
    BY <1>1, <1>2, <1>3 DEF Settled, Copying
  <1>7. link[l].active = "matrix" => link[l].swap["matrix"].layout \in Layout
    BY <1>3 DEF WarmLink
  <1>8. QED
    BY <1>1, <1>4, <1>5, <1>6, <1>7, WarmSame

LEMMA WarmCopy ==
  ASSUME CtlInv, PatientInv, WarmInv, NEW l \in Link, NEW j \in SwapKind, NEW w \in Word,
         SnapCopy(l, j, w)
  PROVE  WarmInv'
  <1> DEFINE v == [link[l].swap EXCEPT ![j][w] = ctl[l].swap[j][w]]
             k == [link[l] EXCEPT !.swap = v]
             s == [snap[l] EXCEPT !.left = snap[l].left \ {w}]
             new == v["matrix"].layout
             old == link[l].swap["matrix"].layout
  <1>1. /\ link' = [link EXCEPT ![l] = k] /\ snap' = [snap EXCEPT ![l] = s]
        /\ ctl' = [ctl EXCEPT ![l] = ctl[l]] /\ ctl' = ctl /\ telemetry' = telemetry
        /\ Copying(l, j) /\ snap[l].pc = j
    BY Unmoved DEF SnapCopy, Copying
  <1>2. /\ s.pc = snap[l].pc /\ s.copy = snap[l].copy /\ s.reset = snap[l].reset /\ s.matrix = snap[l].matrix
        /\ s.matrix = snap[l].matrix /\ s.preserve = snap[l].preserve
    BY LinkFacts DEF SnapStates
  <1>3. new = old \/ (j = "matrix" /\ new = ctl[l].swap["matrix"].layout)
    <2>1. link[l].swap \in [SwapKind -> [layout : Layout \cup {0}, gain : 0 .. MaxUpdate]]
      BY LinkFacts DEF LinkTypes, SwapValues
    <2>2. v = [link[l].swap EXCEPT ![j] = [link[l].swap[j] EXCEPT ![w] = ctl[l].swap[j][w]]]
      OBVIOUS
    <2> HIDE DEF v
    <2>3. CASE j # "matrix"
      <3>1. v["matrix"] = link[l].swap["matrix"]
        BY <2>1, <2>2, <2>3 DEF SwapKind
      <3>2. QED
        BY <3>1
    <2>4. CASE j = "matrix"
      <3> DEFINE x == link[l].swap["matrix"]
                 y == ctl[l].swap["matrix"][w]
      <3>1. x \in [layout : Layout \cup {0}, gain : 0 .. MaxUpdate]
        BY <2>1, <2>4
      <3>2. v["matrix"] = [x EXCEPT ![w] = y]
        BY <2>1, <2>2, <2>4
      <3> HIDE DEF x, y
      <3>3. [x EXCEPT ![w] = y].layout = IF w = "layout" THEN y ELSE x.layout
        BY <3>1 DEF Word
      <3>4. new = IF w = "layout" THEN y ELSE x.layout
        BY <3>2, <3>3
      <3>5. CASE w = "layout"
        <4>1. y = ctl[l].swap["matrix"].layout
          BY <3>5 DEF y
        <4>2. QED
          BY <2>4, <3>4, <3>5, <4>1
      <3>6. CASE w # "layout"
        BY <3>4, <3>6 DEF x
      <3>7. QED
        BY <3>5, <3>6
    <2>5. QED
      BY <2>3, <2>4
  <1> HIDE DEF v
  <1>4. /\ k.warmup = link[l].warmup /\ k.since = link[l].since /\ k.count = link[l].count
        /\ k.next = link[l].next /\ k.active = link[l].active /\ k.swap = v
    BY Unmoved, LinkUpdate
  <1> HIDE DEF k, s, new, old
  <1>5. snap'[l] = s /\ link'[l] = k /\ WarmLink(l)
    BY <1>1, Unmoved DEF WarmInv
  <1>6. Resets(l)'
    BY <1>2, <1>4, <1>5 DEF WarmLink, Resets
  <1>7. Keeps(l)'
    BY <1>1, <1>2, <1>3, <1>4, <1>5 DEF WarmLink, Keeps, Copying, new, old
  <1>8. k.active = "matrix" => k.swap["matrix"].layout \in Layout
    <2>1. j = "matrix" => ctl[l].swap["matrix"].layout \in Layout
      BY <1>1, CopiedLayout
    <2>2. QED
      BY <1>3, <1>4, <1>5, <2>1 DEF WarmLink, new, old
  <1>9. Settled(l)' => Settled(l) /\ k.swap["matrix"].layout = link[l].swap["matrix"].layout
    BY <1>1, <1>2, <1>3, <1>4, <1>5 DEF WarmLink, Settled, Keeps, Copying, new, old
  <1>10. QED
    BY <1>1, <1>4, <1>6, <1>7, <1>8, <1>9, WarmSame

\* The replacement decides: a new profile resets, a matrix profile only if it does
\* not fit the history of the one before.
LEMMA WarmConsume ==
  ASSUME CtlInv, PatientInv, WarmInv, NEW l \in Link, NEW j \in SwapKind, SnapConsume(l, j)
  PROVE  WarmInv'
  <1> DEFINE act == IF j = "correlation" THEN link[l].active ELSE j
             k == [link[l] EXCEPT !.active = act]
             c == [ctl[l] EXCEPT !.pending = [ctl[l].pending EXCEPT ![j] = FALSE]]
             reset == CASE j = "profile" -> TRUE
                        [] j = "matrix" -> ~snap[l].preserve
                        [] OTHER -> snap[l].reset
             s == [snap[l] EXCEPT !.pc = After(j), !.copy = FALSE,
                                  !.matrix = snap[l].matrix \/ j = "matrix",
                                  !.reset = reset]
  <1>1. /\ snap[l].pc = j /\ Copying(l, j) /\ snap[l].left = {} /\ telemetry' = telemetry
        /\ snap' = [snap EXCEPT ![l] = s] /\ link' = [link EXCEPT ![l] = k]
        /\ ctl' = [ctl EXCEPT ![l] = c]
    BY DEF SnapConsume, Copying
  <1>2. c.swap = ctl[l].swap
    BY LinkFacts DEF CtlStates
  <1> HIDE DEF c
  <1>3. /\ s.pc = After(j) /\ ~s.copy /\ s.reset = reset
        /\ s.matrix = (snap[l].matrix \/ j = "matrix")
    <2> HIDE DEF reset
    <2>1. QED
      BY LinkFacts DEF SnapStates
  <1>4. /\ reset = IF j = "profile" THEN TRUE
                   ELSE IF j = "matrix" THEN ~snap[l].preserve ELSE snap[l].reset
    OBVIOUS
  <1> HIDE DEF s, reset, act
  <1>5. /\ k.warmup = link[l].warmup /\ k.since = link[l].since /\ k.count = link[l].count
        /\ k.next = link[l].next /\ k.active = act /\ k.swap = link[l].swap
    BY Unmoved, LinkUpdate
  <1>6. act = IF j = "correlation" THEN link[l].active ELSE j
    BY DEF act
  <1> HIDE DEF k
  <1>7. /\ snap'[l] = s /\ link'[l] = k /\ ctl'[l] = c /\ WarmLink(l)
        /\ Resets(l) /\ Keeps(l)
    BY <1>1, Unmoved DEF WarmInv, WarmLink
  <1>8. j = "matrix" => link[l].swap["matrix"].layout \in Layout
    <2>1. ASSUME j = "matrix" PROVE link[l].swap["matrix"].layout \in Layout
      <3>1. ctl[l].swap["matrix"].layout \in Layout
        BY <1>1, <2>1, CopiedLayout
      <3>2. \A w \in Word : link[l].swap["matrix"][w] = ctl[l].swap["matrix"][w]
        BY <1>1, <2>1, WarmFacts
      <3>3. link[l].swap["matrix"].layout = ctl[l].swap["matrix"].layout
        <4>1. "layout" \in Word
          BY DEF Word
        <4>2. QED
          BY <3>2, <4>1
      <3>4. QED
        BY <3>1, <3>3
    <2>2. QED
      BY <2>1
  <1>9. CASE j = "profile"
    <2>1. After(j) = "matrix" /\ act = "profile" /\ s.reset /\ ~snap[l].matrix
      BY <1>1, <1>3, <1>4, <1>6, <1>7, <1>9 DEF After, Resets
    <2>2. Resets(l)' /\ Keeps(l)'
      BY <1>3, <1>5, <1>7, <1>9, <2>1 DEF Resets, Keeps, Copying
    <2>3. ~Settled(l)'
      BY <1>5, <1>7, <2>1 DEF Settled
    <2>4. QED
      BY <1>1, <1>5, <2>1, <2>2, <2>3, WarmSame
  <1>10. CASE j = "matrix"
    <2>1. After(j) = "correlation" /\ act = "matrix" /\ s.reset = ~snap[l].preserve /\ s.matrix
      BY <1>3, <1>4, <1>6, <1>10 DEF After
    <2>2. Resets(l)' /\ Keeps(l)'
      BY <1>3, <1>5, <1>7, <2>1 DEF Resets, Keeps, Copying
    <2>3. Settled(l)' => Settled(l)
      <3>1. Settled(l)' => snap[l].preserve
        BY <1>7, <2>1, LinkFacts DEF Settled, SnapStates
      <3>2. snap[l].preserve => Settled(l)
        BY <1>1, <1>7, <1>10 DEF Keeps, Settled
      <3>3. QED
        BY <3>1, <3>2
    <2>4. QED
      BY <1>1, <1>5, <1>8, <1>10, <2>2, <2>3, WarmSame
  <1>11. CASE j = "correlation"
    <2>1. After(j) = "finish" /\ act = link[l].active /\ s.reset = snap[l].reset
          /\ s.matrix = snap[l].matrix
      BY <1>3, <1>4, <1>6, <1>11, LinkFacts DEF After, SnapStates
    <2>2. Resets(l)' /\ Keeps(l)'
      BY <1>1, <1>3, <1>5, <1>7, <1>11, <2>1 DEF Resets, Keeps, Copying
    <2>3. Settled(l)' => Settled(l)
      BY <1>1, <1>5, <1>7, <1>11, <2>1 DEF Settled, Copying
    <2>4. act = "matrix" => link[l].swap["matrix"].layout \in Layout
      BY <1>7, <2>1 DEF WarmLink
    <2>5. QED
      BY <1>1, <1>5, <2>2, <2>3, <2>4, WarmSame
  <1>12. QED
    BY <1>9, <1>10, <1>11 DEF SwapKind

\* The end of a slot.
LEMMA WarmFinish ==
  ASSUME Steady, CtlInv, PatientInv, WarmInv, NEW l \in Link, NEW n \in Count, SnapFinish(l, n)
  PROVE  WarmInv'
  <1> DEFINE slot == link[l].next
             dl == IF snap[l].matrix THEN Larger(DlHint, Need(l)) ELSE DlHint
             until == IF snap[l].reset THEN slot + WarmupSlots(dl, n) ELSE link[l].warmup
             warm == IF slot >= until THEN 0 ELSE until
             sum == IF snap[l].reset THEN 0 ELSE link[l].since + link[l].count
             since == IF sum > MaxSlot THEN MaxSlot ELSE sum
             m == IF slot < MaxSlot THEN slot + 1 ELSE slot
             r == Finished(link[l], warm, since, n, m)
             t == [slot |-> slot, seqno |-> link[l].seqno, warmup |-> warm]
  <1>1. /\ snap[l].pc = "finish" /\ snap' = [snap EXCEPT ![l] = NoSnap] /\ ctl' = ctl
        /\ link' = [link EXCEPT ![l] = r] /\ telemetry' = [telemetry EXCEPT ![l] = t]
    <2>1. /\ link' = [link EXCEPT ![l].warmup = warm, ![l].since = since, ![l].count = n,
                                  ![l].next = m]
          /\ telemetry' = [telemetry EXCEPT ![l] = t]
          /\ snap[l].pc = "finish" /\ snap' = [snap EXCEPT ![l] = NoSnap] /\ ctl' = ctl
      BY DEF SnapFinish, Need
    <2> HIDE DEF warm, since, m
    <2>2. link' = [link EXCEPT ![l] =
                     [link[l] EXCEPT !.warmup = warm, !.since = since, !.count = n, !.next = m]]
      BY <2>1, Unmoved
    <2>3. QED
      BY <2>1, <2>2 DEF Finished
  <1>2. /\ slot \in 0 .. MaxSlot /\ telemetry[l].slot \in Nat /\ telemetry[l].slot <= slot
        /\ ~snap[l].copy /\ snap[l] \in SnapStates /\ WarmLink(l) /\ MaxSlot \in Nat
        /\ DlHint \in Nat /\ Count \subseteq Nat \ {0}
    BY <1>1, WarmFacts, ControlAssumption DEF SwapKind
  <1>3. link[l].active = "matrix" => Need(l) \in Nat /\ Need(l) <= MaxSlot
    BY <1>2, ControlAssumption DEF WarmLink, Need, Steady
  <1>4. dl \in Nat /\ (snap[l].matrix => dl >= Need(l))
    BY <1>2, <1>3 DEF WarmLink, Resets, Larger
  <1> HIDE DEF dl
  <1>5. WarmupSlots(dl, n) \in Nat \ {0} /\ WarmupSlots(dl, n) * n >= dl
    BY <1>2, <1>4, WindowCovers
  <1>6. until \in Nat /\ sum \in Nat
    BY <1>2, <1>5 DEF WarmLink
  <1>7. /\ warm = IF slot >= until THEN 0 ELSE until
        /\ since = IF sum > MaxSlot THEN MaxSlot ELSE sum
        /\ warm \in Nat /\ since \in Nat
    BY <1>2, <1>6
  <1>8. m <= slot + 1
    BY <1>2
  <1>9. /\ r.active = link[l].active /\ r.swap = link[l].swap
        /\ r.warmup = warm /\ r.since = since /\ r.count = n /\ r.next = m
        /\ t.slot = slot /\ t.warmup = warm
    <2> HIDE DEF warm, since, m, slot
    <2>1. QED
      BY Unmoved, FinishUpdate
  <1>10. /\ NoSnap.pc = "begin" /\ ~NoSnap.copy /\ ~NoSnap.reset /\ ~NoSnap.matrix
    BY DEF NoSnap
  <1> HIDE DEF r, t, m, warm, since
  <1>11. /\ link'[l] = r /\ snap'[l] = NoSnap /\ telemetry'[l] = t
         /\ \A q \in Link : q # l => /\ link'[q] = link[q] /\ snap'[q] = snap[q]
                                    /\ telemetry'[q] = telemetry[q]
    BY <1>1, Unmoved DEF PatientInv
  <1>12. Resets(l)' /\ Keeps(l)'
    BY <1>10, <1>11 DEF Resets, Keeps, Copying
  <1>13. ASSUME r.active = "matrix", since < Need(l)
         PROVE  (warm - slot) * n + since >= Need(l)
    <2>1. Need(l) \in Nat /\ Need(l) <= MaxSlot /\ n \in Nat \ {0}
      BY <1>2, <1>3, <1>9, <1>13
    <2>2. since = sum
      BY <1>2, <1>6, <1>7, <1>13, <2>1
    <2>3. CASE snap[l].reset
      <3>1. until = slot + WarmupSlots(dl, n) /\ sum = 0 /\ snap[l].matrix
        BY <1>2, <1>9, <1>13, <2>3 DEF WarmLink, Resets
      <3> DEFINE w == WarmupSlots(dl, n)
                 x == w * n
      <3>2. w \in Nat \ {0} /\ x >= dl /\ x \in Int
        BY <1>5, <2>1
      <3> HIDE DEF w
      <3>3. warm - slot = w
        BY <1>2, <1>7, <3>1, <3>2 DEF w
      <3>4. (warm - slot) * n = x
        BY <3>3
      <3> HIDE DEF x
      <3>5. QED
        BY <1>4, <2>1, <2>2, <3>1, <3>2, <3>4
    <2>4. CASE ~snap[l].reset
      <3>1. Settled(l)
        BY <1>2, <1>9, <1>13, <2>4 DEF Settled, Copying
      <3>2. until = link[l].warmup /\ sum = link[l].since + link[l].count
        BY <2>4
      <3>3. link[l].since < Need(l)
        <4>1. link[l].since \in Nat /\ link[l].count \in Nat
          <5>1. link[l].since \in Nat /\ link[l].count \in Count \cup {0}
            BY ONLY <1>2 DEF WarmLink
          <5>2. Count \subseteq Nat \ {0}
            BY <1>2
          <5> DEFINE y == link[l].count
          <5>3. y \in Count \cup {0}
            BY ONLY <5>1 DEF y
          <5> HIDE DEF y
          <5>4. y \in Nat
            BY ONLY <5>2, <5>3
          <5>5. QED
            BY ONLY <5>1, <5>4 DEF y
        <4>2. link[l].since + link[l].count < Need(l)
          BY <1>13, <2>2, <3>2
        <4>3. QED
          BY ONLY <2>1, <4>1, <4>2
      <3>4. /\ link[l].count \in Count
            /\ (link[l].warmup - telemetry[l].slot) * link[l].count + link[l].since >= Need(l)
        BY <1>2, <3>1, <3>3 DEF WarmLink, Covers
      <3>5. link[l].count = n
        BY <3>4 DEF Steady
      <3> DEFINE u == link[l].warmup
                 v == telemetry[l].slot
                 f == link[l].since
                 g == f + n
                 h == Need(l)
      <3>6. u \in Nat /\ v \in Nat /\ f \in Nat /\ h \in Nat /\ g \in Nat /\ slot \in Nat
        BY <1>2, <2>1 DEF WarmLink
      <3>7. (u - v) * n + f >= h
        BY <3>4, <3>5
      <3>8. slot = v \/ slot = v + 1
        BY <1>2 DEF WarmLink
      <3> HIDE DEF u, v, f, h
      <3>9. (u - (v + 1)) * n + (f + n) >= h /\ (u - v) * n + (f + n) >= h
        BY <2>1, <3>6, <3>7, WindowPasses
      <3> HIDE DEF slot
      <3>10. (u - slot) * n + g >= h
        BY <3>8, <3>9
      <3> HIDE DEF g
      <3>11. g < h => u > slot
        BY <2>1, <3>6, <3>10, WindowPasses
      <3>12. since = g /\ g < h
        BY <1>13, <2>2, <3>2, <3>5 DEF g, f, h
      <3>13. warm = u
        BY <1>7, <3>2, <3>6, <3>11, <3>12 DEF u
      <3>14. QED
        BY <3>10, <3>12, <3>13 DEF h
    <2>5. QED
      BY <2>3, <2>4
  <1>14. Settled(l)' => Covers(l)'
    <2>1. Settled(l)' => r.active = "matrix"
      BY <1>11 DEF Settled
    <2>2. Need(l)' = Need(l)
      BY <1>9, <1>11 DEF Need
    <2>3. QED
      BY <1>9, <1>11, <1>13, <2>1, <2>2 DEF Covers
  <1>15. WarmLink(l)'
    <2>1. r.active = "matrix" => r.swap["matrix"].layout \in Layout
      BY <1>2, <1>9 DEF WarmLink
    <2>2. QED
      BY <1>7, <1>8, <1>9, <1>11, <1>12, <1>14, <2>1 DEF WarmLink
  <1>16. QED
    BY <1>1, <1>11, <1>15, WarmProducer

LEMMA WarmSnap ==
  ASSUME Steady, CtlInv, PatientInv, WarmInv, NEW l \in Link, Snap(l)
  PROVE  WarmInv'
  <1>1. CASE SnapStore(l) \/ SnapLoad(l) \/ SnapGate(l) \/ SnapVersion(l)
             \/ \E p \in Param : SnapParam(l, p)
    BY <1>1, WarmBegins
  <1>2. CASE \E k \in SwapKind : SnapTest(l, k)
    BY <1>2, WarmTest
  <1>3. CASE \E k \in SwapKind : SnapDropped(l, k)
    <2>1. PICK k \in SwapKind : SnapDropped(l, k)
      BY <1>3
    <2>2. Copying(l, k) /\ ~ctl[l].pending[k]
      BY <2>1 DEF SnapDropped, Copying
    <2>3. QED
      BY <2>2, WarmFacts
  <1>4. CASE \E k \in SwapKind, w \in Word : SnapCopy(l, k, w)
    BY <1>4, WarmCopy
  <1>5. CASE \E k \in SwapKind : SnapConsume(l, k)
    BY <1>5, WarmConsume
  <1>6. CASE \E n \in Count : SnapFinish(l, n)
    BY <1>6, WarmFinish
  <1>7. QED
    BY <1>1, <1>2, <1>3, <1>4, <1>5, <1>6 DEF Snap

\* Nothing is stored for a link while its snap copies.
LEMMA WarmServer ==
  ASSUME CtlInv, PatientInv, WarmInv, Server
  PROVE  WarmInv'
  <1>1. UNCHANGED << link, snap, telemetry >>
    BY DEF Server, ScalarUpdate, ProfileSwap, MatrixProfileSwap, CorrelationSwap, Begin,
           BatchBegin, Stage, BatchCommit, BatchAbort, Write, Reply, linkVars
  <1>2. ASSUME NEW q \in Link, ctl'[q] = ctl[q] \/ ~snap[q].copy PROVE WarmLink(q)'
    <2>1. WarmLink(q)
      BY DEF WarmInv
    <2>2. Keeps(q)'
      BY <1>1, <1>2, <2>1 DEF WarmLink, Keeps, Copying
    <2>3. Resets(q)' /\ (Settled(q)' <=> Settled(q)) /\ (Covers(q)' <=> Covers(q))
      BY <1>1, <2>1 DEF WarmLink, Resets, Settled, Covers, Need, Copying
    <2>4. QED
      BY <1>1, <2>1, <2>2, <2>3 DEF WarmLink
  <1>3. CASE Write
    <2>1. PICK l : l = HandOp.link
      OBVIOUS
    <2>2. l \in Link /\ ~snap[l].copy
      BY <1>3, <2>1, WriteStands, WriteQuiet
    <2>3. ASSUME NEW q \in Link, q # l PROVE ctl'[q] = ctl[q]
      <3>1. ctl' = [ctl EXCEPT ![l] = ctl'[l]]
        BY <1>3, <2>1, <2>2, WriteLog, Unmoved
      <3>2. QED
        BY <2>2, <2>3, <3>1, Unmoved
    <2>4. QED
      BY <1>2, <2>2, <2>3 DEF WarmInv
  <1>4. CASE ~Write
    <2>1. ctl' = ctl
      BY <1>4 DEF Server, ScalarUpdate, ProfileSwap, MatrixProfileSwap, CorrelationSwap, Begin,
                  BatchBegin, Stage, BatchCommit, BatchAbort, Reply
    <2>2. QED
      BY <1>2, <2>1 DEF WarmInv
  <1>5. QED
    BY <1>3, <1>4

LEMMA WarmGivesIt == Steady /\ CtlInv /\ PatientInv /\ WarmInv => WarmupCovers
  <1> SUFFICES ASSUME Steady, CtlInv, PatientInv, WarmInv, NEW l \in Link,
                      Serving(l), link[l].active = "matrix", link[l].since < Need(l)
               PROVE  telemetry[l].warmup # 0
    BY DEF WarmupCovers, Need
  <1>1. /\ WarmLink(l) /\ telemetry[l].slot \in Nat /\ (snap[l].copy => snap[l].pc \in SwapKind)
    BY WarmFacts
  <1>2. Settled(l)
    BY <1>1 DEF Serving, WarmLink, Resets, Settled, Copying
  <1>3. Need(l) \in Nat /\ Count \subseteq Nat \ {0}
    BY <1>1, ControlAssumption DEF WarmLink, Need
  <1> DEFINE w == link[l].warmup
             s == telemetry[l].slot
             n == link[l].count
             f == link[l].since
             h == Need(l)
  <1>4. /\ w \in Nat /\ s \in Nat /\ n \in Nat \ {0} /\ f \in Nat /\ h \in Nat
        /\ (w - s) * n + f >= h /\ f < h /\ telemetry[l].warmup = w
    BY <1>1, <1>2, <1>3 DEF WarmLink, Covers
  <1> HIDE DEF w, s, n, f, h
  <1>5. w > s
    BY <1>4, WindowPasses
  <1>6. QED
    BY <1>4, <1>5

\* While fewer samples than the history of the matrix profile in force have been
\* served since its reset, telemetry reports the warm-up, for a patient client and
\* slots of one length: the window of snap_physical_link is long enough, and a
\* profile it does not reset for has the history of the one before it.
THEOREM WarmsUpLongEnough ==
  ASSUME Patient, Steady
  PROVE  Spec /\ []OneEach => []WarmupCovers
  <1>1. WarmInv /\ (CtlInv /\ PatientInv) /\ [Next]_vars => WarmInv'
    <2> SUFFICES ASSUME WarmInv, CtlInv, PatientInv, [Next]_vars PROVE WarmInv'
      OBVIOUS
    <2>1. CASE Server
      BY <2>1, WarmServer
    <2>2. CASE \E l \in Link : Snap(l)
      BY <2>2, WarmSnap
    <2>3. CASE UNCHANGED vars
      <3>1. UNCHANGED << ctl, link, snap, telemetry >>
        BY <2>3 DEF vars, linkVars
      <3>2. ASSUME NEW q \in Link PROVE WarmLink(q)'
        BY <3>1 DEF WarmInv, WarmLink, Resets, Keeps, Settled, Covers, Need, Copying
      <3>3. QED
        BY <3>2 DEF WarmInv
    <2>4. QED
      BY <2>1, <2>2, <2>3 DEF Next
  <1>2. Init => WarmInv
    BY WarmStart
  <1>3. CtlInv /\ PatientInv /\ WarmInv => WarmupCovers
    BY WarmGivesIt
  <1>4. QED
    BY <1>1, <1>2, <1>3, PatientInvariant, PTL DEF Spec
=============================================================================
