--------------------------- MODULE ChannelProfiles ---------------------------
(***************************************************************************)
(* One channel update of the Sionna bridge, from the scenario file to the  *)
(* batch each broker receives: load_scenario_config refuses or accepts the *)
(* links, trace_all_profiles solves them in groups that share a carrier    *)
(* and the arrays of both ends, profiles reads each antenna pair of a link *)
(* out of the solve, and remap_link_id renames the nodes for a second      *)
(* broker.  The scene is shared: what a solve returns depends on the       *)
(* arrays and the carrier configured when it ran.                          *)
(***************************************************************************)
EXTENDS Integers, Sequences, FiniteSets, FiniteSetsExt, SequencesExt

CONSTANTS Files,        \* scenario files: [ports, links], ports[node] = <<tx, rx>>
          Renames,      \* node renames of a second broker, as old/new pairs
          MaxLanes      \* antenna pairs a broker's link can have

VARIABLES scenarioFile, \* the scenario file read
          rename,       \* the rename given on the command line
          stage,        \* "load", "trace", "done" or "refused"
          scene,        \* the carrier and arrays the scene is configured for
          groups,       \* groups still to be solved, in order
          batch,        \* profiles: link id -> profile
          second        \* the same batch as the second broker gets it

traceVars == <<scenarioFile, rename, stage, scene, groups, batch, second>>

LinkId(link) == <<link.from, link.to, link.model>>

Lanes(link) == scenarioFile.ports[link.from][1] * scenarioFile.ports[link.to][2]

Repeats(links) == \E i, j \in DOMAIN links : i # j /\ LinkId(links[i]) = LinkId(links[j])

Loadable == /\ scenarioFile.links # <<>>
            /\ \A i \in DOMAIN scenarioFile.links :
                  {scenarioFile.links[i].from, scenarioFile.links[i].to} \subseteq DOMAIN scenarioFile.ports
            /\ ~Repeats(scenarioFile.links)
            /\ \A i \in DOMAIN scenarioFile.links : Lanes(scenarioFile.links[i]) <= MaxLanes

\* parse_fanout: no node renamed twice, no two to one name.
RenameOk == \A p, q \in rename : p.old = q.old \/ p.new = q.new => p = q

Renamed(node) == IF \E p \in rename : p.old = node
                 THEN (CHOOSE p \in rename : p.old = node).new ELSE node

Remap(id) == <<Renamed(id[1]), Renamed(id[2]), id[3]>>

Carrier(link) == IF link.direction = "downlink" THEN "dl" ELSE "ul"

\* trace_all_profiles: the links of one solve.
LinkKey(link) == [carrier |-> Carrier(link),
              tx |-> scenarioFile.ports[link.from][1], rx |-> scenarioFile.ports[link.to][2]]

Grouped ==
    LET keys == {LinkKey(scenarioFile.links[i]) : i \in DOMAIN scenarioFile.links}
        First(k) == Min({i \in DOMAIN scenarioFile.links : LinkKey(scenarioFile.links[i]) = k})
        Before(k, l) == First(k) < First(l)
        order == SetToSortSeq(keys, Before)
        Members(k) == SelectSeq(scenarioFile.links, LAMBDA link : LinkKey(link) = k)
    IN [g \in DOMAIN order |-> [key |-> order[g], links |-> Members(order[g])]]

\* profiles: the antenna pairs of a link, rx-major, each read at its own
\* receiver, receive port, transmitter and transmit port of the solve.
Slice(link, r, t) == <<link.to, r, link.from, t>>

LanesOfColumns(link) ==
    LET nt == scenarioFile.ports[link.from][1]
        nr == scenarioFile.ports[link.to][2]
    IN [k \in 1..(nt * nr) |-> [rx |-> (k - 1) % nr, tx |-> (k - 1) \div nr,
           slice |-> Slice(link, (k - 1) % nr, (k - 1) \div nr)]]

LanesOf(link) ==
    LET nt == scenarioFile.ports[link.from][1]
        nr == scenarioFile.ports[link.to][2]
    IN [k \in 1..(nt * nr) |-> [rx |-> (k - 1) \div nt, tx |-> (k - 1) % nt,
           slice |-> Slice(link, (k - 1) \div nt, (k - 1) % nt)]]

Load == /\ stage = "load"
        /\ stage' = IF Loadable /\ RenameOk THEN "trace" ELSE "refused"
        /\ groups' = IF Loadable /\ RenameOk THEN Grouped ELSE <<>>
        /\ UNCHANGED <<scenarioFile, rename, scene, batch, second>>

\* configure_arrays, trace, profiles: one group.
TraceGroup == /\ stage = "trace" /\ groups # <<>>
              /\ LET g == Head(groups)
                     ids == {LinkId(link) : link \in Range(g.links)}
                     Of(id) == CHOOSE link \in Range(g.links) : LinkId(link) = id
                 IN /\ scene' = g.key
                    /\ batch' = [id \in ids |-> [link |-> Of(id), solvedAt |-> g.key,
                                                 lanes |-> LanesOf(Of(id))]] @@ batch
              /\ groups' = Tail(groups)
              /\ UNCHANGED <<scenarioFile, rename, stage, second>>

\* send_fanout: every broker gets the batch under its own names.
SendBatch == /\ stage = "trace" /\ groups = <<>>
             /\ second' = [id \in {Remap(b) : b \in DOMAIN batch} |->
                             batch[CHOOSE b \in DOMAIN batch : Remap(b) = id]]
             /\ stage' = "done"
             /\ UNCHANGED <<scenarioFile, rename, scene, groups, batch>>

NoBatch == [id \in {} |-> {}]

TraceInit == /\ scenarioFile \in Files /\ rename \in Renames /\ stage = "load"
             /\ scene = [carrier |-> "dl", tx |-> 1, rx |-> 1]
             /\ groups = <<>> /\ batch = NoBatch /\ second = NoBatch

TraceNext == Load \/ TraceGroup \/ SendBatch

TraceSpec == TraceInit /\ [][TraceNext]_traceVars
-------------------------------------------------------------------------------
\* A batch describes every link of the scenario once, solved at the carrier
\* of its direction and with the arrays of its own two ends; were one left
\* out, its broker link would keep the channel of the update before.
EveryLinkSolved ==
    stage = "done" =>
        /\ Cardinality(DOMAIN batch) = Len(scenarioFile.links)
        /\ \A i \in DOMAIN scenarioFile.links :
              LET link == scenarioFile.links[i]
                  profile == batch[LinkId(link)]
              IN profile.link = link /\ profile.solvedAt = LinkKey(link)

\* Each antenna pair is read where the solve has it (no index beyond the
\* arrays it ran with) and the lanes are in the broker's row-major order.
LanesInPlace ==
    \A id \in DOMAIN batch :
        LET profile == batch[id]
            nt == scenarioFile.ports[profile.link.from][1]
        IN /\ \A k \in DOMAIN profile.lanes :
                 /\ profile.lanes[k].rx * nt + profile.lanes[k].tx = k - 1
                 /\ profile.lanes[k].slice[2] < profile.solvedAt.rx
                 /\ profile.lanes[k].slice[4] < profile.solvedAt.tx

\* A second broker whose names do not clash with the nodes left as they are
\* gets the same links under its own names: as many, and the lanes of each
\* belong to the radios it is named for.
SecondCellWhole ==
    LET kept == DOMAIN scenarioFile.ports \ {p.old : p \in rename}
    IN stage = "done" /\ {p.new : p \in rename} \cap kept = {} =>
          /\ Cardinality(DOMAIN second) = Cardinality(DOMAIN batch)
          /\ \A id \in DOMAIN second :
                id[1] = Renamed(second[id].link.from) /\ id[2] = Renamed(second[id].link.to)
-------------------------------------------------------------------------------
(***************************************************************************)
(* From the rays of a traced link to the taps of its profile               *)
(* (channel_adapter.py rays_to_taps, channel_status).  Rays arrive in any  *)
(* order; those in one delay bin are summed as fields, so two of them may  *)
(* cancel; what remains is cut to the taps the broker takes.  A field is   *)
(* an integer, a delay counts half bins, and a gain is the magnitude of    *)
(* the field.                                                              *)
(***************************************************************************)
CONSTANTS Delays,      \* delays of rays, in half bins
          Magnitudes,  \* magnitudes of the fields of rays
          MaxRays,     \* rays of a link
          MaxTaps,     \* kDeviceMaxTaps
          MaxBin,      \* the last bin inside max_delay_samples
          MinGain, MaxGain,   \* accepted gains; MinGain is an outage's too
          MaxPoints    \* points of the delay/Doppler display

VARIABLES given,       \* the rays so far, in order
          bins,        \* bins: bin -> summed field, in insertion order
          taps,        \* the taps sent, <<>> until the link is done
          points       \* the rays displayed

tapVars == <<given, bins, taps, points>>

Mag(x) == IF x < 0 THEN -x ELSE x

\* round() of a half goes to the even bin.
Bin(delay) == IF delay % 2 = 0 THEN delay \div 2
              ELSE 2 * ((delay + 1) \div 4)

Rays == [delay : Delays, field : Magnitudes \cup {-m : m \in Magnitudes}]

BinOf(list, b) == SelectSeq(list, LAMBDA e : e.bin = b)

\* A ray outside the delay span or without a field is left out.
Heard(ray) == ray.delay <= 2 * MaxBin /\ ray.field # 0 /\ Bin(ray.delay) <= MaxBin

Merged(ray) ==
    [k \in DOMAIN bins |->
        IF bins[k].bin = Bin(ray.delay) THEN [bins[k] EXCEPT !.field = @ + ray.field]
                                        ELSE bins[k]]

AddRay == \E ray \in Rays :
    /\ taps = <<>> /\ Len(given) < MaxRays
    /\ given' = Append(given, ray)
    /\ bins' = IF ~Heard(ray) THEN bins
               ELSE IF BinOf(bins, Bin(ray.delay)) # <<>> THEN Merged(ray)
               ELSE Append(bins, [bin |-> Bin(ray.delay), field |-> ray.field])
    /\ UNCHANGED <<taps, points>>

\* sort(key=..., reverse=True)[:most]: a stable sort, so equals keep their order.
StrongestFirst(list) ==
    LET Before(i, j) == \/ Mag(list[i].field) > Mag(list[j].field)
                        \/ Mag(list[i].field) = Mag(list[j].field) /\ i < j
        order == SetToSortSeq(DOMAIN list, Before)
    IN [k \in DOMAIN list |-> list[order[k]]]

Firsts(list, most) == SubSeq(StrongestFirst(list), 1, Min({most, Len(list)}))

ByBin(list) == LET Before(i, j) == list[i].bin < list[j].bin
                   order == SetToSortSeq(DOMAIN list, Before)
               IN [k \in DOMAIN list |-> list[order[k]]]

Candidates == SelectSeq(bins, LAMBDA e : e.field # 0 /\ Mag(e.field) >= MinGain)

Outage == <<[delay |-> 0, gain |-> MinGain, sign |-> 1]>>

Taps == LET chosen == ByBin(Firsts(Candidates, MaxTaps))
            Tap(e) == [delay |-> e.bin, gain |-> Min({Mag(e.field), MaxGain}),
                       sign |-> IF e.field < 0 THEN -1 ELSE 1]
        IN IF chosen = <<>> THEN Outage ELSE [k \in DOMAIN chosen |-> Tap(chosen[k])]

\* channel_status: what the display shows, before any merging.
Points == Firsts(SelectSeq(given, LAMBDA ray : ray.field # 0), MaxPoints)

FinishLink == /\ taps = <<>>
          /\ taps' = Taps /\ points' = Points
          /\ UNCHANGED <<given, bins>>

TapsInit == given = <<>> /\ bins = <<>> /\ taps = <<>> /\ points = <<>>

TapsNext == AddRay \/ FinishLink

TapsSpec == TapsInit /\ [][TapsNext]_tapVars
-------------------------------------------------------------------------------
\* What a delay bin receives from all rays together, computed from the rays.
FieldAt(b) == FoldLeft(LAMBDA sum, ray :
    IF ray.delay <= 2 * MaxBin /\ Bin(ray.delay) = b THEN sum + ray.field ELSE sum, 0, given)

\* The broker takes every profile: matrix_profile_swap asks for one to
\* kDeviceMaxTaps taps, delays in range and gains in range, and its delay
\* line for one tap per delay.  A refusal would fail the whole batch of all
\* links, so no set of rays may lead to one.
BrokerTakesIt ==
    taps # <<>> =>
        /\ Len(taps) <= MaxTaps
        /\ \A k \in DOMAIN taps :
              /\ taps[k].delay \in 0..MaxBin
              /\ taps[k].gain \in MinGain..MaxGain
              /\ k > 1 => taps[k - 1].delay < taps[k].delay

\* Whatever the order of the rays, each tap carries the coherent sum of all
\* rays of its bin (clipped in magnitude, with its phase), and no bin left
\* out was stronger than one sent; an outage is sent for a link nobody hears.
CoherentSum ==
    /\ taps = Outage /\ FieldAt(0) # MinGain => \A b \in 0..MaxBin : Mag(FieldAt(b)) < MinGain
    /\ taps \notin {<<>>, Outage} =>
        LET sent == {taps[k].delay : k \in DOMAIN taps}
        IN /\ \A k \in DOMAIN taps :
                 /\ taps[k].gain = Min({Mag(FieldAt(taps[k].delay)), MaxGain})
                 /\ taps[k].sign * FieldAt(taps[k].delay) > 0
           /\ \A b \in (0..MaxBin) \ sent : \A s \in sent :
                 Mag(FieldAt(b)) >= MinGain =>
                    Len(taps) = MaxTaps /\ Mag(FieldAt(b)) <= Mag(FieldAt(s))
==============================================================================
