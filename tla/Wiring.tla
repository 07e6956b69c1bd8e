-------------------------------- MODULE Wiring --------------------------------
(* The configuration renderers of the native gates: what a Sionna scenario     *)
(* becomes.  A renderer refuses a scenario its gate cannot run; otherwise it   *)
(* writes one topology per broker and one configuration per radio into an      *)
(* output directory, each file created exclusively and the shape record last.  *)
(* A device of a topology and the radio of the same node must then agree on    *)
(* addresses: the radio binds its tx address and the broker connects to it,    *)
(* the broker binds the rx address and the radio connects to that one.         *)
(* Two attempts may be pointed at the same directory, and either can die.      *)
(* Powers are tenths of a decibel.                                             *)
EXTENDS Integers, FiniteSets, Sequences

CONSTANTS Snrs          \* reference SNRs asked for, in tenths of a decibel

ASSUME SnrsAssumption == Snrs \subseteq Int

VARIABLES
    renderer,       \* the renderer that runs
    scenario,   \* what it is given: [ports, links]
    snr,        \* --awgn-snr-db
    patterns,   \* --tdd-patterns: the slots of downlink of each cell
    attempt,    \* attempt -> [phase, next file]
    directory   \* file number -> the attempt that wrote it, 0 for none

wiringVars == <<renderer, scenario, snr, patterns, attempt, directory>>

Attempts == {1, 2}
\* Gates with a topology of the repository, and gates a scenario is given to.
Fixed == {"legacy", "rank1_2x1", "rank1_4x1", "oai_1x1", "oai_2x2", "oai_direct", "multi_gnb"}
Gates == Fixed \cup {"rank1", "multi_ue", "oai_ue", "two_cell", "fight", "benchmark"}
OneUe == {"legacy", "rank1_2x1", "rank1_4x1", "oai_1x1", "oai_2x2", "oai_direct", "rank1"}

Gnb(i) == <<"gnb", i>>
Ue(i) == <<"ue", i>>
IsUe(n) == n[1] = "ue"

-------------------------------------------------------------------------------
(* Scenarios and the renderers' refusals.                                      *)

NodesOf(g) ==
    CASE g \in OneUe -> {Gnb(0), Ue(0)}
      [] g \in {"multi_gnb", "two_cell", "fight"} -> {Gnb(0), Gnb(1), Ue(0), Ue(1)}
      [] OTHER -> {Gnb(0), Ue(0), Ue(1)}

\* The pairs a gate cannot do without.
Required(g) ==
    {p \in NodesOf(g) \X NodesOf(g) :
        /\ IsUe(p[1]) # IsUe(p[2])
        /\ g = "fight" => p[1][2] = p[2][2]}

Single == [tx |-> 1, rx |-> 1]

\* load_live_shape of the rank-1 renderer: arrays the gNB is built for and a
\* srsUE of at most two ports.
RankOneShape(sc) ==
    /\ {sc.ports[Gnb(0)].tx, sc.ports[Gnb(0)].rx} \subseteq {1, 2, 4}
    /\ sc.ports[Ue(0)].tx <= 2 /\ sc.ports[Ue(0)].rx <= 2

\* load_live_shape of the multi-UE renderer, which the OAI one uses as well.
MultiUeShape(sc) == \A n \in DOMAIN sc.ports : sc.ports[n] = Single

\* load_two_cell_shape: no loops.
TwoCellShape(sc) ==
    /\ \A n \in DOMAIN sc.ports : sc.ports[n] = Single
    /\ \A p \in sc.links : p[1] # p[2]

\* check_scenario of the fight: its brokers are one per cell, so no link may
\* cross cells.
FightShape(sc) ==
    /\ \A n \in DOMAIN sc.ports : sc.ports[n] = Single
    /\ \A p \in sc.links : p \in Required("fight")

\* check_scenario of the benchmark: links of the gNB only.
BenchmarkShape(sc) ==
    /\ \A n \in DOMAIN sc.ports : sc.ports[n] = Single
    /\ \A p \in sc.links : Gnb(0) \in {p[1], p[2]}

Accepts(g, sc) ==
    /\ Required(g) \subseteq sc.links
    /\ CASE g = "rank1" -> RankOneShape(sc)
         [] g \in {"multi_ue", "oai_ue"} -> MultiUeShape(sc)
         [] g = "two_cell" -> TwoCellShape(sc)
         [] g = "fight" -> FightShape(sc)
         [] g = "benchmark" -> BenchmarkShape(sc)
         [] OTHER -> TRUE

\* One link more or fewer than required, arrays of up to four elements.
LinkSets(g) ==
    {Required(g)}
        \cup IF g \in Fixed THEN {}
             ELSE {Required(g) \ {p} : p \in Required(g)}
                    \cup {Required(g) \cup {p} : p \in NodesOf(g) \X NodesOf(g)}

FixedPorts(g, n) ==
    CASE g = "rank1_2x1" /\ ~IsUe(n) -> [tx |-> 2, rx |-> 2]
      [] g = "rank1_4x1" /\ ~IsUe(n) -> [tx |-> 4, rx |-> 4]
      [] g \in {"oai_2x2", "oai_direct"} -> [tx |-> 2, rx |-> 2]
      [] OTHER -> Single

PortSets(g) ==
    LET single == [n \in NodesOf(g) |-> FixedPorts(g, n)]
    IN  IF g \in Fixed THEN {single} ELSE
        {[single EXCEPT ![n] = [tx |-> t, rx |-> r]] :
            n \in NodesOf(g), t \in 1 .. 4, r \in 1 .. 4}

-------------------------------------------------------------------------------
(* What is rendered.  The fight splits its scenario into two cells, the        *)
(* benchmark gives its single cell to two brokers, the second one renamed.     *)

Brokers(g) ==
    CASE g \in {"fight", "benchmark"} -> {0, 1} [] g = "oai_direct" -> {} [] OTHER -> {0}

Renamed(n) == IF IsUe(n) THEN Ue(n[2] + 2) ELSE Gnb(1)

BrokerNodes(g, b) ==
    CASE g = "fight" -> {Gnb(b), Ue(b)}
      [] g = "benchmark" /\ b = 1 -> {Renamed(n) : n \in NodesOf(g)}
      [] OTHER -> NodesOf(g)

BrokerLinks(g, b, links) ==
    CASE g = "benchmark" /\ b = 1 -> {<<Renamed(p[1]), Renamed(p[2])>> : p \in links}
      [] OTHER -> {p \in links : {p[1], p[2]} \subseteq BrokerNodes(g, b)}

Loop(tx, rx) == [tx |-> <<"lo", tx>>, rx |-> <<"lo", rx>>]

\* The gNBs of CELLS and the UES of render-multi-ue-configs.py; the renderers
\* that look endpoints up look them up here.
CellTable(j) == IF j = 0 THEN Loop(2000, 2001) ELSE Loop(2010, 2011)
UeTable(j) == Loop(2101 + 2 * j, 2100 + 2 * j)

\* An OAI UE sits behind a veth pair: it binds its own side of it and the
\* broker binds the host's side.
Behind(j, ports) ==
    [tx |-> <<"veth ue", j, ports.tx[2]>>, rx |-> <<"veth host", j, ports.rx[2]>>]
Veth(j) == Behind(j, UeTable(j))

\* Devices: the addresses the topology of each renderer tells broker b.
RankOneDevice(n, i) ==
    IF IsUe(n) THEN Loop(2100 + 2 * i + 1, 2100 + 2 * i) ELSE Loop(2000 + 2 * i, 2001 + 2 * i)

FixtureDevice(n, i) ==
    IF IsUe(n) THEN Loop(2101, 2100) ELSE Loop(2000 + 2 * i, 2001 + 2 * i)

OaiOneDevice(n) == IF IsUe(n) THEN Behind(0, Loop(2101, 2100)) ELSE Loop(2000, 2001)

OaiTwoDevice(n, i) ==
    IF IsUe(n) THEN Behind(0, Loop(2101 + 2 * i, 2100 + 2 * i))
    ELSE Loop(2000 + 2 * i, 2001 + 2 * i)

MultiUeDevice(n, gnbPorts) == IF IsUe(n) THEN UeTable(n[2]) ELSE gnbPorts

OaiDevice(n) == IF IsUe(n) THEN Veth(n[2]) ELSE MultiUeDevice(n, CellTable(0))

TwoCellDevice(n) == IF IsUe(n) THEN Veth(n[2]) ELSE CellTable(n[2])

\* The checked-in topology counts in 3000s; PORT_MAP moves it.
PortMap(port) ==
    CASE port = 3002 -> 2010 [] port = 3003 -> 2011 [] OTHER -> port - 1000
MultiGnbDevice(n) ==
    IF IsUe(n) THEN Loop(PortMap(3101 + 2 * n[2]), PortMap(3100 + 2 * n[2]))
    ELSE Loop(PortMap(3000 + 2 * n[2]), PortMap(3001 + 2 * n[2]))

\* A plausible slip: the second cell keeps the default pair of gNB ports.
CellDeviceDefault(b, n) == MultiUeDevice(n, CellTable(0))

\* Fight and benchmark: the multi-UE topology with the ports of the cell.
CellDevice(b, n) == MultiUeDevice(n, CellTable(b))

Device(g, b, n, i) ==
    CASE g = "rank1" -> RankOneDevice(n, i)
      [] g \in {"legacy", "rank1_2x1", "rank1_4x1"} -> FixtureDevice(n, i)
      [] g = "oai_1x1" -> OaiOneDevice(n)
      [] g \in {"oai_2x2", "oai_direct"} -> OaiTwoDevice(n, i)
      [] g = "multi_ue" -> MultiUeDevice(n, CellTable(0))
      [] g = "oai_ue" -> OaiDevice(n)
      [] g = "two_cell" -> TwoCellDevice(n)
      [] g = "multi_gnb" -> MultiGnbDevice(n)
      [] OTHER -> CellDevice(b, n)

PortsOf(g, n) == IF g \in OneUe THEN scenario.ports[n] ELSE Single

\* The ports of a topology: a device has one tx and one rx port per index its
\* node uses in that direction.
TxIndices(g, n) == 0 .. PortsOf(g, n).tx - 1
RxIndices(g, n) == 0 .. PortsOf(g, n).rx - 1

BrokerBinds(g, b) == UNION {{Device(g, b, n, i).rx : i \in RxIndices(g, n)} : n \in BrokerNodes(g, b)}
BrokerConnects(g, b) == UNION {{Device(g, b, n, i).tx : i \in TxIndices(g, n)} : n \in BrokerNodes(g, b)}

\* Radios: the device arguments each renderer writes for a node of its own.
RankOneGnb(i) == Loop(2000 + 2 * i, 2001 + 2 * i)

\* srsUE keeps the template's single pair unless the scenario widens it.
RankOneUe(i) ==
    IF PortsOf("rank1", Ue(0)) = Single THEN Loop(2101, 2100)
    ELSE Loop(2100 + 2 * i + 1, 2100 + 2 * i)

LegacyGnb == Loop(2000, 2001)
RankTwoGnb(i) == Loop(2000 + 2 * i, 2001 + 2 * i)
RankFourGnb(i) == Loop(2000 + 2 * i, 2001 + 2 * i)
LegacyUe == Loop(2101, 2100)

OaiOneGnb == LegacyGnb
\* Without a broker the gNB takes the broker's side of the veth pair: it binds
\* what the UE connects to and connects to what the UE binds.
OaiTwoGnb(g, i) ==
    IF g = "oai_2x2" THEN Loop(2000 + 2 * i, 2001 + 2 * i)
    ELSE [tx |-> <<"veth host", 0, 2100 + 2 * i>>, rx |-> <<"veth ue", 0, 2101 + 2 * i>>]
OaiTwoUe(i) == Behind(0, Loop(2101 + 2 * i, 2100 + 2 * i))

MultiUeGnb == Loop(2000, 2001)
OaiGnb == MultiUeGnb
TwoCellGnb(j) == CellTable(j)
CellGnb(j) == CellTable(j)
SrsUe(j) == UeTable(j)
NrUe(j) == Veth(j)

Radio(g, n, i) ==
    CASE IsUe(n) /\ g = "rank1" -> RankOneUe(i)
      [] IsUe(n) /\ g \in {"legacy", "rank1_2x1", "rank1_4x1"} -> LegacyUe
      [] IsUe(n) /\ g \in {"oai_2x2", "oai_direct"} -> OaiTwoUe(i)
      [] IsUe(n) /\ g = "oai_1x1" -> NrUe(0)
      [] IsUe(n) /\ g \in {"oai_ue", "two_cell"} -> NrUe(n[2])
      [] IsUe(n) -> SrsUe(n[2])
      [] g = "rank1" -> RankOneGnb(i)
      [] g = "legacy" -> LegacyGnb
      [] g = "rank1_2x1" -> RankTwoGnb(i)
      [] g = "rank1_4x1" -> RankFourGnb(i)
      [] g = "oai_1x1" -> OaiOneGnb
      [] g \in {"oai_2x2", "oai_direct"} -> OaiTwoGnb(g, i)
      [] g = "multi_ue" -> MultiUeGnb
      [] g = "oai_ue" -> OaiGnb
      [] g = "two_cell" -> TwoCellGnb(n[2])
      [] OTHER -> CellGnb(n[2])

RadioBinds(g, n) == {Radio(g, n, i).tx : i \in TxIndices(g, n)}
RadioConnects(g, n) == {Radio(g, n, i).rx : i \in RxIndices(g, n)}

-------------------------------------------------------------------------------
(* Receiver noise.  The wire levels are those of the captures; where the       *)
(* topology carries a tx_scale_db, the broker brings a UE onto the gNB's scale *)
(* and 7 dB below it.                                                          *)

GnbLevel == -195
UeLevel(g) == IF g \in {"oai_ue", "two_cell"} THEN -493 ELSE 448
UlOffset == -70

UeScale(g) == UlOffset - (UeLevel(g) - GnbLevel)

\* The multi-UE, OAI and two-cell topologies name the scale; fight and
\* benchmark render without one, and their floor is computed without one.
ScaleRendered(g) == IF g \in {"fight", "benchmark"} THEN 0 ELSE UeScale(g)

ScaleInFloor(g) == IF g \in {"fight", "benchmark"} THEN 0 ELSE UeScale(g)

NoiseFloor(g, n) ==
    IF IsUe(n) THEN GnbLevel - snr ELSE UeLevel(g) + ScaleInFloor(g) - snr

\* Power of a transmitter at the receiver of a link of unit gain.
Heard(g, n) == IF IsUe(n) THEN UeLevel(g) + ScaleRendered(g) ELSE GnbLevel

-------------------------------------------------------------------------------
(* TDD: the slots in which UE b transmits while UE a receives.                 *)

Kind(dl, slot) == IF slot < dl THEN "D" ELSE IF slot = dl THEN "S" ELSE "U"

CliSlots(a, b) ==
    {s \in 0 .. 9 : Kind(a, s) = "D" /\ Kind(b, s) \in {"U", "S"}}

\* Symbols of a slot: a special slot has six of downlink first and four of
\* uplink last.
DownSymbols(dl, s) ==
    CASE Kind(dl, s) = "D" -> 0 .. 13 [] Kind(dl, s) = "S" -> 0 .. 5 [] OTHER -> {}
UpSymbols(dl, s) ==
    CASE Kind(dl, s) = "U" -> 0 .. 13 [] Kind(dl, s) = "S" -> 10 .. 13 [] OTHER -> {}

-------------------------------------------------------------------------------
(* The files a renderer writes, in order.                                      *)

UeFiles(prefix, ues) == [i \in 1 .. ues |-> <<prefix, i - 1>>]

LegacyOutputs == <<"gnb", "topology", "open5gs", "srsue", "subscriber">>
RankTwoOutputs == <<"gnb", "topology", "open5gs", "srsue", "subscriber">>
RankFourOutputs == <<"gnb", "topology", "open5gs", "srsue", "subscriber">>
OaiOneOutputs == <<"gnb", "topology", "open5gs", "nrue", "subscriber">>
OaiTwoOutputs == <<"gnb", "topology", "open5gs", "nrue", "subscriber", "uecap">>
RankOneOutputs == <<"gnb", "topology", "open5gs", "srsue", "subscriber", "shape">>
MultiUeOutputs == <<"gnb", "topology", "open5gs", "subscriber">> \o UeFiles("srsue", 2) \o <<"shape">>
OaiOutputs ==
    <<"gnb", "topology", "open5gs", "subscriber", "nrue-radio", "uecap">>
        \o UeFiles("nrue", 2) \o <<"shape">>
TwoCellOutputs ==
    <<"topology", "open5gs", "subscriber", "nrue-radio", "uecap", "gnb0", "gnb1">>
        \o UeFiles("nrue", 2) \o <<"shape">>
MultiGnbOutputs == <<"gnb0", "gnb1", "topology", "open5gs", "subscriber">> \o UeFiles("srsue", 2)
FightOutputs ==
    <<"open5gs", "subscriber", "gnb0", "topology-a", "scenario-a", <<"srsue", 0>>,
      "gnb1", "topology-b", "scenario-b", <<"srsue", 1>>, "shape">>
BenchmarkOutputs ==
    <<"open5gs", "subscriber", "scenario", "gnb0", "topology-a", <<"srsue", 0>>, <<"srsue", 1>>,
      "gnb1", "topology-b", <<"srsue", 2>>, <<"srsue", 3>>, "shape">>

Outputs(g) ==
    CASE g = "legacy" -> LegacyOutputs [] g = "rank1_2x1" -> RankTwoOutputs
      [] g = "rank1_4x1" -> RankFourOutputs [] g = "oai_1x1" -> OaiOneOutputs
      [] g \in {"oai_2x2", "oai_direct"} -> OaiTwoOutputs
      [] g = "rank1" -> RankOneOutputs [] g = "multi_ue" -> MultiUeOutputs
      [] g = "oai_ue" -> OaiOutputs [] g = "two_cell" -> TwoCellOutputs
      [] g = "multi_gnb" -> MultiGnbOutputs [] g = "fight" -> FightOutputs
      [] OTHER -> BenchmarkOutputs

-------------------------------------------------------------------------------
WiringInit ==
    /\ renderer \in Gates
    /\ \/ \E links \in LinkSets(renderer) :
            scenario = [ports |-> [n \in NodesOf(renderer) |-> FixedPorts(renderer, n)], links |-> links]
       \/ \E ports \in PortSets(renderer) :
            scenario = [ports |-> ports, links |-> Required(renderer)]
    /\ snr \in IF renderer \in OneUe \cup Fixed THEN {0} ELSE Snrs
    /\ patterns \in IF renderer = "two_cell" /\ scenario.links = Required(renderer)
                    THEN (1 .. 8) \X (1 .. 8) ELSE {<<7, 7>>}
    /\ attempt = [a \in Attempts |-> [phase |-> "idle", next |-> 1]]
    /\ directory = [f \in 1 .. Len(Outputs(renderer)) |-> 0]

Request == UNCHANGED <<renderer, scenario, snr, patterns>>

\* The renderers built on the 1x1 one insist on an empty directory, the others
\* only on a directory.
DirectoryFit == renderer \in OneUe => \A f \in DOMAIN directory : directory[f] = 0

\* The scenario is read and judged, and every text rendered, before the first
\* file is written.
Load(a) ==
    /\ attempt[a].phase = "idle"
    /\ attempt' = [attempt EXCEPT ![a].phase =
                     IF Accepts(renderer, scenario) /\ DirectoryFit THEN "writing" ELSE "refused"]
    /\ Request
    /\ UNCHANGED directory

\* write_new: open(..., "x") creates the file or fails.
Created(f) == directory[f] = 0

Write(a) ==
    LET f == attempt[a].next
    IN  /\ attempt[a].phase = "writing"
        /\ IF Created(f)
           THEN /\ directory' = [directory EXCEPT ![f] = a]
                /\ attempt' = [attempt EXCEPT ![a] =
                     IF f = Len(Outputs(renderer)) THEN [phase |-> "done", next |-> f]
                     ELSE [phase |-> "writing", next |-> f + 1]]
           ELSE /\ attempt' = [attempt EXCEPT ![a].phase = "dead"]
                /\ UNCHANGED directory
        /\ Request

\* An unresolved placeholder found between two writes, a full disk, a signal.
Die(a) ==
    /\ attempt[a].phase = "writing"
    /\ attempt' = [attempt EXCEPT ![a].phase = "dead"]
    /\ Request
    /\ UNCHANGED directory

WiringNext == \E a \in Attempts : Load(a) \/ Write(a) \/ Die(a)

WiringSpec == WiringInit /\ [][WiringNext]_wiringVars

-------------------------------------------------------------------------------
Rendered == \E a \in Attempts : attempt[a].phase \notin {"idle", "refused"}

AllNodes(g) == NodesOf(g) \cup UNION {BrokerNodes(g, b) : b \in Brokers(g)}

\* On a host that runs what was rendered, no address is bound twice, every
\* address a broker connects to is bound by a radio and the other way round:
\* the topologies and the radio configurations, rendered by different code
\* from different tables, name the same sockets.
EndpointsPair ==
    Rendered =>
        LET g == renderer
        IN  /\ \A b, c \in Brokers(g) :
                 b # c => BrokerBinds(g, b) \cap BrokerBinds(g, c) = {}
            /\ \A m, n \in AllNodes(g) : m # n => RadioBinds(g, m) \cap RadioBinds(g, n) = {}
            /\ \A n \in AllNodes(g) : Cardinality(RadioBinds(g, n)) = PortsOf(g, n).tx
            /\ \A b \in Brokers(g) :
                 /\ BrokerConnects(g, b) = UNION {RadioBinds(g, n) : n \in BrokerNodes(g, b)}
                 /\ BrokerBinds(g, b) = UNION {RadioConnects(g, n) : n \in BrokerNodes(g, b)}
                 /\ \A n \in AllNodes(g) : BrokerBinds(g, b) \cap RadioBinds(g, n) = {}
            /\ g = "oai_direct" => /\ RadioBinds(g, Gnb(0)) = RadioConnects(g, Ue(0))
                                   /\ RadioBinds(g, Ue(0)) = RadioConnects(g, Gnb(0))

\* A link of unit gain between a gNB and a UE gives the reference SNR in both
\* directions, and between two UEs 7 dB less: the noise floor and the transmit
\* scale of the same topology are computed in different places.
ReferenceSnr ==
    Rendered /\ renderer \notin OneUe \cup Fixed =>
        \A b \in Brokers(renderer) : \A p \in BrokerLinks(renderer, b, scenario.links) :
            (p[1] # p[2] /\ \E n \in {p[1], p[2]} : IsUe(n)) =>
                Heard(renderer, p[1]) - NoiseFloor(renderer, p[2])
                    = snr + (IF IsUe(p[1]) /\ IsUe(p[2]) THEN UlOffset ELSE 0)

\* A link of the scenario reaches a broker that knows both its ends, and no
\* broker is given a link of another cell.
LinksKept ==
    Rendered =>
        /\ \A p \in scenario.links : renderer # "oai_direct" =>
             Cardinality({b \in Brokers(renderer) : p \in BrokerLinks(renderer, b, scenario.links)}) = 1
        /\ \A b \in Brokers(renderer) : \A p \in BrokerLinks(renderer, b, scenario.links) :
             {p[1], p[2]} \subseteq BrokerNodes(renderer, b)

\* A rendering that reports success wrote every file of its directory itself,
\* whatever another attempt did to the same directory meanwhile.
OneRendering ==
    \A a \in Attempts : attempt[a].phase = "done" => \A f \in DOMAIN directory : directory[f] = a

\* The cross-link slots in the shape record are those with a whole slot of
\* downlink at one UE while the other one transmits in some symbol.
CliSlotsExact ==
    CliSlots(patterns[1], patterns[2]) =
        {s \in 0 .. 9 : /\ DownSymbols(patterns[1], s) = 0 .. 13
                        /\ UpSymbols(patterns[2], s) # {}}
===============================================================================
