------------------------------- MODULE Bandwidth -------------------------------
(* Rendering a 1x1 or 2x2 gate at another channel bandwidth: the audited       *)
(* renderer writes its 20 MHz files, then each file is rewritten in place, one *)
(* after the other, and the CUDA stages are put into the gNB configuration     *)
(* last.  Every rewrite checks that it finds exactly the tokens it replaces,   *)
(* so that a second pass over a half rewritten directory fails.  Frequencies   *)
(* are in kHz, sample rates in kS/s.                                           *)
EXTENDS Integers, FiniteSets

VARIABLES
    base,       \* "legacy" (srsUE), "oai" or "oai_2x2"
    bw,         \* OCUDU_NATIVE_BW_MHZ
    stage,      \* OCUDU_NATIVE_GNB_ACCELERATION as a number, 0 for "disabled"
    gridMode,   \* OCUDU_NATIVE_CUDA_GRID_MODE, "" when unset
    step,       \* the next rewrite, "done" or "failed"
    rate,       \* file -> the sample rate it names
    radio,      \* the nrUE's radio arguments, none for srsUE
    uecap       \* the bandwidths with a 15 kHz downlink feature set

bwVars == <<base, bw, stage, gridMode, step, rate, radio, uecap>>

NoCarrier == [prb |-> 0]

\* MHz -> PRBs at 15 kHz, kS/s, SSB ARFCN.  100 MHz is a 30 kHz TDD cell.
Narrow == {20, 30, 40, 50}
Prb(b) == CASE b = 20 -> 106 [] b = 30 -> 160 [] b = 40 -> 216 [] b = 50 -> 270 [] OTHER -> 273
Rate(b) ==
    CASE b = 20 -> 23040 [] b = 30 -> 30720 [] b = 40 -> 46080 [] b = 50 -> 61440
      [] OTHER -> 122880
SsbArfcn(b) ==
    CASE b = 20 -> 368410 [] b = 30 -> 367450 [] b = 40 -> 366490 [] b = 50 -> 365530
      [] OTHER -> 634464
Scs(b) == IF b = 100 THEN 30 ELSE 15
Center(b) == IF b = 100 THEN 3558180 ELSE 1842500

\* nr_arfcn_hz
Frequency(arfcn) == IF arfcn < 600000 THEN arfcn * 5 ELSE 3000000 + (arfcn - 600000) * 15

PointA(b) == Center(b) - Prb(b) * 6 * Scs(b)

\* oai_ssb_offset and oai_tdd100_args: the first of the 240 subcarriers of the
\* SSB, counted from point A.
SsbOffset(b) == (Frequency(SsbArfcn(b)) - 120 * Scs(b) - PointA(b)) \div Scs(b)

\* The rates the nrUE can derive from a PRB count: the smallest FFT that holds
\* the carrier, or three quarters of one.
Ffts == {1024, 2048, 4096, 8192}
ThreeQuarterFft(b) ==
    CASE b = 20 -> 1536 [] b = 50 -> 6144 [] OTHER -> 3072

\* oai_sampling_flag: "-E" when three quarters of an FFT is the gNB's rate.
ThreeQuarters(b) == b \in Narrow /\ ThreeQuarterFft(b) * 15 = Rate(b)

UeArguments(b) ==
    [prb |-> Prb(b), scs |-> Scs(b), center |-> Center(b), ssb |-> SsbOffset(b),
     threeQuarters |-> ThreeQuarters(b)]

\* acceleration_block: stage n enables the first n of the modes in order, and
\* forced lower-PHY acceleration needs a grid the device can map.
Modes == <<"low_phy_rx", "low_phy_tx", "pusch", "pdsch", "prach", "srs">>
Enabled(n) == {Modes[i] : i \in 1 .. n} \cup (IF n >= 5 THEN {"low_phy_prach"} ELSE {})
Grid(n, direction) ==
    IF gridMode # "" THEN gridMode
    ELSE IF n >= (IF direction = "ul" THEN 1 ELSE 2) THEN "managed" ELSE "pinned"

-------------------------------------------------------------------------------
Configs == IF base = "legacy" THEN {"gnb", "ue", "topology"} ELSE {"gnb", "topology"}

BandwidthInit ==
    /\ base \in {"legacy", "oai", "oai_2x2"}
    /\ bw \in IF base = "legacy" THEN Narrow ELSE Narrow \cup {100}
    /\ stage \in 0 .. 6
    /\ gridMode \in {"", "auto", "pinned", "managed"}
    /\ step = "gnb"
    /\ rate = [f \in Configs |-> 23040]
    /\ radio = NoCarrier
    /\ uecap \in IF base = "legacy" THEN {{}} ELSE {{20, 30, 40}}

Requested == UNCHANGED <<base, bw, stage, gridMode>>

AfterGnb == IF base = "legacy" THEN "ue" ELSE "topology"

\* apply_bandwidth: at 20 MHz the files stay as the base renderer wrote them.
\* A token that is missing or ambiguous ends the pass.
Rewrite(file, next) ==
    /\ step = file
    /\ \/ /\ rate' = [rate EXCEPT ![file] = Rate(bw)]
          /\ step' = next
       \/ /\ bw # 20
          /\ step' = "failed"
          /\ UNCHANGED rate
    /\ Requested
    /\ UNCHANGED <<radio, uecap>>

RewriteGnb == Rewrite("gnb", AfterGnb)
RewriteUe == Rewrite("ue", "topology")
RewriteTopology == Rewrite("topology", "radio")

\* nrue-radio.args, and the capability file where the stock one lacks the
\* bandwidth; the 100 MHz cell uses the 30 kHz sets of the stock file.
UeCapability == IF bw \in Narrow THEN uecap \cup {bw} ELSE uecap

WriteRadio ==
    /\ step = "radio"
    /\ IF base = "legacy" \/ bw = 20
       THEN UNCHANGED <<radio, uecap>>
       ELSE /\ radio' = UeArguments(bw)
            /\ uecap' = UeCapability
    /\ step' = "done"
    /\ Requested
    /\ UNCHANGED rate

BandwidthNext == RewriteGnb \/ RewriteUe \/ RewriteTopology \/ WriteRadio

BandwidthSpec == BandwidthInit /\ [][BandwidthNext]_bwVars

-------------------------------------------------------------------------------
\* A pass that succeeded leaves the gNB, the srsUE and the broker's devices at
\* one sample rate, whatever file a failed pass stopped at.
RatesAgree == step = "done" => \A f \in Configs : rate[f] = Rate(bw)

\* The rate the nrUE derives from its arguments is the gNB's rate: the
\* smallest FFT (or three quarters of one) that holds its subcarriers.
Holding(b, num, den) ==
    {n \in Ffts : n * num >= 12 * Prb(b) * den}
UeRate(b, threeQuarters) ==
    LET num == IF threeQuarters THEN 3 ELSE 1
        den == IF threeQuarters THEN 4 ELSE 1
        fft == CHOOSE n \in Holding(b, num, den) : \A m \in Holding(b, num, den) : n <= m
    IN  (fft * num * Scs(b)) \div den

UeRateMatches ==
    radio # NoCarrier => UeRate(bw, radio.threeQuarters) = rate["gnb"]

\* The SSB the nrUE looks for is the one srsUE is tuned to at that bandwidth,
\* on the subcarrier grid and inside the carrier.
SsbPlaced ==
    radio # NoCarrier =>
        /\ PointA(bw) + (radio.ssb + 120) * Scs(bw) = Frequency(SsbArfcn(bw))
        /\ radio.ssb >= 0 /\ radio.ssb + 240 <= 12 * Prb(bw)

\* Unless the operator overrides it, a direction whose lower PHY is not on the
\* GPU keeps a pinned grid and one whose lower PHY is has a managed one.
GridMapped ==
    gridMode = "" =>
        /\ ("low_phy_rx" \in Enabled(stage)) = (Grid(stage, "ul") = "managed")
        /\ ("low_phy_tx" \in Enabled(stage)) = (Grid(stage, "dl") = "managed")
===============================================================================
