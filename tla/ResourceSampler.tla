-------------------------- MODULE ResourceSampler --------------------------
(***************************************************************************)
(* The resource thread of the dashboard (apps/dashboard/server.py):        *)
(* gpu_usage_loop samples the host and the GPU through NVML, each quantity *)
(* at a cadence of its own with the last reading carried forward, and falls *)
(* back to nvidia-smi for good when NVML fails.                            *)
(*                                                                         *)
(* One GPU.  A reading is known by the number of the sample that took it;  *)
(* 0 means none.  Processes of the two roles come and go, and the kernel   *)
(* may give a pid to a new process.                                        *)
(***************************************************************************)
EXTENDS Integers, SequencesExt

CONSTANTS
  Pid,             \* process ids of the watched roles
  UtilInterval,    \* PROCESS_UTILIZATION_INTERVAL_SECONDS
  PcieInterval,    \* PCIE_REFRESH_INTERVAL_SECONDS
  SmHold,          \* the 1.2 s a utilisation is carried forward
  GpuRetain,       \* GPU_HISTORY_RETAIN_MS
  GpuEntries,      \* GPU_HISTORY_MAX_ENTRIES
  MaxSampleClock   \* bound of the model

ASSUME SamplerAssumption ==
  /\ {UtilInterval, PcieInterval, GpuEntries, MaxSampleClock} \subseteq Nat \ {0}
  /\ {SmHold, GpuRetain} \subseteq Nat

VARIABLES
  sclock,    \* monotonic clock and wall clock
  alive,     \* the processes that run and hold memory of the GPU
  nvml,      \* NvmlResourceSampler
  hostPrev,  \* HostResourceSampler._previous_processes: the sample each pid is from
  gpuLoop,   \* gpu_usage_loop
  usage,     \* StatusStore._gpu_usage: the last payload
  gpuHistory,\* StatusStore._gpu_history
  absent     \* history: the last sample that did not find a pid

samplerVars == << sclock, alive, nvml, hostPrev, gpuLoop, usage, gpuHistory, absent >>

NoReadings == [p \in {} |-> 0]

\* The sampler as __init__ leaves it: nothing read yet, every cadence due.
NewNvml == [open |-> TRUE, shutdowns |-> 0, utilAt |-> -UtilInterval, pcieAt |-> -PcieInterval,
            sm |-> NoReadings, smAt |-> NoReadings, pcie |-> 0]

SamplerInit ==
  /\ sclock = 0
  /\ alive = {}
  /\ nvml = NewNvml
  /\ hostPrev = NoReadings
  /\ gpuLoop = [pc |-> "sample", backend |-> "nvml", n |-> 0]
  /\ usage = [rows |-> NoReadings, cpu |-> NoReadings, pcie |-> 0, available |-> TRUE, n |-> 0]
  /\ gpuHistory = << >>
  /\ absent = [p \in Pid |-> 0]

(***************************************************************************)
(* Retained histories; telemetry and iterations are kept the same way.     *)
(***************************************************************************)

\* trim_history: the stale prefix goes, then all but the last `max' entries.
TrimHistory(entries, t, retain, max) ==
  LET kept == SelectInSeq(entries, LAMBDA e : e >= t - retain)
      young == IF kept = 0 THEN << >> ELSE SubSeq(entries, kept, Len(entries))
  IN  SubSeq(young, Max({0, Len(young) - max}) + 1, Len(young))

\* slice_history: walks back from the newest entry to the first that is too old.
SliceHistory(entries, window) ==
  IF entries = << >> THEN << >>
  ELSE SubSeq(entries,
         SelectLastInSeq(entries, LAMBDA e : e < Last(entries) - window) + 1, Len(entries))

(***************************************************************************)
(* One sample.                                                             *)
(***************************************************************************)

\* Readings of processes that are gone are dropped.
ForgetGone(f) == RestrictDomain(f, LAMBDA p : p \in alive)

\* _process_utilization: the driver has something new for the pids in new.
Utilisation(f, new, x) ==
  [p \in DOMAIN f \cup new |-> IF p \in new THEN x ELSE f[p]]

\* HostResourceSampler.sample: a CPU share needs the same pid in the sample
\* before; the value names that sample.
CpuShares ==
  [p \in alive \cap DOMAIN hostPrev |-> hostPrev[p]]

\* NvmlResourceSampler.sample and build_resource_payload.
SampleNvml(new) ==
  LET n == gpuLoop.n + 1
      due == sclock - nvml.utilAt >= UtilInterval
      duePcie == sclock - nvml.pcieAt >= PcieInterval
      sm == IF due THEN Utilisation(nvml.sm, new, n) ELSE nvml.sm
      smAt == IF due THEN Utilisation(nvml.smAt, new, sclock) ELSE nvml.smAt
      pcie == IF duePcie THEN IF alive # {} THEN n ELSE 0 ELSE nvml.pcie
      held == {p \in alive \cap DOMAIN sm : sclock - smAt[p] <= SmHold}
  IN  /\ nvml' = [nvml EXCEPT !.utilAt = IF due THEN sclock ELSE @,
                              !.pcieAt = IF duePcie THEN sclock ELSE @,
                              !.sm = ForgetGone(sm), !.smAt = ForgetGone(smAt), !.pcie = pcie]
      /\ usage' = [rows |-> [p \in alive |-> IF p \in held THEN sm[p] ELSE 0],
                   cpu |-> CpuShares, pcie |-> pcie, available |-> TRUE, n |-> n]

\* sample_gpu_usage: nvidia-smi, whose required queries may fail; nothing is
\* carried over.
SampleSmi(ok) ==
  usage' = [rows |-> IF ok THEN [p \in alive |-> gpuLoop.n + 1] ELSE NoReadings,
            cpu |-> CpuShares, pcie |-> IF ok THEN gpuLoop.n + 1 ELSE 0,
            available |-> ok, n |-> gpuLoop.n + 1]

\* What every sample leaves behind: HostResourceSampler, update_gpu_usage, the wait.
Sampled ==
  /\ hostPrev' = [p \in alive |-> gpuLoop.n + 1]
  /\ gpuHistory' = TrimHistory(Append(gpuHistory, sclock), sclock, GpuRetain, GpuEntries)
  /\ absent' = [p \in Pid |-> IF p \in alive THEN absent[p] ELSE gpuLoop.n + 1]
  /\ UNCHANGED << sclock, alive >>

LoopNvml(new) ==
  /\ gpuLoop.pc = "sample" /\ gpuLoop.backend = "nvml"
  /\ SampleNvml(new)
  /\ gpuLoop' = [gpuLoop EXCEPT !.pc = "wait", !.n = @ + 1]
  /\ Sampled

\* NvmlResourceSampler.close
Closed == IF nvml.open THEN [nvml EXCEPT !.open = FALSE, !.shutdowns = @ + 1] ELSE nvml

\* The NVML sampler is given up.
Fallback == [gpuLoop EXCEPT !.pc = "wait", !.n = @ + 1, !.backend = "nvidia-smi"]

\* NVML fails: it is shut down, and the fallback takes this sample.
LoopNvmlFails(ok) ==
  /\ gpuLoop.pc = "sample" /\ gpuLoop.backend = "nvml"
  /\ nvml' = Closed
  /\ SampleSmi(ok)
  /\ gpuLoop' = Fallback
  /\ Sampled

LoopSmi(ok) ==
  /\ gpuLoop.pc = "sample" /\ gpuLoop.backend = "nvidia-smi"
  /\ SampleSmi(ok)
  /\ gpuLoop' = [gpuLoop EXCEPT !.pc = "wait", !.n = @ + 1]
  /\ UNCHANGED nvml
  /\ Sampled

\* stop: the sampler still in use is closed.
GpuLoopStops ==
  /\ gpuLoop.pc = "wait"
  /\ gpuLoop' = [gpuLoop EXCEPT !.pc = "done"]
  /\ nvml' = IF gpuLoop.backend = "nvml" THEN Closed ELSE nvml
  /\ UNCHANGED << sclock, alive, hostPrev, usage, gpuHistory, absent >>

\* Time passes between two samples; processes exit and start.
SamplerTick(now) ==
  /\ gpuLoop.pc = "wait" /\ sclock < MaxSampleClock
  /\ sclock' = sclock + 1
  /\ alive' = now
  /\ gpuLoop' = [gpuLoop EXCEPT !.pc = "sample"]
  /\ UNCHANGED << nvml, hostPrev, usage, gpuHistory, absent >>

SamplerNext ==
  \/ \E new \in SUBSET Pid : LoopNvml(new)
  \/ \E ok \in BOOLEAN : LoopNvmlFails(ok)
  \/ \E ok \in BOOLEAN : LoopSmi(ok)
  \/ GpuLoopStops
  \/ \E now \in SUBSET Pid : SamplerTick(now)

SamplerSpec == SamplerInit /\ [][SamplerNext]_samplerVars

(***************************************************************************)
(* Properties.                                                             *)
(***************************************************************************)

\* A utilisation or CPU share shown for a pid was read after the last sample
\* that did not find the pid: a process never inherits the readings of another
\* that had its pid, although readings are carried forward.
NoGhostReading ==
  \A p \in Pid :
    /\ p \in DOMAIN usage.rows /\ usage.rows[p] # 0 => usage.rows[p] > absent[p]
    /\ p \in DOMAIN usage.cpu => usage.cpu[p] > absent[p]

\* NVML is never used after it was shut down, and shut down once when the
\* thread has ended, whether it failed or not.
NvmlLifetime ==
  /\ gpuLoop.backend = "nvml" /\ gpuLoop.pc # "done" => nvml.open
  /\ gpuLoop.pc = "done" => nvml.shutdowns = 1

\* The history holds the last GpuEntries samples of the last GpuRetain, and the
\* walk of slice_history finds exactly those of the window asked for.
HistoryExact ==
  /\ \A i \in DOMAIN gpuHistory : gpuHistory[i] >= Last(gpuHistory) - GpuRetain
  /\ gpuHistory # << >> => Last(gpuHistory) = IF gpuLoop.pc = "sample" THEN sclock - 1 ELSE sclock
  /\ \A window \in 0 .. MaxSampleClock :
       SliceHistory(gpuHistory, window) =
         SelectSeq(gpuHistory, LAMBDA e : e >= Last(gpuHistory) - window)
=============================================================================
