------------------------------ MODULE Samplers ------------------------------
(***************************************************************************)
(* The numeric side of the samplers: internal/collector/cpu, network,      *)
(* memory and hwidentity, and internal/blackbox's Sampler.  Each reads the *)
(* cumulative counters of devices that come, go and start again at zero,   *)
(* and publishes what changed since its last reading.                      *)
(*                                                                         *)
(* A device has two counters <<x, y>>: received and sent bytes of an       *)
(* interface, completed requests and their time of a disk, busy and idle   *)
(* time of a CPU, correctable and uncorrectable errors of a memory         *)
(* controller, energy and nothing else of a package.  The time between two *)
(* readings is the unit of the rates.                                      *)
(***************************************************************************)
EXTENDS Integers, Sequences, SequencesExt

CONSTANTS
  Devices,          \* sequence of the devices, by name
  MaxCounts,        \* bounds on the two counters
  Wrap,             \* 2^64, above every counter
  MaxBlockDevices,  \* devices a sample of the black box has room for
  MaxSwap, MaxResets

VARIABLES
  cur,          \* device -> counters, <<>> while it is not there
  prev,         \* the readings of the last sample
  energy,       \* prevEnergyUJ, -1 before the first reading
  errors,       \* prevEDACCe and prevEDACUe
  first,        \* prevAt is zero
  grown,        \* device -> what its counters advanced since the last sample
  steady,       \* no counter was reset, came or went since the first sample
  resets

sampleVars == <<cur, prev, energy, errors, first, grown, steady, resets>>

Names == ToSet(Devices)
Gone == <<>>

SamplersInit ==
  /\ cur = [d \in Names |-> Gone]
  /\ prev = [d \in Names |-> Gone]
  /\ energy = -1
  /\ errors = <<0, 0>>
  /\ first = TRUE
  /\ grown = [d \in Names |-> <<0, 0>>]
  /\ steady = TRUE
  /\ resets = 0

Advance(d, i) ==
  /\ cur[d] # Gone
  /\ cur[d][i] < MaxCounts[i]
  /\ cur' = [cur EXCEPT ![d][i] = @ + 1]
  /\ grown' = [grown EXCEPT ![d][i] = @ + 1]
  /\ UNCHANGED <<prev, energy, errors, first, steady, resets>>

\* A module is loaded again, an interface is plugged out or in; before the
\* first sample that is the host coming up.
Replace(d, counters) ==
  /\ counters # cur[d]
  /\ IF first THEN cur[d] = Gone /\ UNCHANGED resets
              ELSE resets < MaxResets /\ resets' = resets + 1
  /\ cur' = [cur EXCEPT ![d] = counters]
  /\ steady' = first
  /\ UNCHANGED <<prev, energy, errors, first, grown>>

Present(readings) == SelectSeq(Devices, LAMBDA d : readings[d] # Gone)

\* The subtraction of two unsigned counters.
Minus(a, b) == (a - b) % Wrap

\* The counters are taken to grow for ever.
deltaUnchecked(old, new) == Minus(new, old)

deltaUint64(old, new) == IF new < old THEN 0 ELSE Minus(new, old)

\* collectTraffic: interfaces there before, neither counter reset.
collectTraffic ==
  [d \in {n \in Names : /\ ~first
                        /\ prev[n] # Gone /\ cur[n] # Gone
                        /\ cur[n][1] >= prev[n][1] /\ cur[n][2] >= prev[n][2]}
     |-> <<Minus(cur[d][1], prev[d][1]), Minus(cur[d][2], prev[d][2])>>]

\* sampleBlockDevices has room for so many disks, and remembers only those.
Recorded(readings) ==
  LET there == Present(readings)
  IN  ToSet(SubSeq(there, 1, IF Len(there) < MaxBlockDevices THEN Len(there) ELSE MaxBlockDevices))

\* The time per request, of disks recorded before that completed some.
sampleBlockDevices ==
  [d \in {n \in Recorded(cur) : /\ ~first
                                /\ n \in Recorded(prev)
                                /\ deltaUint64(prev[n][1], cur[n][1]) > 0}
     |-> (deltaUint64(prev[d][2], cur[d][2]) * 1000) \div deltaUint64(prev[d][1], cur[d][1])]

\* sampleInterrupts of the CPUs that were there.
sampleInterrupts ==
  [d \in {n \in Names : ~first /\ prev[n] # Gone /\ cur[n] # Gone}
     |-> deltaUint64(prev[d][1], cur[d][1])]

\* sampleCPUFreqAndThrottle: the CPUs whose throttle count grew.
sampleCPUFreqAndThrottle ==
  {d \in Names : prev[d] # Gone /\ cur[d] # Gone /\ cur[d][1] > prev[d][1]}

\* cpuUsageRatio in hundredths, when time went by.
cpuStatTotal(c) == c[1] + c[2]
cpuUsageRatio(old, new) ==
  LET total == cpuStatTotal(new) - cpuStatTotal(old)
      ratio == (100 * (total - (new[2] - old[2]))) \div total
  IN  IF ratio < 0 THEN 0 ELSE IF ratio > 100 THEN 100 ELSE ratio

\* cpuBusyRatio of the black box has no upper limit.
cpuBusyRatio(old, new) ==
  LET total == cpuStatTotal(new) - cpuStatTotal(old)
      busy == total - (new[2] - old[2])
  IN  (100 * (IF busy < 0 THEN 0 ELSE busy)) \div total

CPUs == {d \in Names : /\ ~first
                       /\ prev[d] # Gone /\ cur[d] # Gone
                       /\ cpuStatTotal(cur[d]) > cpuStatTotal(prev[d])}

\* Collect of the cpu collector, and sampleCPU.
CollectCPU == [d \in CPUs |-> cpuUsageRatio(prev[d], cur[d])]
sampleCPU == [d \in CPUs |-> cpuBusyRatio(prev[d], cur[d])]

\* readRAPLWatts of the first device: -1 when there is nothing to say.
readRAPLWatts ==
  LET d == Devices[1]
  IN  IF cur[d] = Gone \/ energy = -1 THEN -1
      ELSE IF cur[d][1] < energy THEN -1 ELSE Minus(cur[d][1], energy)

\* The counters of all memory controllers that can be read.
Sums == FoldLeft(LAMBDA sum, d : <<sum[1] + cur[d][1], sum[2] + cur[d][2]>>,
                 <<0, 0>>, Present(cur))

sampleEDAC ==
  IF first \/ Present(cur) = <<>> THEN <<0, 0>>
  ELSE <<deltaUint64(errors[1], Sums[1]), deltaUint64(errors[2], Sums[2])>>

\* sampleMemory: swap in use, unless the two readings contradict each other.
sampleMemory(total, free) == IF total >= free THEN Minus(total, free) ELSE 0

\* Sample, and a Collect of each collector, publish the values above and keep
\* the readings.
Sample ==
  /\ prev' = cur
  /\ energy' = IF cur[Devices[1]] = Gone THEN energy ELSE cur[Devices[1]][1]
  /\ errors' = IF Present(cur) = <<>> THEN errors ELSE Sums
  /\ first' = FALSE
  /\ grown' = [d \in Names |-> <<0, 0>>]
  /\ UNCHANGED <<cur, steady, resets>>

SamplersNext ==
  \/ \E d \in Names, i \in 1 .. 2 : Advance(d, i)
  \/ \E d \in Names, c \in {Gone, <<0, 0>>} : Replace(d, c)
  \/ Sample

SamplersSpec == SamplersInit /\ [][SamplersNext]_sampleVars

-----------------------------------------------------------------------------
SamplersTypeOK ==
  /\ \A d \in Names, r \in {cur, prev} : r[d] = Gone \/ r[d] \in (0 .. MaxCounts[1]) \X (0 .. MaxCounts[2])
  /\ energy \in -1 .. MaxCounts[1]
  /\ resets \in 0 .. MaxResets

\* A sample taken now publishes no more than the counters advanced since the
\* one before, whichever devices came, went or started again at zero in between;
\* a CPU is at most fully used, and for the black box too while its idle time
\* does not go back; power and memory errors are those since the last sample
\* while no device comes or goes.
RatesAreSane ==
  /\ \A d \in DOMAIN collectTraffic :
       collectTraffic[d][1] <= grown[d][1] /\ collectTraffic[d][2] <= grown[d][2]
  /\ \A d \in DOMAIN sampleInterrupts : sampleInterrupts[d] <= grown[d][1]
  /\ \A d \in DOMAIN sampleBlockDevices : sampleBlockDevices[d] <= 1000 * grown[d][2]
  /\ \A d \in sampleCPUFreqAndThrottle : grown[d][1] > 0
  /\ \A d \in CPUs : CollectCPU[d] \in 0 .. 100
  /\ steady =>
       /\ \A d \in CPUs : sampleCPU[d] \in 0 .. 100
       /\ readRAPLWatts <= grown[Devices[1]][1]
       /\ sampleEDAC[1] <= FoldLeft(LAMBDA s, d : s + grown[d][1], 0, Devices)
       /\ sampleEDAC[2] <= FoldLeft(LAMBDA s, d : s + grown[d][2], 0, Devices)
  /\ \A total, free \in 0 .. MaxSwap : sampleMemory(total, free) <= MaxSwap
=============================================================================
