------------------------------ MODULE HostMeter ------------------------------
(***************************************************************************)
(* How the host measures the energy it charges to its VMs.  Each cycle the *)
(* exporter reads every counter of the platform twice: once to refresh the *)
(* sockets, once for the total of the host, which goes into a bounded      *)
(* record buffer.  The difference of the last two totals is the energy of  *)
(* the interval; the enclave splits it over the VMs by CPU usage, provided *)
(* that no tag it is shown is wrong.                                       *)
(*                                                                         *)
(* A tag is made by eBPF in one slot per socket.  In a "seeded" build the  *)
(* exporter writes each reading into the slot and a probe on the timer     *)
(* interrupt tags it; in a "kernel" build a probe on the kernel's read     *)
(* fills the slot and tags it, and the timer probe is attached as well.    *)
(* The timer probe runs on any CPU, so its look at the slot and its two    *)
(* writes may fall between any two steps of the exporter.                  *)
(*                                                                         *)
(* A tag covers energy and timestamp of one reading.  The slot keeps only  *)
(* whether the tag is that of its reading; the energy of a tagged reading  *)
(* is not compared with the total, and a reading of a memory domain, whose *)
(* tag is never collected, touches no slot.                                *)
(***************************************************************************)
EXTENDS Integers, Sequences, FiniteSetsExt

CONSTANTS
    Count,        \* sockets of the host, numbered 1..Count
    Vms,          \* VMs running on it
    Cores,        \* CPU cores; the usage of a VM is a number of cores
    MaxRange,     \* max_energy_range_uj + 1: a counter wraps to 0 there
    Before,       \* what the counters may show when the exporter starts
    RecordSize,   \* size of a record in the buffer (48 bytes)
    BufferBytes,  \* buffer_max_kbytes * 1000 (1000 bytes)
    FaultSets,    \* which failures may come together in one behaviour
    MaxBurned,    \* bound: energy burned
    MaxGlitches   \* bound: failed readings and restarts

MapEntries == 64  \* MAX_RAPL_ENTRIES, four slots per socket
Probed     == 8   \* the slots auto_compute_hash looks at

FaultKinds ==
    { "read",      \* a counter cannot be read
      "wrap",      \* a counter reaches its range and starts again at 0
      "overlap",   \* the timer probe is interrupted by steps of the exporter
      "write",     \* the update of a VM's files fails
      "restart" }  \* exporter and enclave start again, with new probes

ASSUME MeterAssumption ==
    /\ Count \in Nat \ {0}
    /\ IsFiniteSet(Vms)
    /\ Cores \in Nat \ {0}
    /\ MaxRange \in Nat \ {0}
    /\ Before \subseteq 0..(MaxRange - 1)
    /\ RecordSize \in Nat \ {0}
    /\ BufferBytes \in Nat
    /\ FaultSets \subseteq SUBSET FaultKinds
    /\ MaxBurned \in Nat
    /\ MaxGlitches \in Nat

VARIABLES
    \* the platform; all but the counters are chosen once
    parts,      \* what there is besides the packages: "dram", "psys"
    capture,    \* how readings are tagged: "seeded" or "kernel"
    faults,
    counter,    \* energy_uj of each counter
    \* eBPF
    slot,       \* rapl_hash_map: the package slot of each socket
    probe,      \* auto_compute_hash on that slot
    \* exporter
    pc,
    pass,       \* "refresh" of the sockets or reading of the "total"
    at,         \* the counter or socket it is at
    sum,        \* energy read so far in the pass
    totals,     \* record_buffer of the topology
    diff,       \* energy of the interval
    tags,       \* tags of the readings collected for the request
    \* enclave
    reply,      \* the updates in its response
    status,     \* status of the last response
    \* the files of the VMs
    charged,    \* energy written to them, one update after the other
    \* history, read by no action except for the bounds
    burned,     \* energy burned by each counter
    metered,    \* energy of the intervals the enclave accepted
    first,      \* the first total that was recorded
    glitches    \* failed readings and restarts

platform == <<parts, capture, faults>>
ebpf     == <<slot, probe>>
exporter == <<pc, pass, at, sum, totals, diff, tags>>
enclave  == <<reply, status, charged>>
history  == <<burned, metered, first, glitches>>
vars     == <<platform, counter, ebpf, exporter, enclave, history>>

-----------------------------------------------------------------------------

Sockets  == 1..Count
Psys     == <<"psys", 0>>
Pkg(s)   == <<"pkg", s>>
Dram(s)  == <<"dram", s>>
Counters == {Psys} \cup {Pkg(s) : s \in Sockets} \cup {Dram(s) : s \in Sockets}

\* The counters in the order in which a pass reads them.
Packages == [s \in Sockets |-> Pkg(s)]
Summed ==
    IF "dram" \in parts
    THEN [k \in 1..(2 * Count) |->
            IF k % 2 = 1 THEN Pkg((k + 1) \div 2) ELSE Dram(k \div 2)]
    ELSE Packages
Order == IF pass = "refresh" THEN Packages ELSE Summed

\* What the total of the host stands for while every reading succeeds.
Metered ==
    IF "psys" \in parts THEN {Psys} ELSE {Summed[k] : k \in DOMAIN Summed}

Tags      == {"none", "right", "other_producer", "stale"}
EmptySlot == [full |-> FALSE, tag |-> "none", valid |-> FALSE]
SlotType  == [full : BOOLEAN, tag : Tags, valid : BOOLEAN]

SumOver(f, S) == MapThenSumSet(LAMBDA x : f[x], S)

Unknown == -1

Init ==
    /\ parts \in SUBSET {"dram", "psys"}
    /\ capture \in {"seeded", "kernel"}
    /\ faults \in FaultSets
    /\ \E b \in Before : counter = [c \in Counters |-> b]
    /\ slot = [s \in Sockets |-> EmptySlot]
    /\ probe = [s \in Sockets |-> "off"]
    /\ pc = "idle" /\ pass = "refresh" /\ at = 1 /\ sum = 0
    /\ totals = << >> /\ diff = 0 /\ tags = {}
    /\ reply = [v \in Vms |-> 0] /\ status = 0
    /\ charged = [v \in Vms |-> 0]
    /\ burned = [c \in Counters |-> 0]
    /\ metered = 0 /\ first = Unknown /\ glitches = 0

\* The hardware uses energy.
Burn(c) ==
    /\ SumOver(burned, Counters) < MaxBurned
    /\ c \in Metered \cup {Summed[k] : k \in DOMAIN Summed}
    /\ counter[c] + 1 < MaxRange \/ "wrap" \in faults
    /\ counter' = [counter EXCEPT ![c] = (@ + 1) % MaxRange]
    /\ burned' = [burned EXCEPT ![c] = @ + 1]
    /\ UNCHANGED <<platform, ebpf, exporter, enclave, metered, first,
                   glitches>>

-----------------------------------------------------------------------------
(* The timer probe: auto_compute_hash. *)

HasSlot(s) == 4 * (s - 1) < MapEntries
Looks(s) ==
    /\ 4 * (s - 1) < Probed
    /\ probe[s] = "off"
    /\ slot[s].full /\ ~slot[s].valid

TimerTag == IF capture = "seeded" THEN "right" ELSE "other_producer"

\* Between two steps of the exporter.
TagSlot(s) ==
    /\ Looks(s)
    /\ slot' = [slot EXCEPT ![s].tag = TimerTag, ![s].valid = TRUE]
    /\ UNCHANGED <<platform, counter, probe, exporter, enclave, history>>

\* Or in three steps: it reads the slot, stores the hash, sets valid.
LookAtSlot(s) ==
    /\ "overlap" \in faults
    /\ Looks(s)
    /\ probe' = [probe EXCEPT ![s] = "looked"]
    /\ UNCHANGED <<platform, counter, slot, exporter, enclave, history>>

StoreHash(s) ==
    /\ probe[s] \in {"looked", "outdated"}
    /\ slot' = [slot EXCEPT ![s].tag = IF probe[s] = "looked" THEN TimerTag
                                                             ELSE "stale"]
    /\ probe' = [probe EXCEPT ![s] = "hashed"]
    /\ UNCHANGED <<platform, counter, exporter, enclave, history>>

SetValid(s) ==
    /\ probe[s] = "hashed"
    /\ slot' = [slot EXCEPT ![s].valid = TRUE]
    /\ probe' = [probe EXCEPT ![s] = "off"]
    /\ UNCHANGED <<platform, counter, exporter, enclave, history>>

\* A probe that has read the slot misses what is written to it from now on.
Outdate(s) ==
    probe' = [probe EXCEPT ![s] = IF @ = "looked" THEN "outdated" ELSE @]

-----------------------------------------------------------------------------
(* Reading the counters. *)

Add(energy) == IF pass = "total" THEN sum + energy ELSE sum

StartCycle ==
    /\ pc = "idle"
    /\ pc' = "read"
    /\ UNCHANGED <<platform, counter, ebpf, pass, at, sum, totals, diff, tags,
                   enclave, history>>

\* Mutant: the slot keeps tag and flag of the reading before.
StoreKeepsTag(s, e) ==
    slot' = [slot EXCEPT ![s].full = (e # 0),
                         ![s].tag = IF @ = "right" THEN "stale" ELSE @]

\* compute_and_store_hash writes the reading, without a tag.
StoreReading(s, e) ==
    slot' = [slot EXCEPT ![s] =
                [full |-> e # 0, tag |-> "none", valid |-> FALSE]]

\* The exporter reads the energy_uj of a package.  In a seeded build it then
\* writes the reading into the slot; in a kernel build it leaves a hint that
\* makes the kernel's read clear the slot first.
ReadPackage ==
    /\ pc = "read"
    /\ at \in DOMAIN Order
    /\ LET c == Order[at]
           s == c[2]
       IN  /\ c = Pkg(s)
           /\ IF capture = "seeded"
              THEN /\ sum' = Add(counter[c])
                   /\ IF HasSlot(s)
                      THEN StoreReading(s, counter[c]) /\ Outdate(s)
                      ELSE UNCHANGED <<slot, probe>>
              ELSE /\ slot' = IF HasSlot(s)
                              THEN [slot EXCEPT ![s].valid = FALSE] ELSE slot
                   /\ UNCHANGED <<sum, probe>>
    /\ pc' = "settle"
    /\ UNCHANGED <<platform, counter, pass, at, totals, diff, tags, enclave,
                   history>>

\* After 100 us without a tag compute_and_store_hash writes the same reading
\* again.
SettleSeeded ==
    /\ pc = "settle" /\ capture = "seeded"
    /\ LET s == Order[at][2]
       IN  slot' = IF slot[s].valid
                   THEN slot
                   ELSE [slot EXCEPT ![s].tag = "none", ![s].valid = FALSE]
    /\ pc' = "read" /\ at' = at + 1
    /\ UNCHANGED <<platform, counter, probe, pass, sum, totals, diff, tags,
                   enclave, history>>

\* trace_rapl_read_ret fills the slot with what the kernel read and tags it;
\* when the read failed, the slot stays as it is.
SettleKernel ==
    /\ pc = "settle" /\ capture = "kernel"
    /\ LET c == Order[at]
           s == c[2]
       IN  \/ /\ sum' = Add(counter[c])
              /\ IF HasSlot(s) /\ counter[c] # 0
                 THEN /\ slot' = [slot EXCEPT ![s] =
                            [full |-> TRUE, tag |-> "right", valid |-> TRUE]]
                      /\ Outdate(s)
                 ELSE UNCHANGED <<slot, probe>>
              /\ UNCHANGED glitches
           \/ /\ "read" \in faults /\ glitches < MaxGlitches
              /\ glitches' = glitches + 1
              /\ UNCHANGED <<sum, slot, probe>>
    /\ pc' = "read" /\ at' = at + 1
    /\ UNCHANGED <<platform, counter, pass, totals, diff, tags, enclave,
                   burned, metered, first>>

ReadDram ==
    /\ pc = "read"
    /\ at \in DOMAIN Order
    /\ Order[at][1] = "dram"
    /\ sum' = Add(counter[Order[at]])
    /\ at' = at + 1
    /\ UNCHANGED <<platform, counter, ebpf, pc, pass, totals, diff, tags,
                   enclave, history>>

\* A counter that cannot be read is left out of the total.
ReadFails ==
    /\ pc = "read"
    /\ at \in DOMAIN Order
    /\ "read" \in faults /\ glitches < MaxGlitches
    /\ glitches' = glitches + 1
    /\ at' = at + 1
    /\ UNCHANGED <<platform, counter, ebpf, pc, pass, sum, totals, diff, tags,
                   enclave, burned, metered, first>>

-----------------------------------------------------------------------------
(* The total of the host. *)

\* Mutant: the newest records are removed, as they would be by pop.
CleanNewRecords(b) ==
    LET excess == Len(b) * RecordSize - BufferBytes
    IN  IF excess > RecordSize
        THEN SubSeq(b, 1, Len(b) + 1 - excess \div RecordSize) ELSE b

\* clean_old_records: a buffer that is too large by n records loses the n - 1
\* oldest.
CleanOldRecords(b) ==
    LET excess == Len(b) * RecordSize - BufferBytes
    IN  IF excess > RecordSize
        THEN SubSeq(b, excess \div RecordSize, Len(b)) ELSE b

\* Mutant: a total smaller than the one before is not told apart.
IntervalSigned(b) == IF Len(b) > 1 THEN {b[Len(b)] - b[Len(b) - 1]} ELSE {}

\* Mutant: the interval starts at the oldest record.
IntervalFromOldest(b) ==
    IF Len(b) > 1 /\ Head(b) <= b[Len(b)] THEN {b[Len(b)] - Head(b)} ELSE {}

\* get_records_diff_energy_microjoules: the energy between the last two
\* records, or none.
Interval(b) ==
    IF Len(b) > 1 /\ b[Len(b) - 1] <= b[Len(b)]
    THEN {b[Len(b)] - b[Len(b) - 1]} ELSE {}

\* The cycle is over, and with it its local variables.
Rest ==
    pc' = "idle" /\ pass' = "refresh" /\ at' = 1 /\ sum' = 0
      /\ diff' = 0 /\ tags' = {}

\* refresh_record of the topology, and what iterate makes of it.
Record(total) ==
    LET b == CleanOldRecords(Append(totals, total))
    IN  /\ totals' = b
        /\ first' = IF first = Unknown THEN total ELSE first
        /\ \/ Interval(b) = {} /\ Rest
           \/ /\ pc' = "collect" /\ diff' \in Interval(b)
              /\ pass' = "refresh" /\ at' = 1 /\ sum' = 0
              /\ UNCHANGED tags

\* The sockets are refreshed: the total is that of the platform counter, if
\* there is one and it can be read ...
ReadPlatform ==
    /\ pc = "read" /\ pass = "refresh" /\ at = Count + 1
    /\ "psys" \in parts
    /\ Record(counter[Psys])
    /\ UNCHANGED <<platform, counter, ebpf, enclave, burned, metered,
                   glitches>>

\* ... and the sum of the others if not.
StartSum ==
    /\ pc = "read" /\ pass = "refresh" /\ at = Count + 1
    /\ \/ "psys" \notin parts /\ UNCHANGED glitches
       \/ /\ "psys" \in parts
          /\ "read" \in faults /\ glitches < MaxGlitches
          /\ glitches' = glitches + 1
    /\ pass' = "total" /\ sum' = 0 /\ at' = 1
    /\ UNCHANGED <<platform, counter, ebpf, pc, totals, diff, tags, enclave,
                   burned, metered, first>>

RecordSum ==
    /\ pc = "read" /\ pass = "total" /\ at = Len(Order) + 1
    /\ Record(sum)
    /\ UNCHANGED <<platform, counter, ebpf, enclave, burned, metered,
                   glitches>>

-----------------------------------------------------------------------------
(* The request to the enclave. *)

\* get_reading of the next socket: only a valid one is collected.  The slot is
\* copied while the probe may be writing it, hash before valid, so that valid
\* may be of a later moment than the hash.
CollectReading ==
    /\ pc = "collect"
    /\ at \in Sockets
    /\ HasSlot(at) => \/ /\ slot[at].valid \/ probe[at] # "off"
                         /\ tags' = tags \cup {slot[at].tag}
                      \/ ~slot[at].valid /\ tags' = tags
    /\ HasSlot(at) \/ tags' = tags
    /\ at' = at + 1
    /\ UNCHANGED <<platform, counter, ebpf, pc, pass, sum, totals, diff,
                   enclave, history>>

\* The tag check of ecall_compute_vm_energy_simple.
TagsOk == tags \subseteq {"right"}

\* iterate_compact: the part of the energy a VM is charged with, truncated.
Share(usage, e) == (usage * e) \div Cores

\* The request reaches the enclave.  One wrong tag rejects the whole cycle;
\* otherwise every VM is given its share of the energy.
Compute ==
    /\ pc = "collect" /\ at = Count + 1
    /\ IF TagsOk
       THEN /\ \E usage \in [Vms -> 0..Cores] :
                  /\ SumOver(usage, Vms) <= Cores
                  /\ reply' = [v \in Vms |-> Share(usage[v], diff)]
            /\ status' = 0
       ELSE status' = -2 /\ UNCHANGED reply
    /\ pc' = "answer"
    /\ UNCHANGED <<platform, counter, ebpf, pass, at, sum, totals, diff, tags,
                   charged, history>>

\* The runner writes the updates of an accepted request, VM by VM, and
\* ignores a write that fails.
WriteUpdates ==
    /\ pc = "answer" /\ status = 0
    /\ \E lost \in SUBSET Vms :
          /\ lost # {} => "write" \in faults /\ glitches < MaxGlitches
          /\ glitches' = IF lost = {} THEN glitches ELSE glitches + 1
          /\ charged' = [v \in Vms |->
                            IF v \in lost THEN charged[v]
                                          ELSE charged[v] + reply[v]]
    /\ metered' = metered + diff
    /\ reply' = [v \in Vms |-> 0]
    /\ Rest
    /\ UNCHANGED <<platform, counter, ebpf, totals, status, burned, first>>

\* A rejected cycle is given up.
Rejected ==
    /\ pc = "answer" /\ status # 0
    /\ Rest
    /\ UNCHANGED <<platform, counter, ebpf, totals, enclave, history>>

\* The exporter starts again, with new probes and an empty map.
Restart ==
    /\ "restart" \in faults /\ glitches < MaxGlitches
    /\ glitches' = glitches + 1
    /\ slot' = [s \in Sockets |-> EmptySlot]
    /\ probe' = [s \in Sockets |-> "off"]
    /\ Rest
    /\ totals' = << >> /\ first' = Unknown /\ metered' = 0
    /\ reply' = [v \in Vms |-> 0] /\ status' = 0
    /\ UNCHANGED <<platform, counter, charged, burned>>

ReadCounters == ReadPackage \/ SettleSeeded \/ SettleKernel \/ ReadDram
Cycle == StartCycle \/ ReadCounters \/ ReadPlatform \/ StartSum
           \/ RecordSum \/ CollectReading \/ Compute \/ WriteUpdates
           \/ Rejected
Timer(s) == TagSlot(s) \/ LookAtSlot(s) \/ StoreHash(s) \/ SetValid(s)

Next ==
    \/ \E c \in Counters : Burn(c)
    \/ \E s \in Sockets : Timer(s)
    \/ Cycle \/ ReadFails \/ Restart

Spec == Init /\ [][Next]_vars

\* The exporter's loop sleeps five seconds and goes on.
FairSpec == Spec /\ WF_vars(Cycle)

-----------------------------------------------------------------------------
(* Properties *)

\* Every variable keeps its type, and the buffer never outgrows its size by
\* more than two records.
TypeOK ==
    /\ parts \subseteq {"dram", "psys"} /\ capture \in {"seeded", "kernel"}
    /\ faults \in FaultSets
    /\ counter \in [Counters -> 0..(MaxRange - 1)]
    /\ slot \in [Sockets -> SlotType]
    /\ probe \in [Sockets -> {"off", "looked", "outdated", "hashed"}]
    /\ pc \in {"idle", "read", "settle", "collect", "answer"}
    /\ pass \in {"refresh", "total"}
    /\ at \in Nat \ {0} /\ sum \in Nat
    /\ totals \in Seq(Nat) /\ diff \in Nat /\ tags \subseteq Tags
    /\ Len(totals) * RecordSize < BufferBytes + 2 * RecordSize
    /\ reply \in [Vms -> Nat] /\ status \in {0, -2}
    /\ charged \in [Vms -> Nat]
    /\ burned \in [Counters -> Nat] /\ metered \in Nat
    /\ first \in Nat \cup {Unknown} /\ glitches \in Nat

\* While every counter can be read, the VMs together are never charged more
\* than the hardware burned, over any number of intervals, wraps, restarts
\* and rejected cycles.
NeverOvercharged ==
    "read" \notin faults
        => SumOver(charged, Vms) <= SumOver(burned, Metered)

\* The enclave reports tampering only if the timer probe overlapped with the
\* exporter or if, in a kernel build, a read failed or found a counter at 0:
\* then the timer probe's tag, made for the other producer, stays in the slot.
NoFalseAlarm ==
    status = -2 => \/ "overlap" \in faults
                   \/ capture = "kernel" /\ {"read", "wrap"} \cap faults # {}

\* Nothing that is burned is left out for good or metered twice: when the
\* hardware rests, the accepted intervals make up all it burned since the
\* first total.
EverythingMetered ==
    faults = {} => []<>(first # Unknown
                          /\ metered = SumOver(counter, Metered) - first)

=============================================================================
