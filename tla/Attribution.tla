----------------------------- MODULE Attribution -----------------------------
(***************************************************************************)
(* How the energy of one cycle is split over processes.                    *)
(* attribute_by_weight gives each process the floor of its proportional    *)
(* share, and what is left to the heaviest; handle_db_export weighs the    *)
(* processes of a VM by CPU ticks and handle_gpu_db_export those of a card *)
(* by utilisation.  Shares of nothing are not recorded, and energy that no *)
(* process can be charged with is recorded under a name of its own.        *)
(*                                                                         *)
(* Buckets and records are kept at the position of the process they are    *)
(* for, so that both are functions on some of the positions.               *)
(*                                                                         *)
(* A request goes from any inputs to the records they give in one step.    *)
(* Products are computed with 128 bits in the code and cannot overflow.    *)
(***************************************************************************)
EXTENDS Integers, Sequences, SequencesExt, Functions

CONSTANTS
    PerCycle,    \* MAX_UJ_PER_CYCLE (4 * 10^9 in the code)
    FullUtil,    \* the utilisation of a whole card (100 in the code)
    MaxDelta,    \* bound: energy of a cycle
    MaxWeight,   \* bound: ticks or utilisation of a process
    MaxProcs     \* bound: processes

ASSUME AttributionAssumption ==
    /\ PerCycle \in Nat
    /\ FullUtil \in Nat \ {0}
    /\ MaxDelta \in Nat
    /\ MaxWeight \in Nat
    /\ MaxProcs \in Nat

VARIABLES
    delta,   \* the energy of the cycle
    procs,   \* ticks or utilisation of each process
    cpu,     \* the records handle_db_export makes of them
    gpu      \* the records handle_gpu_db_export makes of them

vars == <<delta, procs, cpu, gpu>>

-----------------------------------------------------------------------------

Sum(s) == SumFunction(s)

FloorShare(total, w, sum) == (total * w) \div sum

\* The last of the largest weights.
Heaviest(weights) ==
    CHOOSE k \in DOMAIN weights :
        /\ \A i \in DOMAIN weights : weights[i] <= weights[k]
        /\ \A i \in DOMAIN weights : i > k => weights[i] < weights[k]

\* Mutant: what the floors leave over is not given to anybody.
AttributeFloors(total, weights) ==
    [k \in DOMAIN weights |-> FloorShare(total, weights[k], Sum(weights))]

\* attribute_by_weight, for weights that do not sum to 0.
AttributeByWeight(total, weights) ==
    LET floors    == [k \in DOMAIN weights |->
                        FloorShare(total, weights[k], Sum(weights))]
        remainder == total - Sum(floors)
    IN  [floors EXCEPT ![Heaviest(weights)] = @ + remainder]

Bucket(who, w)  == [who |-> who, weight |-> w]
Charge(who, uj) == [who |-> who, energy |-> uj]

\* Who is charged when no process can be.
Nobody       == 0
Unattributed == -1

\* Mutant: a VM without CPU activity is left without a bucket of its own.
CpuBucketsBare(ticks) == [k \in DOMAIN ticks |-> Bucket(k, ticks[k])]

\* handle_db_export: all processes, and pid 0 when none was active.
CpuBuckets(ticks) ==
    LET own == [k \in DOMAIN ticks |-> Bucket(k, ticks[k])]
    IN  IF \A k \in DOMAIN ticks : ticks[k] = 0
        THEN Append(own, Bucket(Nobody, 1)) ELSE own

\* Mutant: the energy of an unreported time is charged to whoever runs now.
GpuBucketsUnbracketed(d, utils) ==
    LET active == {k \in DOMAIN utils : utils[k] > 0}
    IN  IF active = {} THEN <<Bucket(Nobody, 1)>>
        ELSE [k \in active |-> Bucket(k, utils[k])]

\* handle_gpu_db_export: the active processes, unless the energy is more than
\* a cycle's worth; if there are none, one bucket that says why.
GpuBuckets(d, utils) ==
    LET bracketed == d <= PerCycle
        active    == {k \in DOMAIN utils : bracketed /\ utils[k] > 0}
    IN  IF active = {}
        THEN <<Bucket(IF bracketed THEN Nobody ELSE Unattributed, 1)>>
        ELSE [k \in active |->
                Bucket(k, IF utils[k] > FullUtil THEN FullUtil ELSE utils[k])]

\* The records of the buckets that got a share; none when the weights sum to
\* nothing, for then attribute_by_weight returns None.
Records(d, buckets) ==
    LET weights == [k \in DOMAIN buckets |-> buckets[k].weight]
        shares  == AttributeByWeight(d, weights)
    IN  IF Sum(weights) = 0 THEN << >>
        ELSE [k \in {j \in DOMAIN buckets : shares[j] > 0} |->
                Charge(buckets[k].who, shares[k])]

Inputs == BoundedSeq(0..MaxWeight, MaxProcs)

Idle ==
    /\ delta = 0
    /\ procs = << >>
    /\ cpu = << >>
    /\ gpu = << >>

Init == Idle

\* A request with delta d.  A card whose delta is 0 makes no records.
Request ==
    /\ Idle
    /\ \E d \in 0..MaxDelta, ws \in Inputs :
         /\ delta' = d
         /\ procs' = ws
         /\ cpu' = Records(d, CpuBuckets(ws))
         /\ gpu' = IF d = 0 THEN << >> ELSE Records(d, GpuBuckets(d, ws))

\* The records are accumulated and the response is sent.
Respond ==
    /\ ~Idle
    /\ delta' = 0
    /\ procs' = << >>
    /\ cpu' = << >>
    /\ gpu' = << >>

Next == Request \/ Respond

Spec == Init /\ [][Next]_vars

-----------------------------------------------------------------------------
(* Properties *)

Energies(records) == [k \in DOMAIN records |-> records[k].energy]

EnergyOf(records, who) ==
    SumFunctionOnSet(Energies(records),
                     {k \in DOMAIN records : records[k].who = who})

\* All the energy of a cycle is recorded and none twice, whoever was active:
\* the records of a VM and of a card add up to the delta.
RecordsAddUp ==
    /\ Sum(Energies(cpu)) = delta
    /\ Sum(Energies(gpu)) = delta

Ticks == Sum(procs)

\* A process of a VM is charged the exact share of its ticks, rounded down,
\* except one of the most active ones, which also pays for the rounding of
\* the others, less than one microjoule each; so a process that was more
\* active never pays less.  No process pays for a card it did not use, nor
\* for energy that cannot be assigned to the cycle.
ChargedByActivity ==
    LET paid == [k \in DOMAIN procs |-> EnergyOf(cpu, k)] IN
    /\ \A k \in DOMAIN procs :
         Ticks > 0 =>
           /\ paid[k] * Ticks >= delta * procs[k] - Ticks + 1
           /\ paid[k] * Ticks <= delta * procs[k]
                \/ /\ \A i \in DOMAIN procs : procs[i] <= procs[k]
                   /\ paid[k] * Ticks < delta * procs[k] + Len(procs) * Ticks
    /\ \A i, k \in DOMAIN procs : procs[i] < procs[k] => paid[i] <= paid[k]
    /\ \A k \in DOMAIN procs :
         EnergyOf(gpu, k) > 0 => procs[k] > 0 /\ delta <= PerCycle

=============================================================================
