------------------------------ MODULE GpuExport ------------------------------
(***************************************************************************)
(* The energy of a GPU node, from the cards' counters to the records that  *)
(* the enclave accumulates.  Each cycle the exporter reads every card's    *)
(* cumulative counter (collect_gpu_raw), together with the tag that an     *)
(* eBPF probe left for the last reading it saw, and sends all readings in  *)
(* one request; handle_gpu_db_export checks the owner bindings and the     *)
(* tags, turns each reading into the advance over the card's baseline and  *)
(* records it.                                                             *)
(*                                                                         *)
(* The enclave handles one request at a time and keeps everything in       *)
(* memory, so a request is one action; sampling is one action per card,    *)
(* since the cards go on burning energy meanwhile.  A request that is      *)
(* rejected at one card keeps what it already did for the cards before it. *)
(*                                                                         *)
(* How a card's energy is split over processes is the subject of module    *)
(* Attribution; here a record is the energy it carries.  SipTag is         *)
(* unforgeable and its key lives as long as the exporter, so a tag is the  *)
(* energy it was made for.                                                 *)
(***************************************************************************)
EXTENDS Integers, Sequences

CONSTANTS
    Count,       \* cards of the node, numbered 1..Count in NVML's order
    Before,      \* what the counters may show when the node starts
    BatchSize,   \* GPU_BATCH_SIZE (100 in the code)
    FaultSets,   \* which failures may come together in one behaviour
    MaxBurned,   \* bound: energy a card burns
    MaxGlitches  \* bound: failed readings and resets

FaultKinds ==
    { "read",        \* NVML does not return the energy, which is taken as 0
      "probe",       \* no tag is made: eBPF not loaded, or its hint not set
      "uuid",        \* NVML does not return the UUID; "gpu-<i>" is used
      "collect",     \* NVML does not return a device: the cycle is dropped
      "registry",    \* a lookup in immudb fails
      "flush",       \* a block does not reach Redis, or the chain is refused
      "reset",       \* a card's counter starts again at 0
      "connection",  \* the connection to the enclave breaks
      "restart" }    \* exporter and enclave start again

ASSUME GpuAssumption ==
    /\ Count \in Nat \ {0}
    /\ Before \subseteq Nat
    /\ BatchSize \in Nat \ {0}
    /\ FaultSets \subseteq SUBSET FaultKinds
    /\ MaxBurned \in Nat
    /\ MaxGlitches \in Nat

VARIABLES
    \* the cards and the kernel
    meter,      \* total energy counter of each card
    tag,        \* gpu_hash_map: the energy of the last tagged reading
    \* the site: rules provisioned and cards bound in the registry
    rules,
    bindings,
    faults,     \* the failures that may happen; chosen once
    \* exporter
    samples,    \* readings of the current cycle, in the order of the cards
    connected,  \* does VM_ENCLAVE_CONNECTION still work?
    \* enclave
    ruleCache,  \* BINDINGS, the two rules
    nameCache,  \* BINDINGS, the cards by name
    baseline,   \* GPU_ENERGY_STATE by name
    iter,       \* ITERATION_COUNT, as far as it is compared with BatchSize
    acc,        \* energy in ACCUMULATED_RECORDS, by card
    signed,     \* energy in the signed deltas of the node's chain, by card
    status,     \* status of the last response
    \* Redis
    stored,     \* energy in stored blocks, by card
    \* history, read by no action except for the bounds
    burned,     \* energy each card has burned
    start,      \* the first baseline of each card
    recorded,   \* energy recorded since the enclave started
    glitches    \* failed readings and resets

cards    == <<meter, tag>>
site     == <<rules, bindings, faults>>
exporter == <<samples, connected>>
enclave  == <<ruleCache, nameCache, baseline, iter, acc, signed, status>>
history  == <<burned, start, recorded, glitches>>
vars     == <<cards, site, exporter, enclave, stored, history>>

-----------------------------------------------------------------------------

Cards  == 1..Count
Rules  == {"binding", "tag"}
Absent == -1

\* A card under its UUID, or under the name made from its index.
Names      == Cards \X BOOLEAN
Known(c)   == <<c, TRUE>>
Unknown(c) == <<c, FALSE>>

Answers == {"none", "yes", "no"}

NoSamples == << >>
Sample(e, t, name) == [energy |-> e, tag |-> t, name |-> name]
SampleType == [energy : Nat, tag : Nat \cup {Absent}, name : Names]

Init ==
    /\ meter \in [Cards -> Before]
    /\ tag = [c \in Cards |-> Absent]
    /\ rules \in SUBSET Rules
    /\ bindings \in SUBSET Cards
    /\ faults \in FaultSets
    /\ samples = NoSamples
    /\ connected = TRUE
    /\ ruleCache = [r \in Rules |-> "none"]
    /\ nameCache = [n \in Names |-> "none"]
    /\ baseline = [n \in Names |-> Absent]
    /\ iter = 0
    /\ acc = [c \in Cards |-> 0]
    /\ signed = [c \in Cards |-> 0]
    /\ status = 0
    /\ stored = [c \in Cards |-> 0]
    /\ burned = [c \in Cards |-> 0]
    /\ start = [c \in Cards |-> Absent]
    /\ recorded = [c \in Cards |-> 0]
    /\ glitches = 0

-----------------------------------------------------------------------------
(* The cards *)

Burn(c) ==
    /\ burned[c] < MaxBurned
    /\ meter' = [meter EXCEPT ![c] = @ + 1]
    /\ burned' = [burned EXCEPT ![c] = @ + 1]
    /\ UNCHANGED <<tag, site, exporter, enclave, stored, start, recorded,
                   glitches>>

\* The counter starts again, for example because the driver was reloaded.
Reset(c) ==
    /\ "reset" \in faults
    /\ glitches < MaxGlitches
    /\ meter' = [meter EXCEPT ![c] = 0]
    /\ glitches' = glitches + 1
    /\ UNCHANGED <<tag, site, exporter, enclave, stored, burned, start, recorded>>

-----------------------------------------------------------------------------
(* The exporter *)

\* The readings of card c that NVML and the probe can produce now: whatever
\* fails, the tag that is sent is the one of the last reading that was tagged.
Readings(c) ==
    {[energy |-> meter[c], tag |-> meter[c], bad |-> FALSE]}
      \cup (IF "read" \in faults
            THEN {[energy |-> 0, tag |-> tag[c], bad |-> TRUE]} ELSE {})
      \cup (IF "probe" \in faults
            THEN {[energy |-> meter[c], tag |-> tag[c], bad |-> TRUE]} ELSE {})

\* One turn of the loop of collect_gpu_raw.
CollectCard ==
    LET c == Len(samples) + 1 IN
    /\ c \in Cards
    /\ \E r \in Readings(c),
          name \in {Known(c)} \cup (IF "uuid" \in faults THEN {Unknown(c)} ELSE {}) :
         LET failed == r.bad \/ name # Known(c) IN
         /\ failed => glitches < MaxGlitches
         /\ glitches' = glitches + (IF failed THEN 1 ELSE 0)
         /\ tag' = [tag EXCEPT ![c] = r.tag]
         /\ samples' = Append(samples, Sample(r.energy, r.tag, name))
    /\ UNCHANGED <<meter, site, connected, enclave, stored, burned, start,
                   recorded>>

\* device_by_index fails: collect_gpu_raw returns Err and the cycle is over.
CollectFails ==
    /\ "collect" \in faults
    /\ glitches < MaxGlitches
    /\ Len(samples) < Count
    /\ samples' = NoSamples
    /\ glitches' = glitches + 1
    /\ UNCHANGED <<cards, site, connected, enclave, stored, burned, start,
                   recorded>>

\* The connection breaks, with a request in it or not.  It stays in
\* VM_ENCLAVE_CONNECTION.
ConnectionBreaks ==
    /\ "connection" \in faults
    /\ connected
    /\ connected' = FALSE
    /\ UNCHANGED <<cards, site, samples, enclave, stored, history>>

\* dispatch over a broken connection: an error is printed.
DispatchFails ==
    /\ Len(samples) = Count
    /\ ~connected
    /\ samples' = NoSamples
    /\ UNCHANGED <<cards, site, connected, enclave, stored, history>>

-----------------------------------------------------------------------------
(* handle_gpu_db_export *)

\* Mutant: the registry is asked every time.
LookupUncached(cached, fact) ==
    {IF fact THEN "yes" ELSE "no"}
      \cup (IF "registry" \in faults THEN {"no"} ELSE {})

\* cached_or: the first answer is kept, and a failed lookup is a no.
Lookup(cached, fact) ==
    IF cached # "none"
    THEN {cached}
    ELSE {IF fact THEN "yes" ELSE "no"}
           \cup (IF "registry" \in faults THEN {"no"} ELSE {})

Name(c)     == samples[c].name
Bound(name) == name[2] /\ name[1] \in bindings

\* Mutant: a tag is not compared with the energy that was sent.
BadTagUnchecked(s, tagRule) ==
    s.tag = Absent /\ tagRule = "yes"

\* The reading is rejected: its tag is of another reading (-102), or it has
\* none where one is required (-105).
BadTag(s, tagRule) ==
    \/ s.tag # Absent /\ s.tag # s.energy
    \/ s.tag = Absent /\ tagRule = "yes"

\* Mutant: a counter that went backwards is not noticed.
AdvanceUnchecked(last, energy) ==
    IF last # Absent THEN energy - last ELSE 0

\* Mutant: more than a cycle's worth is dropped instead of being recorded.
AdvanceCapped(last, energy) ==
    IF last # Absent /\ energy = last + 1 THEN 1 ELSE 0

\* The delta of a reading over the baseline.
Advance(last, energy) ==
    IF last # Absent /\ energy >= last THEN energy - last ELSE 0

\* The baseline after the reading.
Baseline(last, energy) ==
    IF last = Absent \/ energy >= last THEN energy ELSE last

\* Cards whose readings are processed when the tag rule is known: those
\* before the first bad one.
Processed(tagRule) ==
    {c \in Cards : \A d \in 1..c : ~BadTag(samples[d], tagRule)}

\* What card c adds to the records.
Charge(c, S) ==
    IF c \in S THEN Advance(baseline[Name(c)], samples[c].energy) ELSE 0

\* The loop over the cards, for those in S.
Record(S) ==
    /\ baseline' = [n \in Names |->
                      IF n[1] \in S /\ n = Name(n[1])
                      THEN Baseline(baseline[n], samples[n[1]].energy)
                      ELSE baseline[n]]
    /\ recorded' = [c \in Cards |-> recorded[c] + Charge(c, S)]
    /\ start' = [c \in Cards |->
                   IF start[c] = Absent /\ c \in S /\ Name(c) = Known(c)
                   THEN samples[c].energy ELSE start[c]]

\* Mutant: the cumulative energies are signed as the delta.
SignReadings(S) ==
    signed' = [c \in Cards |-> signed[c] + samples[c].energy]

\* ecall_sign_energy_chain: the sum of the cards' deltas is signed.
SignChain(S) ==
    signed' = [c \in Cards |-> signed[c] + Charge(c, S)]

\* The end of an accepted request.  A full batch is flushed: it is stored, or
\* dropped; a refused enclave keeps it and never gets to a full batch again.
Flush(new) ==
    IF iter + 1 = BatchSize
    THEN \/ /\ iter' = 0
            /\ acc' = [c \in Cards |-> 0]
            /\ \/ stored' = [c \in Cards |-> stored[c] + new[c]]
               \/ "flush" \in faults /\ UNCHANGED stored
         \/ /\ "flush" \in faults
            /\ iter' = iter + 1
            /\ acc' = new
            /\ UNCHANGED stored
    ELSE /\ iter' = IF iter < BatchSize THEN iter + 1 ELSE iter
         /\ acc' = new
         /\ UNCHANGED stored

\* The handler, given the answers to its lookups: it ends at a card that is not
\* bound to the node, at a bad tag, or with status 0.
HandleExport(rb, rt, owned) ==
    LET refused == {c \in Cards : rb = "yes" /\ owned[c] = "no"}
        asked   == {c \in Cards : \A d \in 1..(c - 1) : d \notin refused}
        S       == Processed(rt)
        new     == [c \in Cards |-> acc[c] + Charge(c, S)]
    IN
    /\ ruleCache' = [r \in Rules |-> IF r = "binding" THEN rb ELSE rt]
    /\ nameCache' = [n \in Names |->
                       IF n[1] \in asked /\ n = Name(n[1])
                       THEN owned[n[1]] ELSE nameCache[n]]
    /\ \/ /\ refused # {}
          /\ status' = -13
          /\ UNCHANGED <<baseline, recorded, start, acc, stored, iter, signed>>
       \/ /\ refused = {}
          /\ S # Cards
          /\ Record(S)
          /\ acc' = new
          /\ status' \in {IF samples[c].tag = Absent THEN -105 ELSE -102 :
                            c \in {d \in Cards \ S : 1..(d - 1) \subseteq S}}
          /\ UNCHANGED <<stored, iter, signed>>
       \/ /\ refused = {}
          /\ S = Cards
          /\ Record(S)
          /\ SignChain(S)
          /\ Flush(new)
          /\ status' = 0

Export ==
    /\ Len(samples) = Count
    /\ connected
    /\ \E rb \in Lookup(ruleCache["binding"], "binding" \in rules),
          rt \in Lookup(ruleCache["tag"], "tag" \in rules),
          owned \in [Cards -> {"yes", "no"}] :
         /\ \A c \in Cards : owned[c] \in Lookup(nameCache[Name(c)], Bound(Name(c)))
         /\ HandleExport(rb, rt, owned)
    /\ samples' = NoSamples
    /\ UNCHANGED <<cards, site, connected, burned, glitches>>

\* The exporter is started again and with it a new enclave and new probes.
Restart ==
    /\ "restart" \in faults
    /\ tag' = [c \in Cards |-> Absent]
    /\ samples' = NoSamples
    /\ connected' = TRUE
    /\ ruleCache' = [r \in Rules |-> "none"]
    /\ nameCache' = [n \in Names |-> "none"]
    /\ baseline' = [n \in Names |-> Absent]
    /\ iter' = 0
    /\ acc' = [c \in Cards |-> 0]
    /\ signed' = [c \in Cards |-> 0]
    /\ status' = 0
    /\ start' = [c \in Cards |-> Absent]
    /\ recorded' = [c \in Cards |-> 0]
    /\ UNCHANGED <<meter, site, stored, burned, glitches>>

Cycle == CollectCard \/ DispatchFails \/ Export

Next ==
    \/ \E c \in Cards : Burn(c) \/ Reset(c)
    \/ Cycle \/ CollectFails \/ ConnectionBreaks \/ Restart

Spec == Init /\ [][Next]_vars

\* The exporter's loop sleeps and goes on.
FairSpec == Spec /\ WF_vars(Cycle)

-----------------------------------------------------------------------------
(* Properties *)

\* Every variable keeps its type.
TypeOK ==
    /\ meter \in [Cards -> Nat] /\ tag \in [Cards -> Nat \cup {Absent}]
    /\ rules \subseteq Rules /\ bindings \subseteq Cards /\ faults \in FaultSets
    /\ samples \in Seq(SampleType) /\ Len(samples) <= Count
    /\ connected \in BOOLEAN
    /\ ruleCache \in [Rules -> Answers] /\ nameCache \in [Names -> Answers]
    /\ baseline \in [Names -> Nat \cup {Absent}]
    /\ iter \in 0..BatchSize
    /\ acc \in [Cards -> Nat] /\ stored \in [Cards -> Nat]
    /\ signed \in [Cards -> Nat]
    /\ status \in {0, -13, -102, -105}
    /\ burned \in [Cards -> Nat] /\ start \in [Cards -> Nat \cup {Absent}]
    /\ recorded \in [Cards -> Nat] /\ glitches \in Nat

\* A failed reading is taken as 0; it is told from a real one when tags are
\* required and the rule reaches the enclave.
ReadingsTrusted ==
    "read" \in faults => "tag" \in rules /\ "registry" \notin faults

\* A card without its UUID is told from the same card with it when bindings
\* are required and the rule reaches the enclave.
NamesTrusted ==
    "uuid" \in faults => "binding" \in rules /\ "registry" \notin faults

\* No card is charged more than it burned, however many requests were
\* rejected half way, enclaves started again and counters reset.
NeverOvercharged ==
    ReadingsTrusted /\ NamesTrusted
        => \A c \in Cards : stored[c] + acc[c] <= burned[c]

\* The node's chain never vouches for energy that no record carries: a
\* request rejected half way leaves records that are not signed, never the
\* other way round.
SignedIsRecorded == \A c \in Cards : signed[c] <= recorded[c]

\* A rule that the enclave has once learned holds for the rest of its life,
\* whether or not the registry can be reached: no reading without a tag of
\* its own, and none of a card that is not bound to the node, moves a baseline.
RulesStay ==
    [][\A n \in Names :
          (baseline'[n] # baseline[n] /\ baseline'[n] # Absent) =>
             /\ ruleCache["tag"] = "yes" =>
                  samples[n[1]].tag = samples[n[1]].energy
             /\ ruleCache["binding"] = "yes" => Bound(n)]_vars

\* Once a card is known, all it burns is recorded, in spite of readings that
\* failed and requests that were rejected in between: when the cards rest, the
\* records of a running enclave catch up with the counters, as long as cards
\* keep their names and counters and blocks and connections do not fail.
EverythingRecorded ==
    faults \subseteq {"read", "probe", "collect", "restart"}
        => []<>(\A c \in Cards : start[c] = Absent
                                  \/ recorded[c] >= meter[c] - start[c])

=============================================================================
