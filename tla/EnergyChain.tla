----------------------------- MODULE EnergyChain -----------------------------
(***************************************************************************)
(* The energy chain of one VM, from the host to the guest.  Each cycle the *)
(* host enclave signs the VM's energy into an HMAC chain; the host         *)
(* exporter writes the two files of the VM's 9p share, energy_uj and       *)
(* chain_metadata.json; the guest exporter polls them, energy first, and   *)
(* the guest enclave admits a step or rejects it (admit_chain_step).       *)
(*                                                                         *)
(* Host and guest run concurrently and share nothing but the two files.    *)
(* fs::write truncates a file and then fills it, so each write is two      *)
(* steps, and the guest may read between any two steps of the host.        *)
(*                                                                         *)
(* An HMAC is modelled as collision-free.  The signed text holds the       *)
(* counter, the cumulative energy, the delta and the previous signature,   *)
(* so a signature stands for the cumulative energies signed since the host *)
(* enclave started, and the all-zero signature for none.  A host enclave   *)
(* that signs the same energies after a restart makes the same signatures. *)
(***************************************************************************)
EXTENDS Integers, Sequences

CONSTANTS
    Deltas,      \* energies (uJ) a VM may be charged in one cycle
    FaultSets,   \* which failures may come together in one behaviour
    MaxSteps,    \* bound: steps a host enclave signs before it is restarted
    MaxSigned,   \* bound: steps signed in all
    MaxCharged   \* bound: no guest restart once so many steps were admitted

FaultKinds ==
    { "host_restart",   \* the host enclave starts again with empty VM_CHAINS
      "guest_restart",  \* the guest enclave starts again with no chain state
      "response",       \* signed updates do not reach the host exporter
      "write",          \* a write on the share fails
      "late" }          \* the host goes on before the guest has polled

ASSUME EnergyAssumption ==
    /\ Deltas \subseteq Nat
    /\ FaultSets \subseteq SUBSET FaultKinds
    /\ MaxSteps \in Nat
    /\ MaxSigned \in Nat
    /\ MaxCharged \in Nat

VARIABLES
    \* host
    hostSig,    \* chain_state; counter and cumulative energy are its length
                \* and its last element
    hostPc,     \* position in the cycle
    hostValue,  \* the value add_or_create or write_exact is about to write
    \* the share
    energyUj,   \* energy_uj; a missing or empty file reads as 0
    metadata,   \* chain_metadata.json: the signature in it, if it parses
    \* guest
    guestPc,    \* "idle", or "read" when energy_uj has been read
    guestRead,  \* the energy_uj it read
    counter,    \* VmChainState.counter
    lastSig,    \* VmChainState.last_signature
    lastEnergy, \* VmChainState.last_energy_uj
    known,      \* VmChainState.initialized
    verdict,    \* the outcome of the last export
    \* the failures that may happen; chosen once
    faults,
    \* history, read by no action but for the host that is never late
    signedAs,   \* how many steps were ever signed
    metadataAs, \* which of them the metadata file holds
    charged,    \* which of them were admitted, in order
    bootAt,     \* length of charged when the guest enclave started
    missed,     \* did a write of the running host enclave not happen?
    settled,    \* did the guest read energy_uj after the last cycle ended?
    polled      \* was a whole poll made since then?

host  == <<hostSig, hostPc, hostValue>>
share == <<energyUj, metadata>>
guest == <<guestPc, guestRead, counter, lastSig, lastEnergy, known, verdict>>
ghost == <<signedAs, metadataAs, charged, bootAt, missed, settled, polled>>
vars  == <<host, share, guest, faults, ghost>>

-----------------------------------------------------------------------------

Signatures == Seq(Nat)
Zeros      == << >>

\* Cumulative energy and counter under a signature.
Cumulative(sig) == IF sig = Zeros THEN 0 ELSE sig[Len(sig)]
Counter(sig)    == Len(sig)
Previous(sig)   == IF sig = Zeros THEN Zeros ELSE SubSeq(sig, 1, Len(sig) - 1)

\* Mutant: the difference is taken the wrong way round.
DeltaReversed(sig) == Cumulative(Previous(sig)) - Cumulative(sig)

Delta(sig) == Cumulative(sig) - Cumulative(Previous(sig))

\* HMAC(counter | vm | cumulative | delta | previous), over what the host
\* signs: the counter and the delta follow from the other two.
Sign(prev, energy) == Append(prev, energy)

\* Mutant: the HMAC does not cover the cumulative energy.
MacIgnoresEnergy(energy, sig) == sig # Zeros

\* The HMAC of the metadata together with the energy read from energy_uj.
MacOk(energy, sig) == sig # Zeros /\ Sign(Previous(sig), energy) = sig

\* Mutant: a counter seen before is admitted again.
AdmitReplay(macOk, prevOk, init, c0, e0, c, e, d) ==
    IF ~macOk THEN "mac"
    ELSE IF ~init \/ c <= c0 THEN "accept"
    ELSE IF c # c0 + 1 THEN "gap"
    ELSE IF e # e0 + d THEN "energy"
    ELSE IF ~prevOk THEN "fork"
    ELSE "accept"

\* Mutant: a gap in the counters is tolerated.
AdmitGap(macOk, prevOk, init, c0, e0, c, e, d) ==
    IF ~macOk THEN "mac"
    ELSE IF ~init \/ c > c0 THEN "accept"
    ELSE IF c = c0 THEN "skip"
    ELSE "rollback"

\* Mutant: the delta is left out of the energy that is expected.
AdmitSameEnergy(macOk, prevOk, init, c0, e0, c, e, d) ==
    IF ~macOk THEN "mac"
    ELSE IF ~init THEN "accept"
    ELSE IF c = c0 THEN IF e # e0 THEN "energy" ELSE "skip"
    ELSE IF e # e0 THEN "energy"
    ELSE "accept"

\* admit_chain_step, in the order of its checks.
Admit(macOk, prevOk, init, c0, e0, c, e, d) ==
    IF ~macOk THEN "mac"
    ELSE IF ~init THEN "accept"
    ELSE IF c = c0 THEN IF e # e0 THEN "energy" ELSE "skip"
    ELSE IF c < c0 THEN "rollback"
    ELSE IF c # c0 + 1 THEN "gap"
    ELSE IF e # e0 + d THEN "energy"
    ELSE IF ~prevOk THEN "fork"
    ELSE "accept"

-----------------------------------------------------------------------------

Init ==
    /\ hostSig = Zeros /\ hostPc = "idle" /\ hostValue = 0
    /\ energyUj = 0 /\ metadata = Zeros
    /\ guestPc = "idle" /\ guestRead = 0 /\ counter = 0 /\ lastSig = Zeros
    /\ lastEnergy = 0 /\ known = FALSE /\ verdict = "none"
    /\ faults \in FaultSets
    /\ signedAs = 0 /\ metadataAs = 0 /\ charged = << >> /\ bootAt = 0
    /\ missed = FALSE /\ settled = FALSE /\ polled = TRUE

\* The signing loop of ecall_compute_vm_energy_cgroup: the chain advances
\* before anything is written.  The signed updates then reach the exporter,
\* or they do not: the request failed, or the enclave's 4096-byte output
\* buffer cut their JSON short.
HostSign ==
    /\ hostPc = "idle"
    /\ polled \/ "late" \in faults
    /\ Len(hostSig) < MaxSteps /\ signedAs < MaxSigned
    /\ \E d \in Deltas : hostSig' = Sign(hostSig, Cumulative(hostSig) + d)
    /\ signedAs' = signedAs + 1
    /\ polled' = FALSE
    /\ settled' = FALSE
    /\ \/ hostPc' = "energy" /\ UNCHANGED missed
       \/ "response" \in faults /\ missed' = TRUE /\ UNCHANGED hostPc
    /\ UNCHANGED <<hostValue, share, guest, faults, metadataAs, charged,
                   bootAt>>

\* Mutant: a restarted chain is added to what the file already holds.
AddAlways(sig) == energyUj + Delta(sig)

\* The value write_updates_with_chain puts into energy_uj: write_exact when
\* the chain starts again, add_or_create otherwise.
NewEnergy(sig) ==
    IF Counter(sig) = 1 /\ Previous(sig) = Zeros
    THEN Delta(sig)
    ELSE energyUj + Delta(sig)

\* fs::write opens energy_uj and truncates it ...
OpenEnergy ==
    /\ hostPc = "energy"
    /\ hostValue' = NewEnergy(hostSig)
    /\ energyUj' = 0
    /\ hostPc' = "fill_energy"
    /\ UNCHANGED <<hostSig, metadata, guest, faults, ghost>>

\* ... and fills it.
FillEnergy ==
    /\ hostPc = "fill_energy"
    /\ energyUj' = hostValue
    /\ hostPc' = "metadata"
    /\ UNCHANGED <<hostSig, hostValue, metadata, guest, faults, ghost>>

OpenMetadata ==
    /\ hostPc = "metadata"
    /\ metadata' = Zeros
    /\ hostPc' = "fill_metadata"
    /\ UNCHANGED <<hostSig, hostValue, energyUj, guest, faults, ghost>>

FillMetadata ==
    /\ hostPc = "fill_metadata"
    /\ metadata' = hostSig
    /\ metadataAs' = signedAs
    /\ hostPc' = "idle"
    /\ UNCHANGED <<hostSig, hostValue, energyUj, guest, faults, signedAs, charged,
                   bootAt, missed, settled, polled>>

\* A write returns Err: the exporter gives this update up, and the enclave,
\* which ignores the result, goes on from the signed step.
WriteFails ==
    /\ "write" \in faults
    /\ hostPc # "idle"
    /\ hostPc' = "idle"
    /\ missed' = TRUE
    /\ UNCHANGED <<hostSig, hostValue, share, guest, faults, signedAs, metadataAs,
                   charged, bootAt, settled, polled>>

\* The host enclave is started again; VM_CHAINS lived in its memory.
HostRestart ==
    /\ "host_restart" \in faults
    /\ hostSig' = Zeros
    /\ hostPc' = "idle"
    /\ missed' = FALSE
    /\ UNCHANGED <<hostValue, share, guest, faults, signedAs, metadataAs, charged,
                   bootAt, settled, polled>>

-----------------------------------------------------------------------------

\* The guest exporter reads energy_uj.
GuestReadEnergy ==
    /\ guestPc = "idle"
    /\ guestRead' = energyUj
    /\ guestPc' = "read"
    /\ settled' = (hostPc = "idle")
    /\ UNCHANGED <<host, share, counter, lastSig, lastEnergy, known, verdict,
                   faults, signedAs, metadataAs, charged, bootAt, missed, polled>>

\* It reads chain_metadata.json next; without a valid one the poll is over.
GuestNoMetadata ==
    /\ guestPc = "read"
    /\ metadata = Zeros
    /\ guestPc' = "idle"
    /\ polled' = (polled \/ (settled /\ hostPc = "idle"))
    /\ UNCHANGED <<host, share, guestRead, counter, lastSig, lastEnergy, known,
                   verdict, faults, signedAs, metadataAs, charged, bootAt, missed,
                   settled>>

\* Otherwise db_export hands both to the enclave: ecall_verify_energy_chain
\* moves the chain state when the step is admitted, and only then is the
\* delta attributed and recorded.
GuestExport ==
    /\ guestPc = "read"
    /\ metadata # Zeros
    /\ LET v == Admit(MacOk(guestRead, metadata),
                      ~known \/ Previous(metadata) = lastSig,
                      known, counter, lastEnergy,
                      Counter(metadata), guestRead, Delta(metadata))
       IN  /\ verdict' = v
           /\ IF v = "accept"
              THEN /\ known' = TRUE
                   /\ counter' = Counter(metadata)
                   /\ lastEnergy' = guestRead
                   /\ lastSig' = metadata
                   /\ charged' = Append(charged, metadataAs)
              ELSE UNCHANGED <<known, counter, lastEnergy, lastSig, charged>>
    /\ guestPc' = "idle"
    /\ polled' = (polled \/ (settled /\ hostPc = "idle"))
    /\ UNCHANGED <<host, share, guestRead, faults, signedAs, metadataAs, bootAt,
                   missed, settled>>

\* The guest enclave is started again and admits whatever step it sees first.
GuestRestart ==
    /\ "guest_restart" \in faults
    /\ Len(charged) < MaxCharged
    /\ guestPc' = "idle"
    /\ counter' = 0
    /\ lastSig' = Zeros
    /\ lastEnergy' = 0
    /\ known' = FALSE
    /\ verdict' = "none"
    /\ bootAt' = Len(charged)
    /\ UNCHANGED <<host, share, guestRead, faults, signedAs, metadataAs, charged,
                   missed, settled, polled>>

HostWrite == OpenEnergy \/ FillEnergy \/ OpenMetadata \/ FillMetadata
GuestPoll == GuestReadEnergy \/ GuestNoMetadata \/ GuestExport

Next == HostSign \/ HostWrite \/ WriteFails \/ HostRestart
          \/ GuestPoll \/ GuestRestart

Spec == Init /\ [][Next]_vars

\* Both loops sleep and go on: the host finishes the cycle it started, and
\* the guest keeps polling.
FairSpec == Spec /\ WF_vars(HostWrite) /\ WF_vars(GuestPoll)

-----------------------------------------------------------------------------
(* Properties *)

Verdicts == {"none", "accept", "skip", "mac", "energy", "rollback", "gap", "fork"}

\* Every variable keeps its type.
TypeOK ==
    /\ hostSig \in Signatures /\ hostValue \in Nat
    /\ hostPc \in {"idle", "energy", "fill_energy", "metadata", "fill_metadata"}
    /\ energyUj \in Nat /\ metadata \in Signatures
    /\ guestPc \in {"idle", "read"} /\ guestRead \in Nat
    /\ counter \in Nat /\ lastSig \in Signatures /\ lastEnergy \in Nat
    /\ known \in BOOLEAN /\ verdict \in Verdicts /\ faults \in FaultSets
    /\ signedAs \in Nat /\ metadataAs \in Nat
    /\ charged \in Seq(Nat) /\ bootAt \in 0..Len(charged)
    /\ missed \in BOOLEAN /\ settled \in BOOLEAN /\ polled \in BOOLEAN

\* What the guest enclave last admitted is one step the host signed, whole:
\* the energy it keeps is the cumulative energy of the signature it keeps,
\* although the two were read from two files at two moments.
AdmittedAsSigned ==
    known => /\ lastSig # Zeros
             /\ lastEnergy = Cumulative(lastSig)
             /\ counter = Counter(lastSig)

\* A guest enclave charges every signed step at most once, in the order in
\* which they were signed, whatever the files held when it polled.
ChargedInOrder ==
    \A i, j \in (bootAt + 1)..Len(charged) : i < j => charged[i] < charged[j]

\* A guest enclave that knows a chain moves only to the direct successor of
\* the step it admitted last: it never skips one and never changes over to
\* the chain of a restarted host enclave.
NoJumps ==
    [][known /\ known' /\ lastSig' # lastSig
         => Previous(lastSig') = lastSig]_vars

\* Between two cycles the files hold the chain of the running host enclave,
\* unless one of its writes was lost; a restarted enclave repairs them with
\* its first step.
FilesFollowChain ==
    (hostPc = "idle" /\ hostSig # Zeros /\ ~missed)
        => energyUj = Cumulative(hostSig) /\ metadata = hostSig

\* No step that is in the metadata file, about to be written to it or still to
\* be signed follows the one the guest admitted last.
PassedBy ==
    /\ known
    /\ hostSig # Zeros
    /\ Len(hostSig) <= Len(lastSig) => SubSeq(lastSig, 1, Len(hostSig)) # hostSig
    /\ hostPc # "idle" => Previous(hostSig) # lastSig
    /\ metadata # Zeros => Previous(metadata) # lastSig

\* Once it has been passed by, because it missed a cycle, a write was lost or
\* the host enclave started again, the guest enclave charges nothing any more
\* until one of the two enclaves is restarted.
PassedByIsFinal ==
    [][(PassedBy /\ known' /\ hostSig' # Zeros)
         => PassedBy' /\ charged' = charged]_vars

\* When the guest polls between two cycles and nothing fails, it charges every
\* step that is signed, although some of its polls are rejected because they
\* read one file before and the other after a write.
EveryStepCharged ==
    faults = {}
        => []<>(\A n \in 1..signedAs :
                   \E i \in 1..Len(charged) : charged[i] = n)

\* No signed step is charged twice.
ChargedOnce == \A i, j \in 1..Len(charged) : charged[i] = charged[j] => i = j

=============================================================================
