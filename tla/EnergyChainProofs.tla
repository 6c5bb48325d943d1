-------------------------- MODULE EnergyChainProofs --------------------------
(***************************************************************************)
(* Proofs about the energy chain, for every set of energies, every set of  *)
(* faults and every bound: what the guest enclave admits, in which order   *)
(* it charges, and what the files hold between two cycles.                 *)
(***************************************************************************)
EXTENDS EnergyChain, SequenceTheorems, TLAPS

-----------------------------------------------------------------------------
(* Signatures *)

\* The type of what is read off a signature.
LEMMA SignatureParts ==
    ASSUME NEW sig \in Signatures
    PROVE  /\ Cumulative(sig) \in Nat
           /\ Counter(sig) \in Nat
           /\ Previous(sig) \in Signatures
           /\ Delta(sig) \in Int
           /\ sig # Zeros => /\ Len(sig) > 0
                             /\ Len(Previous(sig)) = Len(sig) - 1
  <1>1. Len(sig) \in Nat /\ (sig # Zeros => Len(sig) > 0)
    BY EmptySeq, LenProperties DEF Signatures, Zeros
  <1>2. Cumulative(sig) \in Nat
    BY <1>1, ElementOfSeq DEF Signatures, Cumulative
  <1>3. /\ Previous(sig) \in Signatures
        /\ sig # Zeros => Len(Previous(sig)) = Len(sig) - 1
    <2>1. CASE sig = Zeros
      BY <2>1 DEF Previous
    <2>2. CASE sig # Zeros
      <3>1. \A i \in 1..(Len(sig) - 1) : sig[i] \in Nat
        BY <1>1, ElementOfSeq DEF Signatures
      <3>2. /\ SubSeq(sig, 1, Len(sig) - 1) \in Seq(Nat)
            /\ Len(SubSeq(sig, 1, Len(sig) - 1))
                 = IF 1 <= Len(sig) - 1 THEN Len(sig) - 1 - 1 + 1 ELSE 0
        BY <1>1, <3>1, SubSeqProperties
      <3>3. Previous(sig) = SubSeq(sig, 1, Len(sig) - 1)
        BY <2>2 DEF Previous
      <3>4. Len(Previous(sig)) = Len(sig) - 1
        <4>1. \A n \in Nat : n > 0 =>
                (IF 1 <= n - 1 THEN n - 1 - 1 + 1 ELSE 0) = n - 1
          OBVIOUS
        <4>2. Len(sig) \in Nat /\ Len(sig) > 0
          BY <1>1, <2>2
        <4>3. Len(SubSeq(sig, 1, Len(sig) - 1)) = Len(sig) - 1
          BY <3>2, <4>1, <4>2, Zenon
        <4>. QED  BY <3>3, <4>3
      <3>5. Previous(sig) \in Signatures
        BY <3>2, <3>3 DEF Signatures
      <3>. QED  BY <3>4, <3>5
    <2>. QED  BY <2>1, <2>2
  <1>4. Cumulative(Previous(sig)) \in Nat
    <2>1. Len(Previous(sig)) \in Nat /\ (Previous(sig) # Zeros => Len(Previous(sig)) > 0)
      BY <1>3, EmptySeq, LenProperties DEF Signatures, Zeros
    <2>. QED  BY <1>3, <2>1, ElementOfSeq DEF Signatures, Cumulative
  <1>. QED  BY <1>1, <1>2, <1>3, <1>4 DEF Counter, Delta

\* A signature determines what was signed and the signature before it.
LEMMA SignIsInjective ==
    ASSUME NEW prev \in Signatures, NEW energy \in Nat
    PROVE  /\ Sign(prev, energy) \in Signatures
           /\ Sign(prev, energy) # Zeros
           /\ Len(Sign(prev, energy)) = Len(prev) + 1
           /\ Cumulative(Sign(prev, energy)) = energy
           /\ Previous(Sign(prev, energy)) = prev
  <1>. DEFINE sig == Sign(prev, energy)
  <1>1. /\ sig \in Seq(Nat)
        /\ sig # << >>
        /\ Len(sig) = Len(prev) + 1
        /\ \A i \in 1..Len(prev) : sig[i] = prev[i]
        /\ sig[Len(prev) + 1] = energy
    BY AppendProperties DEF Sign, Signatures
  <1>2. Len(prev) \in Nat
    BY LenProperties DEF Signatures
  <1>3. Previous(sig) = SubSeq(sig, 1, Len(prev))
    BY <1>1, <1>2 DEF Previous, Zeros
  <1>4. /\ SubSeq(sig, 1, Len(prev)) \in Seq(Nat)
        /\ Len(SubSeq(sig, 1, Len(prev)))
             = IF 1 <= Len(prev) THEN Len(prev) - 1 + 1 ELSE 0
        /\ \A i \in 1..(Len(prev) - 1 + 1) :
              SubSeq(sig, 1, Len(prev))[i] = sig[1 + i - 1]
    <2>1. \A i \in 1..Len(prev) : sig[i] \in Nat
      BY <1>1, ElementOfSeq DEF Signatures
    <2>. QED  BY <1>2, <2>1, SubSeqProperties
  <1>5. Previous(sig) = prev
    BY <1>1, <1>2, <1>3, <1>4, SeqEqual DEF Signatures
  <1>. QED  BY <1>1, <1>5 DEF Signatures, Zeros, Cumulative

\* The HMAC of a step holds for one energy only: the one it was made for.
LEMMA MacOkMeansSigned ==
    ASSUME NEW sig \in Signatures, NEW energy \in Nat, MacOk(energy, sig)
    PROVE  sig # Zeros /\ Cumulative(sig) = energy
  BY SignatureParts, SignIsInjective DEF MacOk

-----------------------------------------------------------------------------
(* Types *)

\* Energies only grow along the chain the host enclave holds, which keeps the
\* value added to energy_uj a natural number.
HostGrows == Cumulative(Previous(hostSig)) <= Cumulative(hostSig)

TypeInv == TypeOK /\ HostGrows

LEMMA TypeInit == Init => TypeInv
  <1>. SUFFICES ASSUME Init PROVE TypeInv
    OBVIOUS
  <1>1. Zeros \in Signatures /\ << >> \in Seq(Nat) /\ Len(<< >>) = 0
    BY EmptySeq DEF Zeros, Signatures
  <1>2. HostGrows
    BY DEF Init, HostGrows, Previous, Cumulative
  <1>3. known \in BOOLEAN /\ missed \in BOOLEAN /\ settled \in BOOLEAN /\ polled \in BOOLEAN
    BY Zenon DEF Init
  <1>4. charged \in Seq(Nat) /\ bootAt \in 0..Len(charged)
    BY <1>1 DEF Init
  <1>. QED  BY <1>1, <1>2, <1>3, <1>4 DEF Init, TypeInv, TypeOK, Verdicts

LEMMA TypeStep == TypeInv /\ [Next]_vars => TypeInv'
  <1>. SUFFICES ASSUME TypeInv, [Next]_vars PROVE TypeInv'
    OBVIOUS
  <1>. USE EnergyAssumption
  <1>0. Zeros \in Signatures /\ Previous(Zeros) = Zeros /\ Cumulative(Zeros) = 0
    BY EmptySeq DEF Zeros, Signatures, Previous, Cumulative
  <1>1. CASE HostSign
    <2>1. PICK d \in Deltas : hostSig' = Sign(hostSig, Cumulative(hostSig) + d)
      BY <1>1 DEF HostSign
    <2>2. Cumulative(hostSig) \in Nat /\ d \in Nat
      BY SignatureParts DEF TypeInv, TypeOK
    <2>3. /\ hostSig' \in Signatures
          /\ Cumulative(hostSig)' = Cumulative(hostSig) + d
          /\ Previous(hostSig)' = hostSig
      <3>1. hostSig \in Signatures /\ Cumulative(hostSig) + d \in Nat
        BY <2>2 DEF TypeInv, TypeOK
      <3>. QED  BY <2>1, <3>1, SignIsInjective
    <2>4. HostGrows'
      BY <2>2, <2>3 DEF HostGrows
    <2>5. missed' \in BOOLEAN /\ settled' \in BOOLEAN /\ polled' \in BOOLEAN
      BY <1>1, Zenon DEF HostSign, TypeInv, TypeOK
    <2>6. hostPc' \in {"idle", "energy", "fill_energy", "metadata", "fill_metadata"}
      BY <1>1 DEF HostSign, TypeInv, TypeOK
    <2>7. TypeOK'
      BY <1>1, <2>3, <2>5, <2>6 DEF TypeInv, TypeOK, HostSign, share, guest
    <2>. QED  BY <2>4, <2>7 DEF TypeInv
  <1>2. CASE OpenEnergy
    <2>1. Delta(hostSig) \in Nat
      <3>1. /\ Cumulative(hostSig) \in Nat /\ Previous(hostSig) \in Signatures
            /\ Cumulative(Previous(hostSig)) \in Nat
        BY SignatureParts DEF TypeInv, TypeOK
      <3>. QED  BY <3>1 DEF TypeInv, HostGrows, Delta
    <2>2. NewEnergy(hostSig) \in Nat
      BY <2>1 DEF NewEnergy, TypeInv, TypeOK
    <2>. QED  BY <1>2, <2>2 DEF OpenEnergy, TypeInv, TypeOK, HostGrows, guest, ghost
  <1>3. CASE FillEnergy
    BY <1>3 DEF FillEnergy, TypeInv, TypeOK, HostGrows, guest, ghost
  <1>4. CASE OpenMetadata
    BY <1>0, <1>4 DEF OpenMetadata, TypeInv, TypeOK, HostGrows, guest, ghost
  <1>5. CASE FillMetadata
    BY <1>5 DEF FillMetadata, TypeInv, TypeOK, HostGrows, guest
  <1>6. CASE WriteFails
    BY <1>6 DEF WriteFails, TypeInv, TypeOK, HostGrows, guest, share
  <1>7. CASE HostRestart
    <2>1. HostGrows'
      BY <1>0, <1>7 DEF HostRestart, HostGrows
    <2>. QED  BY <1>0, <1>7, <2>1 DEF HostRestart, TypeInv, TypeOK, guest, share
  <1>8. CASE GuestReadEnergy
    BY <1>8 DEF GuestReadEnergy, TypeInv, TypeOK, HostGrows, host, share
  <1>9. CASE GuestNoMetadata
    BY <1>9 DEF GuestNoMetadata, TypeInv, TypeOK, HostGrows, host, share
  <1>10. CASE GuestExport
    <2>1. HostGrows'
      BY <1>10 DEF GuestExport, TypeInv, HostGrows, host
    <2>2. Counter(metadata) \in Nat
      BY SignatureParts DEF TypeInv, TypeOK
    <2>3. /\ Append(charged, metadataAs) \in Seq(Nat)
          /\ Len(Append(charged, metadataAs)) = Len(charged) + 1
          /\ Len(charged) \in Nat
      BY AppendProperties, LenProperties DEF TypeInv, TypeOK
    <2>4. charged' \in Seq(Nat) /\ bootAt' \in 0..Len(charged')
      <3>1. charged' \in {charged, Append(charged, metadataAs)} /\ bootAt' = bootAt
        BY <1>10 DEF GuestExport
      <3>. QED  BY <2>3, <3>1, SMTT(30) DEF TypeInv, TypeOK
    <2>5. verdict' \in Verdicts
      BY <1>10 DEF GuestExport, Admit, Verdicts
    <2>6. counter' \in Nat /\ lastSig' \in Signatures /\ lastEnergy' \in Nat /\ known' \in BOOLEAN
      BY <1>10, <2>2 DEF GuestExport, TypeInv, TypeOK
    <2>. QED  BY <1>10, <2>1, <2>4, <2>5, <2>6
              DEF GuestExport, TypeInv, TypeOK, host, share
  <1>11. CASE GuestRestart
    <2>1. charged' = charged /\ bootAt' = Len(charged) /\ Len(charged) \in Nat
      BY <1>11, LenProperties DEF GuestRestart, TypeInv, TypeOK
    <2>2. bootAt' \in 0..Len(charged')
      BY <2>1
    <2>3. known' \in BOOLEAN
      BY <1>11, Zenon DEF GuestRestart
    <2>. QED  BY <1>0, <1>11, <2>1, <2>2, <2>3
              DEF GuestRestart, TypeInv, TypeOK, Verdicts, HostGrows, host, share
  <1>12. CASE UNCHANGED vars
    BY <1>12 DEF vars, host, share, guest, ghost, TypeInv, TypeOK, HostGrows
  <1>. QED  BY <1>1, <1>2, <1>3, <1>4, <1>5, <1>6, <1>7, <1>8, <1>9, <1>10,
               <1>11, <1>12 DEF Next, HostWrite, GuestPoll

\* Every variable of the energy chain keeps its type; in particular the value
\* written to energy_uj and the energies the guest keeps are never negative.
THEOREM TypeCorrect == Spec => []TypeOK
  <1>1. TypeInv => TypeOK
    BY DEF TypeInv
  <1>. QED  BY TypeInit, TypeStep, <1>1, PTL DEF Spec

-----------------------------------------------------------------------------
(* What the guest enclave charges *)

\* The step in the metadata file is an old one as long as a cycle is under way.
MetadataIsOld ==
    /\ metadataAs <= signedAs
    /\ hostPc # "idle" => metadataAs < signedAs

\* The last step charged is the one in the metadata file, or an older one; in
\* the first case the file still holds that very step, or is being rewritten.
ChargedIsOld ==
    /\ ~known => Len(charged) = bootAt
    /\ known => /\ bootAt < Len(charged)
                /\ charged[Len(charged)] <= metadataAs
                /\ charged[Len(charged)] = metadataAs
                     => metadata \in {lastSig, Zeros}

ChargeInv == TypeInv /\ AdmittedAsSigned /\ MetadataIsOld /\ ChargedIsOld
               /\ ChargedInOrder

\* What an accepted export does: the step is whole, it follows the step that
\* was admitted last, and it was not charged before.
LEMMA Accepted ==
    ASSUME ChargeInv, GuestExport, verdict' = "accept"
    PROVE  /\ known' = TRUE
           /\ counter' = Counter(metadata)
           /\ lastEnergy' = guestRead
           /\ lastSig' = metadata
           /\ charged' = Append(charged, metadataAs)
           /\ metadata # Zeros
           /\ guestRead = Cumulative(metadata)
           /\ known => /\ Previous(metadata) = lastSig
                       /\ charged[Len(charged)] < metadataAs
  <1>1. /\ metadata \in Signatures /\ guestRead \in Nat /\ metadataAs \in Nat
        /\ charged \in Seq(Nat) /\ bootAt \in Nat /\ lastSig \in Signatures
        /\ known \in BOOLEAN
    BY DEF ChargeInv, TypeInv, TypeOK
  <1>2. Admit(MacOk(guestRead, metadata),
              ~known \/ Previous(metadata) = lastSig,
              known, counter, lastEnergy,
              Counter(metadata), guestRead, Delta(metadata)) = "accept"
    BY DEF GuestExport
  <1>3. MacOk(guestRead, metadata)
    BY <1>2, Zenon DEF Admit
  <1>4. ~known \/ Previous(metadata) = lastSig
    BY <1>2, Zenon DEF Admit
  <1>5. metadata # Zeros /\ guestRead = Cumulative(metadata)
    BY <1>1, <1>3, MacOkMeansSigned
  <1>6. ASSUME known PROVE charged[Len(charged)] < metadataAs
    <2>1. Previous(metadata) = lastSig
      BY <1>4, <1>6
    <2>2. metadata # lastSig
      <3>1. Len(metadata) \in Nat /\ Len(lastSig) = Len(metadata) - 1
        BY <1>1, <1>5, <2>1, SignatureParts, LenProperties DEF Signatures
      <3>. QED  BY <3>1
    <2>3. charged[Len(charged)] # metadataAs
      BY <1>5, <1>6, <2>2 DEF ChargeInv, ChargedIsOld
    <2>4. charged[Len(charged)] \in Nat
      <3>1. Len(charged) \in Nat /\ Len(charged) \in 1..Len(charged)
        BY <1>1, <1>6, LenProperties DEF ChargeInv, ChargedIsOld
      <3>. QED  BY <1>1, <3>1, ElementOfSeq
    <2>. QED  BY <1>1, <1>6, <2>3, <2>4 DEF ChargeInv, ChargedIsOld
  <1>. QED  BY <1>4, <1>5, <1>6 DEF GuestExport

LEMMA ChargeInit == Init => ChargeInv
  <1>. SUFFICES ASSUME Init PROVE ChargeInv
    OBVIOUS
  <1>1. TypeInv
    BY TypeInit
  <1>2. Len(charged) = 0 /\ bootAt = 0 /\ known = FALSE
    BY EmptySeq DEF Init
  <1>3. AdmittedAsSigned /\ ChargedIsOld
    BY <1>2 DEF AdmittedAsSigned, ChargedIsOld
  <1>4. MetadataIsOld
    BY DEF Init, MetadataIsOld
  <1>5. ChargedInOrder
    BY <1>2 DEF ChargedInOrder
  <1>. QED  BY <1>1, <1>3, <1>4, <1>5 DEF ChargeInv

LEMMA ChargeStep == ChargeInv /\ [Next]_vars => ChargeInv'
  <1>. SUFFICES ASSUME ChargeInv, [Next]_vars PROVE ChargeInv'
    OBVIOUS
  <1>0. TypeInv'
    BY TypeStep DEF ChargeInv
  <1>t. /\ signedAs \in Nat /\ metadataAs \in Nat /\ charged \in Seq(Nat)
        /\ bootAt \in 0..Len(charged) /\ Len(charged) \in Nat
    BY LenProperties DEF ChargeInv, TypeInv, TypeOK
  <1>. DEFINE Guest == <<known, counter, lastSig, lastEnergy, charged, bootAt>>
  <1>k. ASSUME UNCHANGED Guest PROVE AdmittedAsSigned' /\ ChargedInOrder'
    BY <1>k DEF ChargeInv, AdmittedAsSigned, ChargedInOrder
  <1>1. CASE HostSign
    <2>1. UNCHANGED Guest /\ UNCHANGED <<metadata, metadataAs>>
      BY <1>1 DEF HostSign, guest, share
    <2>2. MetadataIsOld'
      BY <1>1, <1>t, <2>1 DEF HostSign, ChargeInv, MetadataIsOld
    <2>3. ChargedIsOld'
      BY <2>1 DEF ChargeInv, ChargedIsOld
    <2>. QED  BY <1>0, <1>k, <2>1, <2>2, <2>3 DEF ChargeInv
  <1>2. CASE OpenEnergy \/ FillEnergy \/ WriteFails \/ HostRestart
    <2>1. UNCHANGED Guest /\ UNCHANGED <<metadata, metadataAs, signedAs>>
      BY <1>2 DEF OpenEnergy, FillEnergy, WriteFails, HostRestart, guest, ghost, share
    <2>2. hostPc' # "idle" => hostPc # "idle"
      BY <1>2 DEF OpenEnergy, FillEnergy, WriteFails, HostRestart
    <2>3. MetadataIsOld'
      BY <2>1, <2>2 DEF ChargeInv, MetadataIsOld
    <2>4. ChargedIsOld'
      BY <2>1 DEF ChargeInv, ChargedIsOld
    <2>. QED  BY <1>0, <1>k, <2>1, <2>3, <2>4 DEF ChargeInv
  <1>3. CASE OpenMetadata
    <2>1. UNCHANGED Guest /\ UNCHANGED <<metadataAs, signedAs>>
      BY <1>3 DEF OpenMetadata, guest, ghost
    <2>2. MetadataIsOld'
      BY <1>3, <2>1 DEF OpenMetadata, ChargeInv, MetadataIsOld
    <2>3. ChargedIsOld'
      BY <1>3, <2>1 DEF OpenMetadata, ChargeInv, ChargedIsOld
    <2>. QED  BY <1>0, <1>k, <2>1, <2>2, <2>3 DEF ChargeInv
  <1>4. CASE FillMetadata
    <2>1. /\ UNCHANGED Guest
          /\ hostPc' = "idle" /\ metadataAs' = signedAs /\ signedAs' = signedAs
          /\ metadataAs < signedAs
      BY <1>4 DEF FillMetadata, guest, ChargeInv, MetadataIsOld
    <2>2. MetadataIsOld'
      BY <1>t, <2>1 DEF MetadataIsOld
    <2>3. known => charged[Len(charged)] \in Nat
      <3>1. known => Len(charged) \in 1..Len(charged)
        BY <1>t DEF ChargeInv, ChargedIsOld
      <3>. QED  BY <1>t, <3>1, ElementOfSeq
    <2>4. ChargedIsOld'
      BY <1>t, <2>1, <2>3 DEF ChargeInv, ChargedIsOld
    <2>. QED  BY <1>0, <1>k, <2>1, <2>2, <2>4 DEF ChargeInv
  <1>5. CASE GuestReadEnergy \/ GuestNoMetadata \/ UNCHANGED vars
    <2>1. UNCHANGED Guest /\ UNCHANGED <<hostPc, metadata, metadataAs, signedAs>>
      BY <1>5 DEF GuestReadEnergy, GuestNoMetadata, vars, host, share, guest, ghost
    <2>2. MetadataIsOld'
      BY <2>1 DEF ChargeInv, MetadataIsOld
    <2>3. ChargedIsOld'
      BY <2>1 DEF ChargeInv, ChargedIsOld
    <2>. QED  BY <1>0, <1>k, <2>1, <2>2, <2>3 DEF ChargeInv
  <1>6. CASE GuestExport
    <2>1. UNCHANGED <<hostPc, metadata, metadataAs, signedAs, bootAt>>
      BY <1>6 DEF GuestExport, host, share
    <2>2. MetadataIsOld'
      BY <2>1 DEF ChargeInv, MetadataIsOld
    <2>3. CASE verdict' = "accept"
      <3>1. /\ known' = TRUE
            /\ counter' = Counter(metadata)
            /\ lastEnergy' = guestRead
            /\ lastSig' = metadata
            /\ charged' = Append(charged, metadataAs)
            /\ metadata # Zeros
            /\ guestRead = Cumulative(metadata)
            /\ known => charged[Len(charged)] < metadataAs
        BY <1>6, <2>3, Accepted
      <3>2. AdmittedAsSigned'
        BY <2>1, <3>1 DEF AdmittedAsSigned
      <3>3. /\ Len(charged') = Len(charged) + 1
            /\ charged'[Len(charged) + 1] = metadataAs
            /\ \A i \in 1..Len(charged) : charged'[i] = charged[i]
        BY <1>t, <3>1, AppendProperties
      <3>4. ChargedIsOld'
        BY <1>t, <2>1, <3>1, <3>3 DEF ChargedIsOld
      <3>5. ChargedInOrder'
        <4>. SUFFICES ASSUME NEW i \in (bootAt + 1)..(Len(charged) + 1),
                             NEW j \in (bootAt + 1)..(Len(charged) + 1),
                             i < j
                      PROVE  charged'[i] < charged'[j]
          BY <2>1, <3>3 DEF ChargedInOrder
        <4>1. i \in (bootAt + 1)..Len(charged) /\ charged'[i] = charged[i]
          BY <1>t, <3>3
        <4>2. CASE j \in (bootAt + 1)..Len(charged)
          <5>1. charged'[j] = charged[j]
            BY <1>t, <3>3, <4>2
          <5>. QED  BY <4>1, <4>2, <5>1 DEF ChargeInv, ChargedInOrder
        <4>3. CASE j = Len(charged) + 1
          <5>1. known
            BY <1>t, <4>1 DEF ChargeInv, ChargedIsOld
          <5>2. charged[i] \in Nat /\ charged[Len(charged)] \in Nat
            BY <1>t, <4>1, ElementOfSeq
          <5>3. charged[i] <= charged[Len(charged)]
            BY <1>t, <4>1, <5>2 DEF ChargeInv, ChargedInOrder
          <5>. QED  BY <1>t, <3>1, <3>3, <4>1, <4>3, <5>1, <5>2, <5>3
        <4>. QED  BY <1>t, <4>2, <4>3
      <3>. QED  BY <1>0, <2>2, <3>2, <3>4, <3>5 DEF ChargeInv
    <2>4. CASE verdict' # "accept"
      <3>1. UNCHANGED Guest
        BY <1>6, <2>4 DEF GuestExport
      <3>2. ChargedIsOld'
        BY <2>1, <3>1 DEF ChargeInv, ChargedIsOld
      <3>. QED  BY <1>0, <1>k, <2>2, <3>1, <3>2 DEF ChargeInv
    <2>. QED  BY <2>3, <2>4
  <1>7. CASE GuestRestart
    <2>1. /\ known' = FALSE /\ bootAt' = Len(charged) /\ charged' = charged
          /\ UNCHANGED <<hostPc, metadataAs, signedAs>>
      BY <1>7 DEF GuestRestart, host, share
    <2>2. MetadataIsOld'
      BY <2>1 DEF ChargeInv, MetadataIsOld
    <2>3. AdmittedAsSigned' /\ ChargedIsOld'
      BY <2>1 DEF AdmittedAsSigned, ChargedIsOld
    <2>4. ChargedInOrder'
      BY <1>t, <2>1 DEF ChargedInOrder
    <2>. QED  BY <1>0, <2>2, <2>3, <2>4 DEF ChargeInv
  <1>. QED  BY <1>1, <1>2, <1>3, <1>4, <1>5, <1>6, <1>7
            DEF Next, HostWrite, GuestPoll

\* Whatever is restarted or lost and however the polls interleave with the
\* writes, what the guest enclave admitted is one step the host signed, whole.
THEOREM AdmittedSteps == Spec => []AdmittedAsSigned
  <1>1. ChargeInv => AdmittedAsSigned
    BY DEF ChargeInv
  <1>. QED  BY ChargeInit, ChargeStep, <1>1, PTL DEF Spec

\* A guest enclave charges no step twice, and charges them in the order in
\* which the host signed them.
THEOREM ChargesInOrder == Spec => []ChargedInOrder
  <1>1. ChargeInv => ChargedInOrder
    BY DEF ChargeInv
  <1>. QED  BY ChargeInit, ChargeStep, <1>1, PTL DEF Spec

-----------------------------------------------------------------------------
(* What a step of the guest enclave may not do *)

\* A guest enclave that knows a chain moves only to the direct successor of the
\* step it admitted last.
THEOREM GuestNeverJumps == Spec => NoJumps
  <1>1. ASSUME ChargeInv, [Next]_vars, known, known', lastSig' # lastSig
        PROVE  Previous(lastSig') = lastSig
    <2>1. CASE GuestExport
      <3>1. verdict' = "accept"
        BY <1>1, <2>1 DEF GuestExport
      <3>. QED  BY <1>1, <2>1, <3>1, Accepted
    <2>2. CASE ~GuestExport
      BY <1>1, <2>2
         DEF Next, HostWrite, GuestPoll, HostSign, OpenEnergy, FillEnergy,
             OpenMetadata, FillMetadata, WriteFails, HostRestart,
             GuestReadEnergy, GuestNoMetadata, GuestRestart,
             vars, host, share, guest, ghost
    <2>. QED  BY <2>1, <2>2
  <1>2. ChargeInv /\ [Next]_vars
          => [known /\ known' /\ lastSig' # lastSig => Previous(lastSig') = lastSig]_vars
    BY <1>1
  <1>. QED  BY ChargeInit, ChargeStep, <1>2, PTL DEF Spec, NoJumps

\* A signature that is no prefix of another one has no prefix as a successor.
LEMMA SuccessorOfStranger ==
    ASSUME NEW s \in Signatures, NEW last \in Signatures, NEW e \in Nat,
           Len(s) <= Len(last) => SubSeq(last, 1, Len(s)) # s
    PROVE  /\ s # last
           /\ Len(Sign(s, e)) <= Len(last)
                => SubSeq(last, 1, Len(Sign(s, e))) # Sign(s, e)
  <1>0. Len(s) \in Nat /\ Len(last) \in Nat
    BY LenProperties DEF Signatures
  <1>1. s # last
    <2>1. SubSeq(last, 1, Len(last)) = last
      BY SubSeqFull DEF Signatures
    <2>. QED  BY <1>0, <2>1
  <1>2. ASSUME Len(Sign(s, e)) <= Len(last),
               SubSeq(last, 1, Len(Sign(s, e))) = Sign(s, e)
        PROVE  FALSE
    <2>1. /\ Len(Sign(s, e)) = Len(s) + 1
          /\ \A i \in 1..Len(s) : Sign(s, e)[i] = s[i]
      BY AppendProperties DEF Sign, Signatures
    <2>2. \A i \in 1..(Len(s) + 1) : last[i] \in Nat
      BY <1>0, <1>2, <2>1, ElementOfSeq DEF Signatures
    <2>3. \A i \in 1..(Len(s) + 1 - 1 + 1) :
             SubSeq(last, 1, Len(s) + 1)[i] = last[1 + i - 1]
      <3>1. Len(s) + 1 \in Int /\ 1 \in Int
        BY <1>0
      <3>. QED  BY <2>2, <3>1, SubSeqProperties
    <2>4. \A i \in 1..Len(s) : last[i] = s[i]
      <3>. TAKE i \in 1..Len(s)
      <3>1. i \in 1..(Len(s) + 1 - 1 + 1) /\ 1 + i - 1 = i
        BY <1>0
      <3>2. SubSeq(last, 1, Len(s) + 1)[i] = last[i]
        BY <2>3, <3>1
      <3>. QED  BY <1>2, <2>1, <3>2
    <2>5. /\ SubSeq(last, 1, Len(s)) \in Seq(Nat)
          /\ Len(SubSeq(last, 1, Len(s))) = IF 1 <= Len(s) THEN Len(s) - 1 + 1 ELSE 0
          /\ \A i \in 1..(Len(s) - 1 + 1) : SubSeq(last, 1, Len(s))[i] = last[1 + i - 1]
      BY <1>0, <2>2, SubSeqProperties
    <2>6. SubSeq(last, 1, Len(s)) = s
      BY <1>0, <2>4, <2>5, SeqEqual DEF Signatures
    <2>. QED  BY <1>0, <1>2, <2>1, <2>6
  <1>. QED  BY <1>1, <1>2

\* Once the guest enclave has been passed by, it charges nothing any more until
\* one of the two enclaves is restarted.
THEOREM PassedByForGood == Spec => PassedByIsFinal
  <1>1. ASSUME ChargeInv, [Next]_vars, PassedBy, known', hostSig' # Zeros
        PROVE  PassedBy' /\ charged' = charged
    <2>. USE <1>1
    <2>0. hostSig \in Signatures /\ lastSig \in Signatures /\ metadata \in Signatures
      BY DEF ChargeInv, TypeInv, TypeOK
    <2>1. CASE HostSign
      <3>1. PICK d \in Deltas : hostSig' = Sign(hostSig, Cumulative(hostSig) + d)
        BY <2>1 DEF HostSign
      <3>2. Cumulative(hostSig) + d \in Nat
        BY <2>0, SignatureParts, EnergyAssumption
      <3>3. Previous(hostSig') = hostSig
        BY <2>0, <3>1, <3>2, SignIsInjective
      <3>4. /\ hostSig # lastSig
            /\ Len(hostSig') <= Len(lastSig)
                 => SubSeq(lastSig, 1, Len(hostSig')) # hostSig'
        BY <2>0, <3>1, <3>2, SuccessorOfStranger DEF PassedBy
      <3>. QED  BY <2>1, <3>3, <3>4 DEF HostSign, PassedBy, share, guest
    <2>2. CASE OpenEnergy \/ FillEnergy \/ OpenMetadata \/ FillMetadata
      BY <2>2 DEF PassedBy, OpenEnergy, FillEnergy, OpenMetadata, FillMetadata,
                  guest, ghost
    <2>3. CASE WriteFails
      BY <2>3 DEF PassedBy, WriteFails, guest, share
    <2>4. CASE HostRestart \/ GuestRestart
      BY <2>4 DEF HostRestart, GuestRestart
    <2>5. CASE GuestReadEnergy \/ GuestNoMetadata
      BY <2>5 DEF PassedBy, GuestReadEnergy, GuestNoMetadata, host, share
    <2>6. CASE GuestExport
      <3>1. verdict' # "accept"
        BY <2>6, Accepted DEF PassedBy
      <3>. QED  BY <2>6, <3>1 DEF PassedBy, GuestExport, host, share
    <2>7. CASE UNCHANGED vars
      BY <2>7 DEF PassedBy, vars, host, share, guest, ghost
    <2>. QED  BY <2>1, <2>2, <2>3, <2>4, <2>5, <2>6, <2>7
              DEF Next, HostWrite, GuestPoll
  <1>2. ChargeInv /\ [Next]_vars
          => [(PassedBy /\ known' /\ hostSig' # Zeros)
                => PassedBy' /\ charged' = charged]_vars
    BY <1>1
  <1>. QED  BY ChargeInit, ChargeStep, <1>2, PTL DEF Spec, PassedByIsFinal

-----------------------------------------------------------------------------
(* What the files hold *)

\* How far the files are behind the chain while a cycle is under way.
FilesCatchUp ==
    /\ hostPc # "idle" => hostSig # Zeros
    /\ ~missed =>
         /\ hostPc = "energy" => \/ Previous(hostSig) = Zeros
                                 \/ energyUj = Cumulative(Previous(hostSig))
         /\ hostPc = "fill_energy" => hostValue = Cumulative(hostSig)
         /\ hostPc \in {"metadata", "fill_metadata"} => energyUj = Cumulative(hostSig)

FileInv == TypeInv /\ FilesCatchUp /\ FilesFollowChain

LEMMA FileInit == Init => FileInv
  BY TypeInit DEF Init, FileInv, FilesCatchUp, FilesFollowChain

LEMMA FileStep == FileInv /\ [Next]_vars => FileInv'
  <1>. SUFFICES ASSUME FileInv, [Next]_vars PROVE FileInv'
    OBVIOUS
  <1>0. TypeInv'
    BY TypeStep DEF FileInv
  <1>t. /\ hostSig \in Signatures /\ energyUj \in Nat
        /\ Cumulative(hostSig) \in Nat /\ Previous(hostSig) \in Signatures
        /\ Cumulative(Previous(hostSig)) \in Nat
    BY SignatureParts DEF FileInv, TypeInv, TypeOK
  <1>1. CASE HostSign
    <2>1. PICK d \in Deltas : hostSig' = Sign(hostSig, Cumulative(hostSig) + d)
      BY <1>1 DEF HostSign
    <2>2. Cumulative(hostSig) + d \in Nat
      BY <1>t, EnergyAssumption
    <2>3. hostSig' # Zeros /\ Previous(hostSig)' = hostSig
      BY <1>t, <2>1, <2>2, SignIsInjective
    <2>4. ~missed' => hostPc' = "energy" /\ ~missed
      BY <1>1 DEF HostSign
    <2>5. hostPc = "idle" /\ energyUj' = energyUj
      BY <1>1 DEF HostSign, share
    <2>6. ~missed' => hostSig = Zeros \/ energyUj = Cumulative(hostSig)
      BY <2>4, <2>5 DEF FileInv, FilesFollowChain
    <2>7. FilesCatchUp'
      BY <2>3, <2>4, <2>5, <2>6 DEF FilesCatchUp
    <2>8. FilesFollowChain'
      BY <2>4 DEF FilesFollowChain
    <2>. QED  BY <1>0, <2>7, <2>8 DEF FileInv
  <1>2. CASE OpenEnergy
    <2>1. hostSig # Zeros
      BY <1>2 DEF OpenEnergy, FileInv, FilesCatchUp
    <2>2. Previous(hostSig) = Zeros
            => Counter(hostSig) = 1 /\ Cumulative(Previous(hostSig)) = 0
      <3>1. Len(Previous(hostSig)) = Len(hostSig) - 1 /\ Len(hostSig) \in Nat
        BY <1>t, <2>1, SignatureParts, LenProperties DEF Signatures
      <3>2. Previous(hostSig) = Zeros => Len(Previous(hostSig)) = 0
        BY EmptySeq DEF Zeros
      <3>. QED  BY <3>1, <3>2, SMTT(30) DEF Counter, Cumulative
    <2>3. ~missed => NewEnergy(hostSig) = Cumulative(hostSig)
      BY <1>t, <1>2, <2>2 DEF OpenEnergy, FileInv, FilesCatchUp, NewEnergy, Delta
    <2>4. FilesCatchUp'
      BY <1>2, <2>1, <2>3 DEF OpenEnergy, FilesCatchUp, ghost
    <2>5. FilesFollowChain'
      BY <1>2 DEF OpenEnergy, FilesFollowChain
    <2>. QED  BY <1>0, <2>4, <2>5 DEF FileInv
  <1>3. CASE FillEnergy \/ OpenMetadata \/ FillMetadata
    <2>1. FilesCatchUp'
      BY <1>3 DEF FillEnergy, OpenMetadata, FillMetadata, FileInv, FilesCatchUp, ghost
    <2>2. FilesFollowChain'
      BY <1>3 DEF FillEnergy, OpenMetadata, FillMetadata, FileInv, FilesCatchUp,
                  FilesFollowChain, ghost
    <2>. QED  BY <1>0, <2>1, <2>2 DEF FileInv
  <1>4. CASE WriteFails \/ HostRestart
    BY <1>0, <1>4 DEF WriteFails, HostRestart, FileInv, FilesCatchUp, FilesFollowChain
  <1>5. CASE GuestReadEnergy \/ GuestNoMetadata \/ GuestExport \/ GuestRestart
               \/ UNCHANGED vars
    <2>1. UNCHANGED <<host, share, missed>>
      BY <1>5 DEF GuestReadEnergy, GuestNoMetadata, GuestExport, GuestRestart,
                  vars, ghost
    <2>. QED  BY <1>0, <2>1 DEF FileInv, FilesCatchUp, FilesFollowChain, host, share
  <1>. QED  BY <1>1, <1>2, <1>3, <1>4, <1>5 DEF Next, HostWrite, GuestPoll

\* Between two cycles the two files hold the chain of the running host enclave
\* unless one of its writes or responses was lost, however often the enclave
\* was restarted and at whatever point.
THEOREM FilesInStep == Spec => []FilesFollowChain
  <1>1. FileInv => FilesFollowChain
    BY DEF FileInv
  <1>. QED  BY FileInit, FileStep, <1>1, PTL DEF Spec

=============================================================================
