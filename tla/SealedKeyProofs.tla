--------------------------- MODULE SealedKeyProofs ---------------------------
(***************************************************************************)
(* Proofs about SealedKey, for any number of exporters, boot states,       *)
(* attempts and keys.                                                      *)
(***************************************************************************)
EXTENDS SealedKey, TLAPS

\* Before tpm2_create: nothing is sealed yet, unless two exporters raced.
Unsealed == {"temp", "primary", "policy", "create"}

\* What an exporter on its way to a key has at hand.
StepInv ==
    \A p \in Exporters :
        /\ pc[p] \in Creating => key[p] # NoKey
        /\ pc[p] = "create" => policy # NoBoot
        /\ pc[p] \notin {"off", "runs"} => tries[p] < Attempts

TypeInv == TypeOK /\ StepInv

LEMMA TypeInit == Init => TypeInv
<1> SUFFICES ASSUME Init PROVE TypeInv
    OBVIOUS
<1>1. /\ machine \in [kind: {"host", "vm"}, tpm: BOOLEAN]
      /\ raced \in BOOLEAN
      /\ cut \in BOOLEAN
    BY DEF Init
<1>2. TypeOK
    BY <1>1, SealedKeyAssumption DEF Init, TypeOK, Keys, NoKey, NoBoot, Nothing
<1>3. StepInv
    BY DEF Init, StepInv, Creating
<1>4. QED
    BY <1>2, <1>3 DEF TypeInv

\* Every step keeps the types.
LEMMA TypeStep == TypeInv /\ [Next]_vars => TypeInv'
<1> SUFFICES ASSUME TypeInv, [Next]_vars
             PROVE  TypeInv'
    OBVIOUS
<1> USE SealedKeyAssumption
    DEF TypeInv, TypeOK, StepInv, Keys, Creating, NoKey, VmKey, NoBoot, Nothing,
        Goto
<1>1. ASSUME NEW p \in Exporters, Start(p) PROVE TypeInv'
    BY <1>1 DEF Start, Denied, Runs, Exposing, files
<1>2. ASSUME NEW p \in Exporters, Attest(p) \/ AttestFails(p) PROVE TypeInv'
    BY <1>2 DEF Attest, AttestFails, Denied, Runs, Exposing, files
<1>3. ASSUME NEW p \in Exporters, Look(p) PROVE TypeInv'
    <2>1. raced' \in BOOLEAN
        BY <1>3 DEF Look, Generates
    <2>2. CASE sealed # Nothing
        BY <1>3, <2>1, <2>2 DEF Look, files
    <2>3. CASE sealed = Nothing
        BY <1>3, <2>1, <2>3 DEF Look, Generates, files
    <2>4. QED
        BY <2>2, <2>3
<1>4. ASSUME NEW p \in Exporters,
             WriteTemp(p) \/ CreatePrimary(p) \/ CreatePolicy(p)
      PROVE  TypeInv'
    BY <1>4 DEF WriteTemp, CreatePrimary, CreatePolicy, files
<1>5. ASSUME NEW p \in Exporters, Create(p) PROVE TypeInv'
    BY <1>5 DEF Create
<1>6. ASSUME NEW p \in Exporters, RemoveTemp(p) \/ CreateFails(p) PROVE TypeInv'
    <2>1. CASE RemoveTemp(p)
        BY <1>6, <2>1 DEF RemoveTemp, Runs
    <2>2. CASE CreateFails(p)
        BY <1>6, <2>2 DEF CreateFails, Denied, Runs, Exposing, files
    <2>3. QED
        BY <1>6, <2>1, <2>2
<1>7. ASSUME NEW p \in Exporters, Load(p) \/ Unseal(p) PROVE TypeInv'
    BY <1>7 DEF Load, Unseal, Runs, files
<1>8. ASSUME NEW p \in Exporters, UnsealRaces(p) \/ UnsealFails(p) PROVE TypeInv'
    BY <1>8 DEF UnsealRaces, UnsealFails, Denied, Runs, Exposing, files
<1>9. ASSUME NEW p \in Exporters, Stop(p) PROVE TypeInv'
    BY <1>9 DEF Stop, Exposing, files
<1>10. CASE Reboot
    BY <1>10 DEF Reboot, Exposing, files
<1>11. CASE UNCHANGED vars
    BY <1>11 DEF vars, files
<1>12. QED
    BY <1>1, <1>2, <1>3, <1>4, <1>5, <1>6, <1>7, <1>8, <1>9, <1>10, <1>11
       DEF Next, Step

\* Types of the key files, the exporters and their progress: what
\* create_and_seal_key_via_tpm2tools seals is always a key under the policy of
\* some boot, and unseal_with_pcr_policy stays within its attempts.
THEOREM TypeCorrect == Spec => []TypeOK
<1>1. TypeInv => TypeOK
    BY DEF TypeInv
<1>2. QED
    BY <1>1, TypeInit, TypeStep, PTL DEF Spec

-----------------------------------------------------------------------------
(* The key that is used, and its plain text *)

\* While no two exporters create at once, the one that does owns the files,
\* and what was sealed stays.
AloneInv ==
    ~raced =>
        /\ \A p, q \in Exporters :
              pc[p] \in Creating /\ pc[q] \in Creating => p = q
        /\ \A p \in Exporters :
              /\ pc[p] \in Unsealed => sealed = Nothing
              /\ pc[p] \in Unsealed \ {"temp"} => temp = key[p]
              /\ pc[p] = "create" => policy = boot
              /\ pc[p] = "remove" => sealed = [key |-> key[p], policy |-> boot]
              /\ pc[p] \in {"load", "unseal"} => sealed # Nothing
              /\ pc[p] = "unseal" => loaded = sealed

KeyInv == TypeInv /\ AloneInv /\ KeyIsSealed /\ NoPlaintextLeft

LEMMA KeyInit == Init => KeyInv
<1> SUFFICES ASSUME Init PROVE KeyInv
    OBVIOUS
<1>1. AloneInv /\ KeyIsSealed /\ NoPlaintextLeft
    BY DEF Init, AloneInv, KeyIsSealed, NoPlaintextLeft, Creating, Unsealed, Nothing
<1>2. QED
    BY <1>1, TypeInit DEF KeyInv

\* Every step keeps the owner of the files alone, the signing key sealed and
\* the plain text removed.
LEMMA KeyStep == KeyInv /\ [Next]_vars => KeyInv'
<1> SUFFICES ASSUME KeyInv, [Next]_vars
             PROVE  (AloneInv /\ KeyIsSealed /\ NoPlaintextLeft)'
    BY TypeStep DEF KeyInv
<1> DEFINE Goal == (AloneInv /\ KeyIsSealed /\ NoPlaintextLeft)'
<1> USE SealedKeyAssumption
    DEF KeyInv, TypeInv, TypeOK, StepInv, AloneInv, KeyIsSealed, NoPlaintextLeft,
        Keys, Creating, Unsealed, NoKey, NoBoot, Nothing, Goto
<1>1. ASSUME NEW p \in Exporters, Start(p) PROVE Goal
    BY <1>1 DEF Start, Denied, Runs, Exposing, files
<1>2. ASSUME NEW p \in Exporters, Attest(p) \/ AttestFails(p) PROVE Goal
    BY <1>2 DEF Attest, AttestFails, Denied, Runs, Exposing, files
<1>3. ASSUME NEW p \in Exporters, Look(p) PROVE Goal
    <2>1. CASE sealed # Nothing
        BY <1>3, <2>1 DEF Look, files
    <2>2. CASE sealed = Nothing
        <3>1. ~raced' => ~raced /\ \A q \in Exporters : pc[q] \notin Creating
            BY <1>3, <2>2 DEF Look, Generates
        <3>2. pc' = [pc EXCEPT ![p] = "temp"] /\ UNCHANGED <<machine, boot, files, sensor, cut>>
            BY <1>3, <2>2 DEF Look, Generates
        <3>3. AloneInv'
            BY <2>2, <3>1, <3>2, ZenonT(60) DEF files
        <3>4. KeyIsSealed' /\ NoPlaintextLeft'
            BY <2>2, <3>1, <3>2 DEF files
        <3>5. QED
            BY <3>3, <3>4
    <2>3. QED
        BY <2>1, <2>2
<1>4. ASSUME NEW p \in Exporters, WriteTemp(p) PROVE Goal
    BY <1>4 DEF WriteTemp
<1>5. ASSUME NEW p \in Exporters, CreatePrimary(p) \/ CreatePolicy(p) PROVE Goal
    BY <1>5 DEF CreatePrimary, CreatePolicy, files
<1>6. ASSUME NEW p \in Exporters, Create(p) PROVE Goal
    BY <1>6 DEF Create
<1>7. ASSUME NEW p \in Exporters, RemoveTemp(p) PROVE Goal
    BY <1>7 DEF RemoveTemp, Runs
<1>8. ASSUME NEW p \in Exporters, CreateFails(p) PROVE Goal
    <2>1. AloneInv'
        BY <1>8 DEF CreateFails, Denied, Runs, files
    <2>2. KeyIsSealed'
        BY <1>8 DEF CreateFails, Denied, Runs, files
    <2>3. NoPlaintextLeft'
        <3>1. \A q \in Exporters : q # p => pc'[q] = pc[q]
            BY <1>8 DEF CreateFails, Denied, Runs
        <3>2. pc[p] = "remove" => cut'
            BY <1>8 DEF CreateFails, Denied, Exposing
        <3>3. cut => cut'
            BY <1>8 DEF CreateFails, Denied
        <3>4. UNCHANGED <<sealed, temp, raced>>
            BY <1>8 DEF CreateFails, files
        <3>5. QED
            BY <3>1, <3>2, <3>3, <3>4
    <2>4. QED
        BY <2>1, <2>2, <2>3
<1>9. ASSUME NEW p \in Exporters, Load(p) PROVE Goal
    BY <1>9 DEF Load
<1>10. ASSUME NEW p \in Exporters, Unseal(p) PROVE Goal
    BY <1>10 DEF Unseal, Runs, files
<1>11. ASSUME NEW p \in Exporters, UnsealRaces(p) \/ UnsealFails(p) PROVE Goal
    BY <1>11 DEF UnsealRaces, UnsealFails, Denied, Runs, Exposing, files
<1>12. ASSUME NEW p \in Exporters, Stop(p) PROVE Goal
    BY <1>12, ZenonT(60) DEF Stop, Exposing, files
<1>13. CASE Reboot
    BY <1>13 DEF Reboot, Exposing, files
<1>14. CASE UNCHANGED vars
    BY <1>14 DEF vars, files
<1>15. QED
    BY <1>1, <1>2, <1>3, <1>4, <1>5, <1>6, <1>7, <1>8, <1>9, <1>10, <1>11,
       <1>12, <1>13, <1>14
       DEF Next, Step

\* A host that runs signs with a key, and unless two exporters created one at
\* the same time it is the key in hmac_key_sealed.bin, sealed in this very
\* boot state: for any tools that fail, stops and reboots.
THEOREM HostsUseTheSealedKey == Spec => []KeyIsSealed
<1>1. KeyInv => KeyIsSealed
    BY DEF KeyInv
<1>2. QED
    BY <1>1, KeyInit, KeyStep, PTL DEF Spec

\* remove_file in create_and_seal_key_via_tpm2tools, and the next creation's
\* fs::write, leave no plain text of a sealed key behind, unless a creation
\* ended in between or two ran at once.
THEOREM PlaintextIsRemoved == Spec => []NoPlaintextLeft
<1>1. KeyInv => NoPlaintextLeft
    BY DEF KeyInv
<1>2. QED
    BY <1>1, KeyInit, KeyStep, PTL DEF Spec

=============================================================================
