------------------------------ MODULE SealedKey ------------------------------
(***************************************************************************)
(* How the exporters of a machine get the key that signs sensor readings:  *)
(* TpmAttestation creates it once, seals it to the boot state (PCR 0 and   *)
(* 7) with the tpm2 tools, and unseals it at every later start.  All       *)
(* exporters of the machine share the files of one directory; each tool    *)
(* reads and writes them on its own, and a tool may fail, the exporter may *)
(* stop and the machine may boot into another state between any two.       *)
(*                                                                         *)
(* A host refuses to run without the key; a VM runs without it, and signs  *)
(* with a key derived from its name in any case.                           *)
(***************************************************************************)
EXTENDS Integers

CONSTANTS
    Exporters,  \* the exporters that are started on the machine
    Boots,      \* boot states, as PCR 0 and 7 measure them
    Attempts,   \* tries to unseal (12 in the code)
    MaxKeys     \* bound: starts that generate a key

ASSUME SealedKeyAssumption ==
    /\ "none" \notin Boots
    /\ Attempts \in Nat \ {0}
    /\ MaxKeys \in Nat

VARIABLES
    machine,  \* "host" or "vm", and whether it has a TPM
    boot,     \* the state it booted into
    temp,     \* hmac_key_temp.bin, the key in plain text
    policy,   \* pcr.policy, the boot state it was made in
    sealed,   \* hmac_key_sealed.bin and .pub: a key and its policy
    loaded,   \* sealed_key.ctx, the sealed key last loaded into the TPM
    pc,       \* how far each exporter is
    key,      \* the key an exporter generated
    tries,    \* how often it tried to unseal
    sensor,   \* SENSOR_HMAC_KEY of each exporter
    made,     \* keys generated so far
    raced,    \* two exporters were creating a key at the same time
    cut       \* a creation ended between tpm2_create and remove_file

files == <<temp, policy, sealed, loaded>>
vars == <<machine, boot, files, pc, key, tries, sensor, made, raced, cut>>

NoKey == 0
VmKey == -1
NoBoot == "none"
Nothing == [key |-> NoKey, policy |-> NoBoot]

Creating == {"temp", "primary", "policy", "create", "remove"}

Init ==
    /\ machine \in [kind: {"host", "vm"}, tpm: BOOLEAN]
    /\ boot \in Boots
    /\ temp = NoKey
    /\ policy = NoBoot
    /\ sealed = Nothing
    /\ loaded = Nothing
    /\ pc = [p \in Exporters |-> "off"]
    /\ key = [p \in Exporters |-> NoKey]
    /\ tries = [p \in Exporters |-> 0]
    /\ sensor = [p \in Exporters |-> NoKey]
    /\ made = 0
    /\ raced = FALSE
    /\ cut = FALSE

-----------------------------------------------------------------------------

\* The exporter goes on to another step.
Goto(p, step) == pc' = [pc EXCEPT ![p] = step]

\* Exporters whose key is in plain text although it is sealed.
Exposing(ps) == \E p \in ps : pc[p] = "remove"

\* main: it signs with key k from now on, unless it runs in a VM.
Runs(p, k) ==
    /\ Goto(p, "runs")
    /\ sensor' = [sensor EXCEPT ![p] = IF machine.kind = "vm" THEN VmKey ELSE k]

\* Without a key a host exits, and a VM goes on.
Denied(p) ==
    /\ cut' = (cut \/ Exposing({p}))
    /\ IF machine.kind = "vm" THEN Runs(p, NoKey)
                              ELSE Goto(p, "off") /\ UNCHANGED sensor

Start(p) ==
    /\ pc[p] = "off"
    /\ key' = [key EXCEPT ![p] = NoKey]
    /\ tries' = [tries EXCEPT ![p] = 0]
    /\ IF machine.tpm THEN Goto(p, "pcrs") /\ UNCHANGED <<sensor, cut>> ELSE Denied(p)
    /\ UNCHANGED <<machine, boot, files, made, raced>>

\* Reading PCRs, then PCRs and log for the enclave, and on a host the
\* enclave's verdict on them, which decides whether it gets to its key.
Attest(p) ==
    /\ \/ pc[p] = "pcrs"   /\ Goto(p, "quote")
       \/ pc[p] = "quote"  /\ Goto(p, IF machine.kind = "host" THEN "verify" ELSE "look")
       \/ pc[p] = "verify" /\ Goto(p, "look")
    /\ UNCHANGED <<machine, boot, files, key, tries, sensor, made, raced, cut>>

AttestFails(p) ==
    /\ pc[p] \in {"pcrs", "quote", "verify"}
    /\ Denied(p)
    /\ UNCHANGED <<machine, boot, files, key, tries, made, raced>>

Generates(p) ==
    /\ made < MaxKeys
    /\ made' = made + 1
    /\ key' = [key EXCEPT ![p] = made + 1]
    /\ raced' = (raced \/ \E q \in Exporters : pc[q] \in Creating)
    /\ Goto(p, "temp")

\* Mutant: a key is made although one is sealed.
LookAlways(p) ==
    /\ pc[p] = "look"
    /\ Generates(p)
    /\ UNCHANGED <<machine, boot, files, tries, sensor, cut>>

\* Whether a sealed key exists decides between unsealing and creating.
Look(p) ==
    /\ pc[p] = "look"
    /\ \/ sealed # Nothing /\ Goto(p, "load") /\ UNCHANGED <<key, made, raced>>
       \/ sealed = Nothing /\ Generates(p)
    /\ UNCHANGED <<machine, boot, files, tries, sensor, cut>>

WriteTemp(p) ==
    /\ pc[p] = "temp"
    /\ temp' = key[p]
    /\ Goto(p, "primary")
    /\ UNCHANGED <<machine, boot, policy, sealed, loaded, key, tries, sensor, made, raced, cut>>

CreatePrimary(p) ==
    /\ pc[p] = "primary"
    /\ Goto(p, "policy")
    /\ UNCHANGED <<machine, boot, files, key, tries, sensor, made, raced, cut>>

CreatePolicy(p) ==
    /\ pc[p] = "policy"
    /\ policy' = boot
    /\ Goto(p, "create")
    /\ UNCHANGED <<machine, boot, temp, sealed, loaded, key, tries, sensor, made, raced, cut>>

\* tpm2_create seals what the temporary file holds, under the policy file.
Create(p) ==
    /\ pc[p] = "create"
    /\ temp # NoKey
    /\ sealed' = [key |-> temp, policy |-> policy]
    /\ Goto(p, "remove")
    /\ UNCHANGED <<machine, boot, temp, policy, loaded, key, tries, sensor, made, raced, cut>>

\* Mutant: the plain text is removed only after it is known to be unneeded.
RemoveLater(p) ==
    /\ pc[p] = "remove"
    /\ Runs(p, key[p])
    /\ UNCHANGED <<machine, boot, files, key, tries, made, raced, cut>>

\* The key is used only after its plain text was deleted.
RemoveTemp(p) ==
    /\ pc[p] = "remove"
    /\ temp # NoKey
    /\ temp' = NoKey
    /\ Runs(p, key[p])
    /\ UNCHANGED <<machine, boot, policy, sealed, loaded, key, tries, made, raced, cut>>

\* A tool or a file operation fails; another exporter may have removed the
\* temporary file.  What was written so far stays.
CreateFails(p) ==
    /\ pc[p] \in Creating
    /\ Denied(p)
    /\ UNCHANGED <<machine, boot, files, key, tries, made, raced>>

\* tpm2_createprimary gives the same key each time; tpm2_load writes the context.
Load(p) ==
    /\ pc[p] = "load"
    /\ loaded' = sealed
    /\ Goto(p, "unseal")
    /\ UNCHANGED <<machine, boot, temp, policy, sealed, key, tries, sensor, made, raced, cut>>

Unseal(p) ==
    /\ pc[p] = "unseal"
    /\ loaded.policy = boot
    /\ Runs(p, loaded.key)
    /\ UNCHANGED <<machine, boot, files, key, tries, made, raced, cut>>

\* IMA extended a PCR between the policy check and the unsealing.
UnsealRaces(p) ==
    /\ pc[p] = "unseal"
    /\ tries' = [tries EXCEPT ![p] = @ + 1]
    /\ IF tries[p] + 1 < Attempts THEN UNCHANGED <<pc, sensor, cut>> ELSE Denied(p)
    /\ UNCHANGED <<machine, boot, files, key, made, raced>>

\* A tool fails, or the boot state is not the one of the sealing.
UnsealFails(p) ==
    /\ pc[p] \in {"load", "unseal"}
    /\ Denied(p)
    /\ UNCHANGED <<machine, boot, files, key, tries, made, raced>>

\* The exporter ends, at any point.
Stop(p) ==
    /\ pc[p] # "off"
    /\ Goto(p, "off")
    /\ sensor' = [sensor EXCEPT ![p] = NoKey]
    /\ cut' = (cut \/ Exposing({p}))
    /\ UNCHANGED <<machine, boot, files, key, tries, made, raced>>

\* The machine boots, perhaps into another state.
Reboot ==
    /\ boot' \in Boots
    /\ pc' = [p \in Exporters |-> "off"]
    /\ sensor' = [p \in Exporters |-> NoKey]
    /\ cut' = (cut \/ Exposing(Exporters))
    /\ UNCHANGED <<machine, files, key, tries, made, raced>>

Step(p) ==
    \/ Start(p) \/ Attest(p) \/ AttestFails(p) \/ Look(p)
    \/ WriteTemp(p) \/ CreatePrimary(p) \/ CreatePolicy(p) \/ Create(p) \/ RemoveTemp(p)
    \/ CreateFails(p) \/ Load(p) \/ Unseal(p) \/ UnsealRaces(p) \/ UnsealFails(p)

Next == (\E p \in Exporters : Step(p) \/ Stop(p)) \/ Reboot

Spec == Init /\ [][Next]_vars

-----------------------------------------------------------------------------
(* Properties *)

Keys == 0..made

\* Types.  A key is sealed only under the policy of some boot.
TypeOK ==
    /\ machine \in [kind: {"host", "vm"}, tpm: BOOLEAN]
    /\ boot \in Boots
    /\ made \in 0..MaxKeys
    /\ temp \in Keys
    /\ policy \in Boots \cup {NoBoot}
    /\ {sealed, loaded} \subseteq {Nothing} \cup [key: Keys \ {NoKey}, policy: Boots]
    /\ pc \in [Exporters -> Creating \cup {"off", "pcrs", "quote", "verify", "look",
                                           "load", "unseal", "runs"}]
    /\ key \in [Exporters -> Keys]
    /\ tries \in [Exporters -> 0..Attempts]
    /\ sensor \in [Exporters -> Keys \cup {VmKey}]
    /\ raced \in BOOLEAN
    /\ cut \in BOOLEAN

\* A host signs readings with the sealed key, in the boot state it was sealed
\* in: failed tools, stops and reboots at any point of a creation never leave
\* a key under another policy, nor an exporter with a key that a restart would
\* not give it again.  Two exporters that both find no sealed key share the
\* temporary file, and one of them may then run with a key that is not sealed.
KeyIsSealed ==
    \A p \in Exporters :
        machine.kind = "host" /\ pc[p] = "runs" =>
            /\ sensor[p] # NoKey
            /\ ~raced => sealed = [key |-> sensor[p], policy |-> boot]

\* The sealed key is in plain text only while it is created, unless a creation
\* ended between tpm2_create and remove_file or two ran at once: what a failed
\* creation left behind is removed by the one that succeeds.
NoPlaintextLeft ==
    /\ sealed # Nothing
    /\ temp # NoKey
    /\ \A p \in Exporters : pc[p] # "remove"
    => raced \/ cut

=============================================================================
