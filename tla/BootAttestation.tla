--------------------------- MODULE BootAttestation ---------------------------
(***************************************************************************)
(* Boot attestation of a host and of a guest that runs on it.  The kernel  *)
(* measures files into the IMA log and extends PCR 10 with each entry; a   *)
(* collector that starts reads PCRs and log, has the TPM quote the PCRs    *)
(* over a nonce of its enclave, and sends all of it to the enclave, which  *)
(* replays the log, looks up the registered hashes and answers with a      *)
(* status.  The kernel goes on measuring while the collector reads: PCRs,  *)
(* quote and log are taken at different times, and the collector's order   *)
(* and retries must make them fit.                                         *)
(*                                                                         *)
(* A request is one action.  The enclave serves one connection, request by *)
(* request, and the collector waits for the answer, so nothing that the    *)
(* handler reads can change meanwhile except the registry.                 *)
(*                                                                         *)
(* Hashes are injective: PCR 10 is the sequence of digests it was extended *)
(* with, and an entry is its own digest, except that all violations extend *)
(* the same constant.  A quote is what the TPM signed: nonce and PCRs.     *)
(***************************************************************************)
EXTENDS Integers, Sequences

CONSTANTS
    QuoteTries,     \* attempts of generate_signed_quote (40 in the code)
    SnapshotTries,  \* attempts of read_consistent_ima_snapshot (5)
    Cases,          \* features of a site, with the failures it may meet
    MaxMeasured,    \* bound: files measured in all, besides collectors
    MaxStarts,      \* bound: collectors started in all
    MaxBoots        \* bound: boots of a node

Features ==
    { "host", "guest",        \* the nodes that run
      "host_ak", "guest_ak",  \* an attestation key is registered
      "parent",               \* the guest's host is registered
      "gpu",                  \* the guest runs the GPU exporter
      "runner_quotes",        \* the guest's runner can quote (feature
                              \* tpm_attestation_vm)
      "host_snapshot",        \* IMA_PATH names a directory with a copy of the
      "guest_snapshot" }      \* log and of PCR 10

FaultKinds ==
    { "software",  \* unregistered software or firmware runs
      "writers",   \* a file is open for writing while it is measured
      "read",      \* PCRs or the log cannot be read
      "quote",     \* no nonce or no quote: no RNG, no key, tpm2_quote fails
      "registry",  \* a lookup or a write in immudb ends in an error
      "blank",     \* immudb's reply to a lookup holds no value: it is an error,
                   \* say of a session that ended, or it is cut off
      "resend",    \* the enclave receives an earlier request once more
      "stop",      \* a collector ends
      "reboot" }

ASSUME BootAssumption ==
    /\ QuoteTries \in Nat \ {0}
    /\ SnapshotTries \in Nat \ {0}
    /\ Cases \subseteq SUBSET (Features \cup FaultKinds)
    /\ MaxMeasured \in Nat
    /\ MaxStarts \in Nat
    /\ MaxBoots \in Nat

VARIABLES
    site,      \* features of this site; chosen once
    faults,    \* the failures that may happen; chosen once
    kernel,    \* per node: IMA log, how much of it is in PCR 10, PCR 0 and 7
    snapshot,  \* per node: the copied log; PCR 10 is copied with it
    collector, \* per node: the collector
    slot,      \* per node: ISSUED_NONCE of the enclave
    attested,  \* is host_attested in the registry?
    answer,    \* per node: the last request answered, and how
    \* history, read by no action except for the bounds and for resending
    boot,      \* per node: which boot this is
    starts,    \* collectors started
    measured,  \* files measured besides them
    issued,    \* per nonce: node, boot and length of PCR 10 at issue
    sent,      \* per node: requests sent
    backed,    \* nonces whose quotes backed an admission, in order
    hostOk     \* did the host's enclave ever admit the host?

machine == <<kernel, snapshot, boot>>
enclave == <<slot, answer, backed, hostOk>>
chosen  == <<site, faults>>
bounds  == <<starts, measured>>
vars    == <<chosen, machine, collector, enclave, attested, bounds, issued, sent>>

-----------------------------------------------------------------------------
(* Logs, PCR 10 and requests *)

Nodes     == {"host", "guest"}
Files     == {"collector", "driver", "hypervisor"}
Hashes    == {"good", "bad", "violation"}
Platforms == {"good", "pcr0", "pcr7"}  \* which of PCR 0 and 7 differs, if any
Entry(f, h) == [file |-> f, hash |-> h]
Entries     == [file : Files, hash : Hashes]

\* IMA_VIOLATION_EXTEND
Violation == [file |-> "any", hash |-> "violation"]

\* What an entry extends PCR 10 with.
Digest(e) == IF e.hash = "violation" THEN Violation ELSE e

Digests(log) == [i \in 1..Len(log) |-> Digest(log[i])]

\* PCR 10 of a node; << >> is the zero that it holds after a reset.
Pcr10(n) == Digests(SubSeq(kernel[n].log, 1, kernel[n].extended))

\* A quote, also of a collector that has read PCRs and not yet quoted them.
Quote(nonce, platform, pcr10) ==
    [nonce |-> nonce, platform |-> platform, pcr10 |-> pcr10]
NoNonce == 0
NoQuote == Quote(NoNonce, "zero", << >>)

Request(platform, pcr10, log, quote) ==
    [platform |-> platform, pcr10 |-> pcr10, log |-> log, quote |-> quote]
NoRequest == Request("zero", << >>, << >>, NoQuote)

\* replay_find_prefix: some nonempty prefix of the log replays to PCR 10.
Reconciles(m) ==
    /\ m.pcr10 # << >>
    /\ Len(m.pcr10) <= Len(m.log)
    /\ m.pcr10 = Digests(SubSeq(m.log, 1, Len(m.pcr10)))

\* The attested part of the log: only the entries that PCR 10 covers.
AttestedPart(m) ==
    IF Reconciles(m) THEN SubSeq(m.log, 1, Len(m.pcr10)) ELSE << >>

\* Mutant: the first entry for a file counts.
FirstHash(n, log, file) ==
    LET found == {i \in 1..Len(log) : log[i].file = file}
    IN  IF found = {} THEN "none"
        ELSE log[CHOOSE i \in found : \A j \in found : i <= j].hash

\* The hash that the last entry for a file carries.  The host's enclave
\* passes over violations, the guest's takes their zero hash for a hash.
LastHash(n, log, file) ==
    LET Counts(i) == /\ log[i].file = file
                     /\ n = "host" => log[i].hash # "violation"
        found == {i \in 1..Len(log) : Counts(i)}
    IN  IF found = {} THEN "none"
        ELSE log[CHOOSE i \in found : \A j \in found : j <= i].hash

-----------------------------------------------------------------------------
(* What an enclave answers.  A check is a pair: when it applies, the request *)
(* is refused with that status.                                              *)

\* What the enclave of a node looks up in the registry.
Lookups(n) ==
    {"ak_pub", "scaphandre", "driver"}
      \cup IF n = "host" THEN {"hypervisor"} ELSE {"parent_host", "host_attested"}

\* What fetch_expected_hash_from_immudb returns to one request, per lookup: what
\* is registered, Err(-8), or another error.  Err(-8) is also what it returns
\* when nothing is registered: a reply in which it finds no "hash_value".
Replies(n) ==
    [Lookups(n) -> {"value"} \cup (IF "blank" \in faults THEN {"blank"} ELSE {})
                             \cup (IF "registry" \in faults THEN {"error"} ELSE {})]

\* The status of the first check that applies, or 0.
FirstOf(checks) ==
    LET failing == {i \in 1..Len(checks) : checks[i][1]}
    IN  IF failing = {} THEN 0
        ELSE checks[CHOOSE i \in failing : \A j \in failing : i <= j][2]

HasAk(n) == (IF n = "host" THEN "host_ak" ELSE "guest_ak") \in site

\* Mutant: the quote is not compared with the nonce.
AnyNonce(m, nonce) == m.quote = Quote(m.quote.nonce, m.platform, m.pcr10)

\* verify_quote_structure and the signature under the registered key.
QuoteOk(m, nonce) == m.quote = Quote(nonce, m.platform, m.pcr10)

\* Does the enclave learn of the key?
AkKnown(n, reply) == HasAk(n) /\ reply["ak_pub"] = "value"

\* The AK section of both handlers.  Err(-8) is "no AK registered" and skips
\* the section; any other error refuses.
AkChecks(n, m, reply) ==
    << <<reply["ak_pub"] = "error", -124>>,
       <<AkKnown(n, reply) /\ m.quote = NoQuote, -122>>,
       <<AkKnown(n, reply) /\ slot[n] = NoNonce, -121>>,
       <<AkKnown(n, reply) /\ ~QuoteOk(m, slot[n]), -123>> >>

\* The host below a guest.  A failed lookup of the parent skips the check, a
\* failed lookup of its attestation does not.
HostChecks(reply) ==
    LET asks == "parent" \in site /\ reply["parent_host"] = "value"
    IN  << <<asks /\ reply["host_attested"] = "error", -126>>,
           <<asks /\ (~attested \/ reply["host_attested"] = "blank"), -125>> >>

\* Components with a registered hash.  A failed lookup counts as unregistered.
StackCheck(n, m, file, status, reply) ==
    <<reply[file] = "value" /\ LastHash(n, AttestedPart(m), file) \notin {"none", "good"},
      status>>

\* admit_boot, with the codes of boot_denial_code.  The host's handler has
\* refused what does not reconcile before, having found no hash.
AdmitBoot(n, m, reply) ==
    LET hash == LastHash(n, AttestedPart(m), "collector")
    IN  << <<m.pcr10 = << >>, -2>>,
           <<~Reconciles(m), -9>>,
           <<reply["scaphandre"] # "value", -5>>,
           <<hash = "none", -4>>,
           <<hash # "good", -6>>,
           <<m.platform = "pcr0", -7>>,
           <<m.platform = "pcr7", -8>> >>

\* handle_verify_boot of the guest's enclave and handle_verify of the host's.
Status(n, m, reply) ==
    IF n = "guest"
    THEN FirstOf(AkChecks(n, m, reply) \o HostChecks(reply)
                   \o <<StackCheck(n, m, "driver", -11, reply)>>
                   \o AdmitBoot(n, m, reply))
    ELSE FirstOf(<< <<m.pcr10 = << >>, -2>> >>
                   \o AkChecks(n, m, reply)
                   \o << <<reply["scaphandre"] # "value", -5>>,
                         <<LastHash(n, AttestedPart(m), "collector") = "none", -4>> >>
                   \o AdmitBoot(n, m, reply)
                   \o <<StackCheck(n, m, "driver", -11, reply),
                        StackCheck(n, m, "hypervisor", -12, reply)>>)

\* Mutant: the nonce stays in its slot.
NonceKept(n, m, reply) == FALSE

\* Does the handler get as far as ISSUED_NONCE.take()?
TakesNonce(n, m, reply) ==
    /\ n = "host" => m.pcr10 # << >>
    /\ AkKnown(n, reply)
    /\ m.quote # NoQuote

\* The enclave's part of a request: answer it, and take the nonce.
Answers(n, m, reply) ==
    LET status == Status(n, m, reply)
        quoted == status = 0 /\ AkKnown(n, reply)
    IN  /\ answer' = [answer EXCEPT ![n] =
                        [request |-> m, status |-> status, quoted |-> quoted,
                         boot |-> boot[n], pcr10 |-> Pcr10(n)]]
        /\ slot' = [slot EXCEPT ![n] = IF TakesNonce(n, m, reply) THEN NoNonce ELSE @]
        /\ backed' = IF quoted THEN Append(backed, m.quote.nonce) ELSE backed
        /\ hostOk' = (hostOk \/ (n = "host" /\ status = 0))

-----------------------------------------------------------------------------

\* The hashes that files may have, and the values of PCR 0 and 7.
FileHashes == {"good"} \cup (IF "software" \in faults THEN {"bad"} ELSE {})
BootedWith == IF "software" \in faults THEN Platforms ELSE {"good"}

NoAnswer == [request |-> NoRequest, status |-> -1, quoted |-> FALSE,
             boot |-> 0, pcr10 |-> << >>]

\* A collector: position, who asks for a quote, attempts made, the PCRs about
\* to be quoted, and the request being put together.
Collector(pc, quoter) ==
    [pc |-> pc, quoter |-> quoter, tries |-> 0, draft |-> NoQuote, msg |-> NoRequest]
Idle == Collector("down", "exporter")

Init ==
    /\ \E case \in Cases : site = case \cap Features /\ faults = case \cap FaultKinds
    /\ \E p \in BootedWith :
         kernel = [n \in Nodes |-> [log |-> << >>, extended |-> 0, platform |-> p]]
    /\ snapshot = [n \in Nodes |-> << >>]
    /\ collector = [n \in Nodes |-> Idle]
    /\ slot = [n \in Nodes |-> NoNonce]
    /\ attested = FALSE
    /\ answer = [n \in Nodes |-> NoAnswer]
    /\ boot = [n \in Nodes |-> 1]
    /\ starts = 0 /\ measured = 0
    /\ issued = << >>
    /\ sent = [n \in Nodes |-> {}]
    /\ backed = << >>
    /\ hostOk = FALSE

-----------------------------------------------------------------------------
(* The kernel *)

\* Does the collector of n work on a copy of the log?
InSnapshot(n) == (IF n = "host" THEN "host_snapshot" ELSE "guest_snapshot") \in site

Settled(n) == kernel[n].extended = Len(kernel[n].log)
InLog(n, e) == \E i \in 1..Len(kernel[n].log) : kernel[n].log[i] = e

OtherFiles(n) == IF n = "host" THEN {"driver", "hypervisor"} ELSE {"driver"}

\* ima_add_template_entry, first half: the entry is in the log ...
Measure(n) ==
    /\ Settled(n)
    /\ measured < MaxMeasured
    /\ measured' = measured + 1
    /\ \E e \in Entries :
         /\ \/ e.file \in OtherFiles(n) /\ e.hash \in FileHashes /\ ~InLog(n, e)
            \/ e.hash = "violation" /\ "writers" \in faults
         /\ kernel' = [kernel EXCEPT ![n].log = Append(@, e)]
    /\ UNCHANGED <<chosen, snapshot, boot, collector, enclave, attested, starts,
                   issued, sent>>

\* ... and, second half, in PCR 10.
Extend(n) ==
    /\ ~Settled(n)
    /\ kernel' = [kernel EXCEPT ![n].extended = @ + 1]
    /\ UNCHANGED <<chosen, snapshot, boot, collector, enclave, attested, bounds,
                   issued, sent>>

\* Root copies log and PCR 10 into the directory that IMA_PATH names.
CopyLog(n) ==
    /\ InSnapshot(n)
    /\ snapshot' = [snapshot EXCEPT ![n] = SubSeq(kernel[n].log, 1, kernel[n].extended)]
    /\ UNCHANGED <<chosen, kernel, boot, collector, enclave, attested, bounds,
                   issued, sent>>

\* Logs, PCRs, collectors and enclaves start again; copies and the registry
\* stay.  A guest goes down with its host.
Reboot(n) ==
    /\ "reboot" \in faults
    /\ boot[n] < MaxBoots
    /\ LET gone == IF n = "host" THEN Nodes ELSE {n}
       IN  /\ \E p \in BootedWith :
                kernel' = [x \in Nodes |->
                             IF x \in gone
                             THEN [log |-> << >>, extended |-> 0, platform |-> p]
                             ELSE kernel[x]]
           /\ boot' = [x \in Nodes |-> IF x \in gone THEN boot[x] + 1 ELSE boot[x]]
           /\ collector' = [x \in Nodes |-> IF x \in gone THEN Idle ELSE collector[x]]
           /\ slot' = [x \in Nodes |-> IF x \in gone THEN NoNonce ELSE slot[x]]
    /\ UNCHANGED <<chosen, snapshot, answer, backed, hostOk, attested, bounds,
                   issued, sent>>

-----------------------------------------------------------------------------
(* The collector *)

At(n, pc) == collector[n].pc = pc

\* A collector starts and its runner starts an enclave.  The kernel has
\* measured the binary before it runs, unless the entry is already there.
Start(n) ==
    /\ At(n, "down")
    /\ starts < MaxStarts
    /\ Settled(n)
    /\ \E h \in FileHashes :
         LET e == Entry("collector", h)
             log == IF InLog(n, e) THEN kernel[n].log ELSE Append(kernel[n].log, e)
         IN  kernel' = [kernel EXCEPT ![n].log = log, ![n].extended = Len(log)]
    /\ collector' = [collector EXCEPT ![n] =
                       Collector(IF n = "guest" /\ "gpu" \in site THEN "nonce" ELSE "pcrs",
                                 "exporter")]
    /\ slot' = [slot EXCEPT ![n] = NoNonce]
    /\ starts' = starts + 1
    /\ UNCHANGED <<chosen, snapshot, boot, answer, backed, hostOk, attested, measured,
                   issued, sent>>

\* The runner asks for a quote when the exporter brought none, unless it works
\* on a copy of the log.
RunnerStage(n) ==
    IF ~InSnapshot(n) /\ (n = "host" \/ "runner_quotes" \in site)
    THEN "nonce" ELSE "send"

\* The collector is done with the unquoted PCRs and log.
HandToRunner(n, msg) ==
    collector' = [collector EXCEPT ![n].pc = RunnerStage(n), ![n].quoter = "runner",
                                   ![n].tries = 0, ![n].msg = msg]

\* read_consistent_ima_snapshot, snapshot_pcr10 and splice_pcr10 on a copy:
\* log and PCR 10 come from the directory, the other PCRs from the TPM.  A copy
\* made between the two reads only adds entries that PCR 10 does not cover.
ReadCopy(n) ==
    /\ At(n, "pcrs") /\ InSnapshot(n)
    /\ IF snapshot[n] = << >>
       THEN collector' = [collector EXCEPT ![n] = Idle]
       ELSE HandToRunner(n, Request(kernel[n].platform, Digests(snapshot[n]),
                                    snapshot[n], NoQuote))
    /\ UNCHANGED <<chosen, machine, enclave, attested, bounds, issued, sent>>

\* A guest that cannot read the PCR 10 of a copy goes on with the live one.
ReadCopiedLog(n) ==
    /\ "read" \in faults
    /\ At(n, "pcrs") /\ InSnapshot(n) /\ n = "guest"
    /\ snapshot[n] # << >>
    /\ HandToRunner(n, Request(kernel[n].platform, Pcr10(n), snapshot[n], NoQuote))
    /\ UNCHANGED <<chosen, machine, enclave, attested, bounds, issued, sent>>

\* read_pcr_values; the first PCR 10 of read_consistent_ima_snapshot.
ReadPcrs(n) ==
    /\ At(n, "pcrs") /\ ~InSnapshot(n)
    /\ collector' = [collector EXCEPT ![n].pc = "log",
                                      ![n].msg.platform = kernel[n].platform,
                                      ![n].msg.pcr10 = Pcr10(n)]
    /\ UNCHANGED <<chosen, machine, enclave, attested, bounds, issued, sent>>

\* The host takes log and PCRs as they are; the guest looks again.
ReadLog(n) ==
    /\ At(n, "log")
    /\ LET msg == [collector[n].msg EXCEPT !.log = kernel[n].log]
       IN  IF n = "host"
           THEN HandToRunner(n, msg)
           ELSE collector' = [collector EXCEPT ![n].pc = "again", ![n].msg = msg]
    /\ UNCHANGED <<chosen, machine, enclave, attested, bounds, issued, sent>>

\* The guest's second look at PCR 10, and the retry when it moved.
ReadAgain(n) ==
    /\ At(n, "again")
    /\ IF collector[n].msg.pcr10 = Pcr10(n)
       THEN HandToRunner(n, collector[n].msg)
       ELSE IF collector[n].tries + 1 < SnapshotTries
            THEN collector' = [collector EXCEPT ![n].pc = "pcrs", ![n].tries = @ + 1]
            ELSE collector' = [collector EXCEPT ![n] = Idle]
    /\ UNCHANGED <<chosen, machine, enclave, attested, bounds, issued, sent>>

\* PCRs or log cannot be read: the host goes on with PCRs that are all zero,
\* in all other cases the collector gives up.
ReadFails(n) ==
    /\ "read" \in faults
    /\ collector[n].pc \in {"pcrs", "log", "again"}
    /\ IF n = "host" /\ At(n, "pcrs") /\ ~InSnapshot(n)
       THEN collector' = [collector EXCEPT ![n].pc = "log"]
       ELSE collector' = [collector EXCEPT ![n] = Idle]
    /\ UNCHANGED <<chosen, machine, enclave, attested, bounds, issued, sent>>

\* handle_get_nonce: the new nonce replaces the one in the slot.
GetNonce(n) ==
    /\ At(n, "nonce")
    /\ LET nonce == Len(issued) + 1
       IN  /\ slot' = [slot EXCEPT ![n] = nonce]
           /\ issued' = Append(issued, [node |-> n, boot |-> boot[n],
                                        length |-> kernel[n].extended])
           /\ collector' = [collector EXCEPT ![n].pc = "draft", ![n].tries = 0,
                                             ![n].draft = Quote(nonce, "zero", << >>)]
    /\ UNCHANGED <<chosen, machine, answer, backed, hostOk, attested, bounds, sent>>

\* generate_signed_quote reads the PCRs ...
DraftQuote(n) ==
    /\ At(n, "draft")
    /\ collector' = [collector EXCEPT ![n].pc = "quote",
                                      ![n].draft.platform = kernel[n].platform,
                                      ![n].draft.pcr10 = Pcr10(n)]
    /\ UNCHANGED <<chosen, machine, enclave, attested, bounds, issued, sent>>

\* Without a quote the exporter falls back to reading PCRs and log, and the
\* runner sends what it was given.
Unquoted(n) ==
    collector' = [collector EXCEPT
                    ![n].pc = IF collector[n].quoter = "exporter" THEN "pcrs" ELSE "send",
                    ![n].tries = 0, ![n].draft = NoQuote]

\* quote_pcr_digest_matches
MatchesDraft(n, signed) == signed = collector[n].draft

\* ... has the TPM quote them, and retries when they moved in between.
SignQuote(n) ==
    /\ At(n, "quote")
    /\ LET draft == collector[n].draft
           signed == Quote(draft.nonce, kernel[n].platform, Pcr10(n))
       IN  IF MatchesDraft(n, signed)
           THEN collector' = [collector EXCEPT ![n].pc = "reread",
                                               ![n].msg.platform = draft.platform,
                                               ![n].msg.pcr10 = draft.pcr10,
                                               ![n].msg.quote = signed,
                                               ![n].draft = NoQuote]
           ELSE IF collector[n].tries + 1 < QuoteTries
                THEN collector' = [collector EXCEPT ![n].pc = "draft", ![n].tries = @ + 1]
                ELSE Unquoted(n)
    /\ UNCHANGED <<chosen, machine, enclave, attested, bounds, issued, sent>>

QuoteFails(n) ==
    /\ "quote" \in faults
    /\ collector[n].pc \in {"nonce", "draft", "quote"}
    /\ Unquoted(n)
    /\ UNCHANGED <<chosen, machine, enclave, attested, bounds, issued, sent>>

\* Mutant: the runner keeps the log it was given.
OldLog(n) == collector[n].msg.log

\* The log that is read after the quote: the exporter reads where IMA_PATH
\* points, which may hold no copy yet, the runner reads the live log.
LogAfterQuote(n) ==
    IF collector[n].quoter = "exporter" /\ InSnapshot(n)
    THEN snapshot[n] ELSE kernel[n].log

\* A failed read ends the exporter, while the runner keeps the log it has.
RereadLog(n) ==
    /\ At(n, "reread")
    /\ \/ /\ LogAfterQuote(n) # << >>
          /\ collector' = [collector EXCEPT ![n].pc = "send",
                                            ![n].msg.log = LogAfterQuote(n)]
       \/ /\ "read" \in faults \/ LogAfterQuote(n) = << >>
          /\ IF collector[n].quoter = "exporter"
             THEN collector' = [collector EXCEPT ![n] = Idle]
             ELSE collector' = [collector EXCEPT ![n].pc = "send"]
    /\ UNCHANGED <<chosen, machine, enclave, attested, bounds, issued, sent>>

\* Mutant: guests publish too.
AnyonePublishes(n, status) == IF status # 0 THEN "down" ELSE "publish"

\* What follows an answer: only status 0 lets the collector run.
StageAfter(n, status) ==
    IF status # 0 THEN "down" ELSE IF n = "host" THEN "publish" ELSE "up"

\* verify_in_sgx_enclave and verify_boot_in_sgx send the request, and the
\* enclave answers.
Verify(n) ==
    /\ At(n, "send")
    /\ \E reply \in Replies(n) :
         LET m == collector[n].msg
             stage == StageAfter(n, Status(n, m, reply))
         IN  /\ Answers(n, m, reply)
             /\ sent' = [sent EXCEPT ![n] = IF "resend" \in faults THEN @ \cup {m} ELSE @]
             /\ collector' = [collector EXCEPT ![n] = Collector(stage, "exporter")]
    /\ UNCHANGED <<chosen, machine, attested, bounds, issued>>

\* publish_host_attested, whose failures nobody looks at.  From then on the
\* cached BOOT_VERIFICATION answers further checks of this process.
Publish ==
    /\ At("host", "publish")
    /\ \/ attested' = TRUE
       \/ "registry" \in faults /\ UNCHANGED attested
    /\ collector' = [collector EXCEPT !["host"].pc = "up"]
    /\ UNCHANGED <<chosen, machine, enclave, bounds, issued, sent>>

\* An earlier request reaches the enclave of the running collector again.
Resend(n) ==
    /\ "resend" \in faults
    /\ ~At(n, "down")
    /\ \E m \in sent[n], reply \in Replies(n) : Answers(n, m, reply)
    /\ UNCHANGED <<chosen, machine, collector, attested, bounds, issued, sent>>

Stop(n) ==
    /\ "stop" \in faults
    /\ ~At(n, "down")
    /\ collector' = [collector EXCEPT ![n] = Idle]
    /\ UNCHANGED <<chosen, machine, enclave, attested, bounds, issued, sent>>

\* Nothing has to happen while every collector has ended or was admitted.
Rest ==
    /\ \A n \in Nodes : collector[n].pc \in {"down", "up"}
    /\ UNCHANGED vars

Next ==
    \/ \E n \in Nodes \cap site :
         \/ Measure(n) \/ Extend(n) \/ CopyLog(n) \/ Reboot(n)
         \/ Start(n) \/ ReadCopy(n) \/ ReadCopiedLog(n) \/ ReadPcrs(n) \/ ReadLog(n)
         \/ ReadAgain(n) \/ ReadFails(n) \/ GetNonce(n) \/ DraftQuote(n) \/ SignQuote(n)
         \/ QuoteFails(n) \/ RereadLog(n) \/ Verify(n) \/ Resend(n) \/ Stop(n)
    \/ Publish
    \/ Rest

Spec == Init /\ [][Next]_vars

-----------------------------------------------------------------------------
(* Properties *)

Stages(n) == {"down", "nonce", "draft", "quote", "reread", "pcrs", "log", "send", "up"}
               \cup IF n = "host" THEN {"publish"} ELSE {"again"}

IsPcr10(p) == \A i \in 1..Len(p) : p[i] \in Entries \cup {Violation}
IsLog(l)   == \A i \in 1..Len(l) : l[i] \in Entries

\* Types: a collector is at a stage of its own program, attempts stay below the
\* limit of the loop they count, and a slot holds a nonce of its own node.
TypeOK ==
    /\ site \cup faults \in Cases
    /\ attested \in BOOLEAN /\ hostOk \in BOOLEAN
    /\ \A n \in Nodes :
         /\ IsLog(kernel[n].log) /\ kernel[n].platform \in Platforms
         /\ Len(kernel[n].log) - kernel[n].extended \in {0, 1}
         /\ IsLog(snapshot[n])
         /\ collector[n].pc \in Stages(n)
         /\ collector[n].pc \in {"draft", "quote"} => collector[n].tries < QuoteTries
         /\ collector[n].pc \in {"pcrs", "log", "again"}
               => collector[n].tries < SnapshotTries
         /\ IsLog(collector[n].msg.log) /\ IsPcr10(collector[n].msg.pcr10)
         /\ slot[n] # NoNonce => issued[slot[n]].node = n

Alarms == {-2, -4, -6, -7, -8, -9, -10, -11, -12, -121, -123}

\* A node that runs registered software only is never refused with a status
\* that stands for tampering, however the kernel's measurements interleave
\* with what the collector reads: the log covers the PCR 10 that is sent, and
\* the collector's entry is in the covered part.  Reads must not fail.  On a
\* copy of the log, which may be older than the collector, the one such status
\* is -4, and only if the collector is not in the copy: the copy always replays
\* to its PCR 10.  It need not when the exporter itself quotes, since
\* verify_boot_as_guest then sends the PCRs of now with the log of then.
NoFalseAlarm ==
    faults \cap {"software", "writers", "read", "resend"} = {} =>
        \A n \in Nodes : answer[n].status \in Alarms =>
            /\ InSnapshot(n)
            /\ \/ /\ answer[n].status = -4
                  /\ LastHash(n, answer[n].request.log, "collector") = "none"
               \/ n = "guest" /\ "gpu" \in site /\ answer[n].status = -9

\* Where a key is registered, an admission rests on a quote and speaks about
\* the node as it was after the enclave issued the nonce: PCR 10 as quoted
\* belongs to the boot in which the nonce was issued, contains all that was
\* measured by then, and is what the TPM held when it quoted.  A reply without
\* a value lets a node with a key in without a quote, although README.md says
\* that the AK registry makes a signed quote mandatory; every other failure of
\* the registry refuses.
AdmittedIsFresh ==
    \A n \in Nodes :
        HasAk(n) /\ answer[n].status = 0 /\ ("blank" \in faults => answer[n].quoted) =>
            LET a == answer[n]
                m == a.request
                at == issued[m.quote.nonce]
            IN  /\ m.quote = Quote(m.quote.nonce, m.platform, m.pcr10)
                /\ m.quote.nonce \in 1..Len(issued)
                /\ at.node = n /\ at.boot = a.boot
                /\ at.length <= Len(m.pcr10)
                /\ Len(m.pcr10) <= Len(a.pcr10)
                /\ m.pcr10 = SubSeq(a.pcr10, 1, Len(m.pcr10))

\* As long as the registry answers, what the TPM quoted for an admission shows
\* registered components only: every measurement of another version of a file
\* is followed by one of the registered version, and the collector is there;
\* and a guest whose parent is registered is admitted only after the host's
\* enclave admitted the host below it.
AdmittedIsRegistered ==
    faults \cap {"registry", "blank"} = {} =>
        /\ \A n \in Nodes : answer[n].quoted =>
             LET pcr10 == answer[n].request.pcr10
                 Shows(i, f, h) == pcr10[i] = Entry(f, h)
             IN  /\ \E i \in 1..Len(pcr10) : Shows(i, "collector", "good")
                 /\ \A i \in 1..Len(pcr10), f \in OtherFiles(n) \cup {"collector"} :
                      Shows(i, f, "bad") =>
                          \E j \in i..Len(pcr10) : Shows(j, f, "good")
                 /\ answer[n].request.platform = "good"
        /\ "parent" \in site /\ answer["guest"].status = 0 => hostOk

\* A nonce backs at most one admission: handle_verify and handle_verify_boot
\* take it out of its slot.
NonceAdmitsOnce ==
    \A i, j \in 1..Len(backed) : backed[i] = backed[j] => i = j

=============================================================================
