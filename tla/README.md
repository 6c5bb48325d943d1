# A TLA+ specification of VPMA

VPMA measures the energy of virtual machines and GPUs and keeps the
measurements trustworthy on machines whose operators are not trusted: the
numbers pass from kernel counters through SGX enclaves into an append-only,
hash-chained store. This directory holds TLA+ models of the parts of the program
that carry state between requests, the TLC configurations that check them on
small instances, and TLAPS proofs of the main safety properties for every value
of the constants. Paths are relative to the repository root.

## 1. The system

| part | state it keeps | operations | interacts with |
|---|---|---|---|
| host enclave (`sgx/src/lib.rs`, `sgx/src/main.rs`) | `VM_CHAINS` (counter, cumulative energy, last signature per VM), sealed HMAC key, RAPL baselines | compute and sign the energy of every VM, verify the host's boot, sign the host's energy | host runner over TLS; immudb |
| host exporter (`src/exporters/export_vm.rs`, `sgx_runner.rs`) | the 9p share of each VM: `energy_uj`, `chain_metadata.json` | sample, call the enclave, write the files | host enclave; guests through the share |
| guest exporter (`src/exporters/db.rs`, `sgx_vm_runner.rs`) | previous process ticks | poll the share, call the guest enclave | share; guest enclave over TLS |
| guest enclave (`sgx_vm/src/main.rs`, `lib.rs`) | chain state of its VM, GPU baselines, accumulated records, block number, latest chained root, issued nonce, registry cache | verify a chain step, attribute energy to processes, batch and flush blocks, verify boot, GPU export | Redis; immudb; TPM quotes sent by the guest |
| Redis client and block format (`redis_store.rs`, `blockchain.rs`, `merkle.rs`, `checkpoint.rs`) | none (Redis holds `block_counter`, `block:<id>`, `records:<id>`, `merkle:<id>`, `gpu_checkpoint:<t>`, `gpu_anchor_sig:<t>`) | `insert_block`, `get_latest_block_state`, anchor lines | Redis |
| GPU exporter (`src/exporters/gpu_db.rs`, `sensors/gpu_nvml.rs`, `ebpf_gpu_tag.c`) | tag key, last tags | sample NVML, send the cycle to the enclave | guest enclave of the GPU node |
| verified functions (`verified/src/lib.rs`) | none | `admit_chain_step`, `decide_resume`, `admit_boot`, `attribute_by_weight`, `replay_find_prefix`, `fold_to_root`, encodings | called by both enclaves |
| auditors (`scripts/verify_redis_gpu.py`, `verify_redis_data.py`, `anchor_verify.py`) | none | recompute links, roots and anchors from Redis | Redis |
| boot attestation (`tpm_attestation.rs`, `handle_get_nonce`, `handle_verify_boot`, `ecall_verify_binary_hash`, host `handle_verify`) | one nonce slot, `host_attested` keys in immudb | nonce, TPM quote, IMA replay, registry lookups | TPM, immudb, both enclaves |
| sensors (`powercap_rapl.rs`, `msr_rapl.rs`, `cgroup_vm.rs`, `sensors/mod.rs`) | bounded record buffers | read counters, differences, wrap-around | kernel |
| kernel guards (`memory_protection.c`, `filemonitor_scaphandre.c`, eBPF programs) | kernel-side maps | deny writes, tag readings | kernel |

What is hard to get right here, and hard to test:

* **Two writers and a reader without a lock.** The host rewrites two files, each
  by truncating and filling it; the guest reads them one after the other at its
  own pace. A poll may see half of one step and half of the next.
* **Memory that restarts do not share.** Host chain, guest chain state, the
  enclave's block head, and the keys in Redis are four copies of "where the chain
  is". Any enclave may stop between any two of its writes.
* **Commands that fail after they took effect.** A reply from Redis may be lost;
  an error reply inside a pipeline is not looked at; a failed connection is
  treated differently by the code that resumes and the code that inserts.
* **One store, many chains.** All tenants draw block ids from one counter.
* **A loop with early returns.** A GPU request that is rejected at one card has
  already changed the state for the cards before it, and is sent again.
* **Readings that fail quietly.** A missing energy becomes 0, a missing UUID
  becomes another name, a missing registry answer becomes "no", and is kept; a
  reply in which a lookup finds no value becomes "nothing registered".
* **Evidence taken at different times.** PCRs, quote and IMA log are read one
  after the other while the kernel goes on measuring; the enclave must neither
  refuse a clean node for it nor admit one on stale evidence.
* **A probe on another processor.** The tag of a RAPL reading is made by a timer
  probe that may run between any two steps of the exporter that wrote the reading.
* **Waiting without a limit.** No socket has a timeout that works in an enclave; each
  side waits for the other, for a child process, for the registry or for Redis.
* **Files shared by programs that run one after the other.** The sensor key passes
  through a temporary file, a policy file and a context file that any exporter of
  the machine may write.
* **Refusals that nothing repairs.** `decide_resume` and `admit_chain_step`
  reject whatever does not fit exactly; what is rejected once stays rejected.

`PROJECT.json` lists these hazards at their lines with the properties that cover
them.

What makes each part correct:

* *block store*: a chain stays linear, links never dangle, no record is stored
  twice, an anchor never runs ahead of the chain, one head is signed per number,
  a signed block is complete, an enclave vouches only for its own records;
* *energy chain*: the guest charges only whole signed steps, each at most once
  and in order, never jumps; the files follow the host's chain; when the guest
  keeps pace every step is charged;
* *host meter*: VMs are never charged more than the hardware burned, every interval
  is metered once, and a tag is never taken for that of another reading;
* *GPU export*: no card is charged more than it burned, what a known card burned
  is recorded in the end, the signed chain vouches only for recorded energy, and
  a rule once learned from the registry is enforced from then on;
* *attribution and commitments*: records add up to the energy of the cycle and
  follow activity; roots, proofs, chains and lines determine the records;
* *boot attestation*: a clean node is not refused as tampered with; an admission
  backed by a quote speaks about the state after its nonce was issued and shows
  registered components only; a nonce admits once; a guest follows its host;
* *exporter and enclave*: energy goes only to the enclave that admitted the boot,
  no CPU tick is charged twice, nobody waits for ever while servers answer;
* *sensor key*: a host signs with the sealed key, whose plain text does not outlive
  its creation.

## 2. Modules

### `BlockStore.tla` and `EnergyLog.tla`

`BlockStore` is the path of a batch from `ACCUMULATED_RECORDS` into Redis, for
CPU guests (`handle_db_export`) and GPU nodes (`handle_gpu_db_export`,
`flush_gpu_block_to_redis`). Variables are the enclave's statics (lost by
`Crash`), the keys in Redis, and a history that no action of the enclave reads.
One enclave serves one tenant and one request at a time; the code's flush is
sequential, so `pc` is its program counter, and each Redis command is an action:

| action | code |
|---|---|
| `Export` | the end of an accepted export: accumulate, count, start a flush when the count is *exactly* `BATCH_SIZE` |
| `InitConnectFails`, `GpuResume`, `CpuResume` | the `STATE_INITIALIZED` block: read anchor and stored head, decide |
| `Connect`, `Incr`, `Hset`, `Rpush`, `Merkle` | the second connection and `insert_block`, command by command |
| `StoreAnchorSig`, `StoreAnchor` | the two `SET`s after a GPU block |
| `Crash` | the enclave ends and the runner starts another one |
| `Loss`, `Rewrite` | environment: keys of Redis vanish, go back, or are overwritten |

`Faults` chooses which failures the environment injects. A command that fails by
I/O may or may not have been applied; an error reply was not applied. Hashes are
injective: a chained root *is* the sequence of batches it commits to, which
`CommitmentsProofs!RootsBind` and `HeadBindsHistory` justify. A batch is
a set of record numbers, each produced once.

`EnergyLog` is what a reader of the store may rely on: one log per tenant, which
grows at its end and holds no record twice. `ImplementsLog` maps a tenant's log
to the batches its last block commits to.

### `EnergyChain.tla`

The chain of one VM: `HostSign` (the signing loop of
`ecall_compute_vm_energy_cgroup`), `OpenEnergy`/`FillEnergy` and
`OpenMetadata`/`FillMetadata` (`write_updates_with_chain`, each `fs::write` as
truncate and fill), `WriteFails`, `HostRestart`; `GuestReadEnergy`,
`GuestNoMetadata`, `GuestExport` (`DbExporter::run` and
`ecall_verify_energy_chain`), `GuestRestart`. `Admit` is `admit_chain_step` check
by check. A signature is the sequence of cumulative energies signed since the
host enclave started, which is what the HMACs cover; two host enclaves that sign
the same energies make the same signatures, as in the code, whose key is sealed.

### `GpuExport.tla`

A GPU node: the cards' counters (`Burn`, `Reset`), the exporter's sampling loop
(`CollectCard` per card with the tag of the eBPF probe, `CollectFails`), the
connection (`ConnectionBreaks`, `DispatchFails`) and `handle_gpu_db_export`
(`Export`). `Export` is one action because the enclave serves one request at a
time and keeps its state in memory, and it has the handler's three ends: refused
by a binding (-13) with the cache already filled up to that card; rejected at a
card's tag (-102, -105) with the cards before it already recorded; accepted, with
the chain signed, the request counted and a full batch flushed. `Flush` takes the
outcome of a flush from `BlockStore`: stored, dropped, or refused. A tag is the
energy it was made for; a failed reading sends energy 0 with whatever tag the map
still holds. `FaultSets` is a set of sets of failures; a behaviour starts by
choosing one as `faults`, and `MaxGlitches` bounds how often they strike (a
counter reset is one of them). Requests that the exporter cannot produce (unparsable, a repeated
index, a tag without a key, an invalid node label) are left out.

### `HostMeter.tla`

How the host's energy is measured before it is charged. One cycle is the refresh of
the sockets, the total of the host (the platform counter, or the sum of packages and
memory), the record buffer, the collection of tags, the enclave's check and split,
and the files of the VMs:

| action | code |
|---|---|
| `ReadPackage`, `SettleSeeded`, `SettleKernel`, `ReadDram`, `ReadFails` | `CPUSocket::read_record`, `Domain::read_record`, `compute_and_store_hash`, the probe on the kernel's read |
| `ReadPlatform`, `StartSum`, `RecordSum` | `Topology::refresh_record` with `clean_old_records` and `get_records_diff_energy_microjoules` |
| `CollectReading`, `Compute`, `WriteUpdates`, `Rejected` | `get_reading`, `ecall_compute_vm_energy_simple`, `iterate_compact`, `compute_vm_energy_in_sgx` |
| `TagSlot`, or `LookAtSlot`, `StoreHash`, `SetValid` | `auto_compute_hash` on the timer interrupt, at once or overlapping with the exporter |
| `Burn`, `Restart` | the hardware; a new exporter with new probes and an enclave |

`capture` is the build (`with_ebpf_kernel_read` or not). A slot of the map keeps
whether its tag is that of its reading, since the tag is unforgeable; the code puts
four slots per socket into a map of 64 and tags the first eight, which `HasSlot` and
`Looks` keep.

### `EnclaveLink.tla`

An exporter, the runner that speaks for it, and the enclaves it has spoken to, for
the three exporters of the code (`Setups`: guest, GPU, host; local or remote;
attesting itself or not). The exporter's program counter is at a place between two
requests (`ready`) or inside `get_vm_enclave_connection` and `send_tls_request`
(`opening`, `connecting`, `waiting for child`, `sending`, `waiting`); `closing` is
`shutdown_vm_enclave`. `Handle` is a request handled and answered, `Ends` every way in
which `main` of an enclave returns. `Hangs` is a handler that waits for a server, with
`Awaits` saying which: immudb (`"registry"`) while it checks a boot or looks up the
rules of a GPU, Redis (`"redis"`) while it flushes a batch, in `connect`, in a reply
that does not come, or in `read_line`, which reads on for ever when the connection was
closed within a line. The host's enclave does not talk to Redis. What a status does to
the exporter is `Answered`, the loss of an answer `Failed`; both follow `main` and the
exporters' loops. The guest's `prev_ticks` and what a request weighs
are kept, because requests may be lost and pids used again.

### `Commitments.tla`

Extends `Attribution` with what its records are committed to, translated from
`merkle.rs`, `blockchain.rs` and the verified encoders and parsers: `EncodeRecord`,
the Merkle tree (`Build`, `GenerateProof`, `VerifyProof`), blocks (`NewBlock`,
`AddRecord`, `VerifyBlockchain`), the text of a checkpoint line and its parser, and
the calendar of `get_timestamp`. SHA-256 is an injective constructor. A parser gives
the set of its results. A loop of the code is a recursive function (`Levels`,
`Siblings`, `Climbs`, `Chains`, `Pushed`), so that it can be reasoned about; `InOrder`
is the order in which a handler pushes its records. The assumption says that process
numbers fit in a u32 (`0..MaxProcs \subseteq Unsigned(Width32)`), as pids do.

### `SealedKey.tla`

How `TpmAttestation` creates, seals and unseals the key that signs sensor readings,
tool by tool, on a host or in a VM, with or without a TPM. Each tool reads and writes
its own file (`temp`, `policy`, `sealed`, `loaded`), which all exporters of the
machine share through `TPM_PATH`. `Denied` is what `main` does without a key: a host
exits, a VM goes on. `cut` and `raced` are history: a creation that ended between
`tpm2_create` and `remove_file`, and two creations at once. `tpm2_create` is atomic.

### `Attribution.tla`

`attribute_by_weight` and the buckets and records that `handle_db_export` and
`handle_gpu_db_export` make with it, as operators; a request picks any delta and
processes within the bounds. This is what lets `GpuExport` treat the records of a
card as one amount: `RecordsAddUp` says they add up to the delta. Buckets and records
are functions on the positions of their processes; `Commitments` brings them into the
order in which they are sent to the batch (`InOrder`).

### `BootAttestation.tla`

A host and a guest on it, each with a kernel (`Measure` appends to the IMA log,
`Extend` brings the entry into PCR 10, `Reboot`), a collector and an enclave. The
collector's way to a verdict is its program counter:

| stage | actions | code |
|---|---|---|
| `pcrs`, `log`, `again` | `ReadPcrs`, `ReadLog`, `ReadAgain`, `ReadFails` | the host's `verify_hash_inside_sgx` reads PCRs, then the log; a guest's `read_consistent_ima_snapshot` reads PCR 10 around the log and retries |
| `pcrs` on a copy of the log | `ReadCopy`, `ReadCopiedLog`, `CopyLog` | `snapshot_pcr10`, `splice_pcr10`: `IMA_PATH` names a directory where root keeps a copy |
| `nonce`, `draft`, `quote` | `GetNonce`, `DraftQuote`, `SignQuote`, `QuoteFails` | `handle_get_nonce`, `generate_signed_quote`; the GPU exporter quotes first and reads after, the runners quote what they were given without a quote |
| `reread` | `RereadLog` | the log is read again after the quote |
| `send` | `Verify` | `handle_verify` or `handle_verify_boot`, whole, with any reply to any lookup |
| `publish` | `Publish` | `publish_host_attested` |

An enclave's verdict is the first check that applies (`Status`), in the order of
the two handlers, which differ: the guest's looks at the driver before
`admit_boot`, the host's after it, and only the guest's asks for its host. A site
is a set of features, `faults` a set of failures, and `Cases` lists the
combinations a run explores. PCR 10 is the sequence of digests it was extended
with; every violation extends the same constant, as in the code. `Resend` brings
an earlier request to the enclave again.

`Replies` is what `fetch_expected_hash_from_immudb` may return to one request: for
each lookup the value, an error (fault `"registry"`), or `Err(-8)` (fault `"blank"`),
which stands for a reply without a `"hash_value"`: nothing is registered, or immudb
answered with an error of its own, as when the session ended between login and query.
The handlers treat the two failures differently. For the key an error refuses (-124)
and `Err(-8)` is "no AK registered", so that no quote is asked for (`AkKnown`); for
`parent_host` both skip the check of the host; for `host_attested` both refuse (-126,
-125); for hashes of components both count as not registered; for the collector's own
hash both refuse (-5).

### Proof modules

`EnergyChainProofs`, `BlockStoreProofs`, `GpuExportProofs`, `HostMeterProofs`,
`BootAttestationProofs`, `EnclaveLinkProofs`, `SealedKeyProofs` and
`CommitmentsProofs`. Each extends the module it is about; `CommitmentsProofs` is about
`Commitments` and about `Attribution`, which that module extends. `HostMeterProofs` and
`CommitmentsProofs` begin with the same theory of finite sums: the library's
`SumFunctionOnSet` is a fold that chooses a solution of a recursive equation, and the
library states no theorem about it. That each recursive function of `Commitments` has
the values its equation says is a lemma of its own.

## 3. Runs

| run | instance | shows |
|---|---|---|
| `blockstore_crash` | a GPU node and a CPU guest, 3 blocks, stops anywhere | chains stay linear (`AuditAccepts`, what `verify_chain` looks at), one head per number (`SealedOnce`), signed blocks are complete (`SignedIsComplete`), the store implements the log (`ImplementsLog`), and a chain whose anchor fell behind is never extended (`LaggingIsFinal`) |
| `blockstore_faults` | one GPU node, all failures of commands, keys lost, rolled back or overwritten | `LinkedStore`, `AtMostOnce`: a failing command may cost records but leaves no dangling link, no duplicate and no anchor without a block; `VouchedHistory`, `ResumesOnLastBlock`: whatever Redis holds, an enclave vouches for its own records only and resumes on a head it signed. For CPU guests, and for any mixture of tenants, the theorems of section 4 say the same |
| `energychain` | 4 signed steps; restarts of both sides, lost writes and responses and a late guest, or no failure at all | `AdmittedAsSigned`, `ChargedInOrder`, `FilesFollowChain`, `PassedByIsFinal`; `EveryStepCharged` (liveness): torn reads delay a step but never lose it when nothing fails |
| `hostmeter` | one socket with and without memory and platform counter, both builds, two VMs | `NeverOvercharged` while every counter can be read, over wraps, restarts, rejected cycles and lost updates; `NoFalseAlarm`: the timer probe alone, at any moment between two steps, never makes a tag wrong; `EverythingMetered` (liveness): without failures every interval is metered exactly once, also when the buffer is trimmed |
| `gpuexport` | two cards; a behaviour chooses one of five sets of failures | `NeverOvercharged`: with restarts, resets, failed readings, requests rejected half way and lost blocks, no card is charged more than it burned. Its condition is needed: without an enforced tag rule a failed first reading makes the next one count the card's whole counter, and without an enforced binding a card whose UUID is missing twice is charged under two names; TLC shows both when the condition is dropped. `SignedIsRecorded`; `RulesStay` under registry outages; `EverythingRecorded` (liveness): rejected and dropped cycles delay the energy but lose none |
| `commitments` | up to 4 processes, weights up to 4, deltas up to 11; their records, trees of up to 9 leaves, chains of up to 4 blocks | `RecordsAddUp`, `ChargedByActivity`; `CommitmentsBind`: each record of a request is verified at its place and at no other, is provable there and is in the block its index says, and of all sequences of the blocks only prefixes verify; `ReferencesAgree`: trees equal a reference defined by splitting, different batches have different roots, no other leaf is provable with any siblings, records and lines are told apart by their bytes whatever their texts contain, parsers invert printers, dates advance, and a chain of four blocks verifies in its order only |
| `bootattestation` | a host, a guest, or both, in 19 combinations of features and failures | `NoFalseAlarm`: however measurements interleave with reading and quoting, a clean node is not answered with a code for tampering; on a copy of the log it is so only with -4, when the copy lacks the collector, or with -9, when the GPU exporter quoted what the copy does not cover. `AdmittedIsFresh`: a node with a registered key is admitted only on a quote made after the nonce and in this boot, whatever fails except a reply without a value, for which it says so of the admissions that rest on a quote. `AdmittedIsRegistered` as long as the registry answers; `NonceAdmitsOnce`, also when requests arrive twice, collectors end and nodes reboot; a guest is admitted only on a host that was |
| `enclavelink` | the three exporters, local and remote, in five sets of failures | `ServedAfterBoot`: only the enclave that admitted the boot records energy, because a broken connection is never opened again; `TicksOnce`: no tick is charged twice over lost requests, restarts and reused pids; `NobodyWaits` (liveness): every wait ends, and no enclave goes on serving an exporter that is gone, as long as connections to an enclave that listens succeed and the servers answer that the exporter's enclave asks: immudb, and Redis unless the exporter is the host's. TLC shows the wait when any of these conditions is dropped |
| `sealedkey` | two exporters, two boot states, three keys | `KeyIsSealed`: failed tools, stops and reboots never leave a host with a key that a restart would not give it again, or sealed to another boot; `NoPlaintextLeft`. The types are proved, not run |

Three runs are expected to fail; each shows that something the repository says of
itself does not hold (`findings` in `PROJECT.json`):

| run | what TLC finds |
|---|---|
| `refusal_without_tampering` | a stop between `insert_block` and `SET gpu_checkpoint` makes every later enclave refuse the chain as rolled back or rewritten |
| `second_genesis` | when the connection that reads the anchor fails and the next one succeeds, the enclave starts a second chain at block 0 and replaces the anchor |
| `guest_restarts` | after a guest restart the step in the share is charged again |

More consequences of the code are visible in the models, and are not runs of
their own. An error reply to `RPUSH` is ignored, so a block can count as inserted
and be signed without its records (`SignedIsComplete` fails in `BlockStore` with
`Faults = {"crash", "reply"}`). A poll between the host's two writes is answered
with the code for tampering, -2, and the next poll succeeds
(`EveryStepCharged` is about exactly these). After a host restart the honest chain
is answered with the code for replay, -3. One failed
binding lookup makes the enclave refuse a bound card as long as it runs, and one
failed lookup of `gpu_tag_enforced` makes it accept untagged readings, with the
notice that the rule is not provisioned.

In the meter: the build that captures the kernel's reads leaves the timer probe
attached, so that after a read that failed or returned 0 the slot gets a tag made for
the other producer, and the cycle is refused as tampered with (-2); so does a timer
probe that overlaps with the exporter's write, in both builds. A counter that cannot
be read once is left out of one total, and the next interval then contains its whole
value; the same happens when the platform counter cannot be read and the sum of the
others stands in for it.

In the link: after one failure an exporter goes on sending over the broken connection
until it is restarted. If the port of a started enclave refuses the connection, the
runner waits for a child that waits in `accept`. A registry that accepts and does not
answer is waited for as well, and so is Redis during a flush, whose timeouts are set
with `.ok()` and do not exist in an enclave; a connection that Redis closes within a
line is read for ever. `NobodyWaits` excepts exactly these. A remote
enclave accepts one connection, so a second exporter waits for the first to end. An
exporter killed between starting an enclave and connecting to it leaves that enclave
in `accept`. An IMA log too long for the size limit (10 MiB in the guest's enclave, 256
MiB in the host's) ends the enclave and with it, for good, the export.

In the store: an error reply while resuming can hide the newest block, and if the
enclave's anchor lags by the same block it resumes on the older one. For the key: two
exporters that both find no sealed key write the same temporary file, and one of them
may sign with a key that is not the sealed one until it is restarted; a stop or a
failed removal after `tpm2_create` leaves the plain text of the sealed key; in another
boot state a host refuses to run while a VM runs with a key derived from its name. In
the commitments: a block's number is compared with its place by `verify_blockchain`
but is not part of what the chained root commits to, nor are the VM's name and the
time of the block.

In the attestation: a reply of immudb without a value counts as "no AK registered", so
that a node with a registered key is admitted without a quote, although the README
says that "the AK registry makes a signed TPM2 quote mandatory" (line 47) and the
handlers refuse (-124) when they cannot reach the registry, so as not to let "a node
downgrade itself"; `AdmittedIsFresh` excepts exactly this, and TLC shows the admission
when the exception is dropped. Further, `host_attested` outlives the boot it speaks of, so a guest may
be admitted on a host that was since rebooted or refused; on a copy of the log
that is older than the collector a clean node is refused with -4; a failed lookup of
`parent_host` skips the check of the host, while a failed lookup of
`host_attested` refuses; with a copied log the GPU exporter sends the PCRs of now
with the log of then, and is refused with -9 on a clean node as soon as something
was measured in between; a runner whose second read of the log fails sends the
first one, with the same effect; and a CPU guest with a registered key whose
runner is built without `tpm_attestation_vm` is always refused with -122.

**Bounds.** Three blocks let a chain have a first, a middle and a last
block with a stop at any point and a second enclave resuming on it; two tenants
suffice for the shared counter because tenants meet only there. `MaxIter` is one
beyond the batch size, so that a refused enclave passes the batch size.
`MaxRecords` is two: duplicates need two batches. In `EnergyChain`, chains of
three steps contain a successor, a gap and a rollback; four steps in all let a
restarted host enclave sign a chain of its own beside the guest's. Deltas 1 and 2 let
different energies meet in one sum, so that a mixed pair of files can coincide
with a real step by accident. In `HostMeter` a range of 4 with 3 units lets a counter
wrap once, and a buffer of one record and a half is trimmed from the fourth record
on; one socket may have three counters, and sockets meet only in the sum. In
`GpuExport` two units of energy let a card advance before and after a failed reading;
a batch of two requests leaves records pending at a restart, and two failures let a
card be tagged in a cycle that is lost and read wrongly in the next, before the enclave
has a baseline for it. Restarts are combined with lost blocks and broken connections
only, since they forget tags, caches and baselines and keep just the counters and the
blocks; the theorem on `NeverOvercharged` covers all combinations. In `Attribution` the
bounds reach both sides of `PerCycle` and of `FullUtil`, ties, zero weights and
remainders above one. In `Commitments` integers have one and two bytes instead of four
and eight and a hash in a line has one, so that TLC's integers hold the largest value
and numbers beyond it; nine leaves contain trees with a promoted node on every level.
In `BootAttestation` two attempts instead of 40 and 5 contain success, retry and
giving up, and two measured files move PCR 10 twice between any two reads; two
starts let a request of an earlier collector reach the next one's enclave, and two
boots let evidence of one boot meet the other. In `EnclaveLink` one pid is enough,
since pids are accounted one by one; two ticks let a younger process fall behind or
overtake the count of the one before it, two runs and two crashing enclaves let an
exporter meet an enclave of an earlier run. In `SealedKey` two exporters contain every
overlap of two, and three keys a creation after two that failed. Bounds only restrict
how long a behaviour goes on; the proofs hold for all of them. `ITERATION_COUNT` is
not bounded in `GpuExport` but kept at the batch size once it is past it, which its
only comparison, `==`, cannot tell.

**Fairness.** `EnergyChain` assumes weak fairness of the host's writes and of the
guest's polls, `GpuExport` of the GPU exporter's cycle and `HostMeter` of the host's.
All are loops that sleep for a fixed time and go on whatever the previous round
returned, and the host's writes are blocking calls in sequence. Signing, burning
energy and the timer probe are not assumed fair. A host that does not wait for the
guest's poll is a failure of `EnergyChain` (`late`): the two sleep intervals are chosen
for it not to happen; with it a guest may miss a step for good, which `PassedByIsFinal`
says. `EnclaveLink` assumes weak fairness of the steps of the exporter that runs and of
each enclave, which are processes of their own; nobody has to start an exporter or an
enclave again, and no failure has to happen.

**Deadlock** is checked in every run but `enclavelink`, where the system really may stop:
an exporter whose boot was refused ends, and nothing starts it again. In
`BootAttestation` the step `Rest` stands for collectors that ended or were admitted, so
that one stuck on its way would be found.

## 4. Proofs

All theorems hold for every value of the constants that satisfies the module's
assumption; none bounds the number of blocks, records, steps, tenants, cards,
counters, VMs, processes, enclaves, reboots or faults. Every invariant and every
action property of a passing run is stated by a theorem, but for `ReferencesAgree`,
which compares with references and on samples.

| theorem | statement | inductive invariant |
|---|---|---|
| `EnergyChainProofs!TypeCorrect` | `[]TypeOK` | adds `HostGrows`: energies along the host's signature never fall, without which a delta need not be a natural number |
| `AdmittedSteps`, `ChargesInOrder` | `[]AdmittedAsSigned`, `[]ChargedInOrder` | `ChargeInv`: what was charged and what the file holds was signed before now, and if the guest's counter is the file's with a longer chain then the file's step is newer than the last one charged |
| `GuestNeverJumps`, `PassedByForGood` | the action properties `NoJumps`, `PassedByIsFinal` | `ChargeInv` |
| `FilesInStep` | `[]FilesFollowChain` | `FileInv`: describes the files at each position inside the host's cycle |
| `BlockStoreProofs!TypeCorrect` | `[]TypeOK`, all faults | adds that a flush about to store holds an id `INCR` handed out, and that an anchor is made only after a block was |
| `VouchesForOwnRecords` | `[]VouchedHistory`, all faults | `VouchInv`: signed heads commit only to produced records |
| `BlocksAreLinked` | `[]LinkedStore`, assuming nobody else changes Redis | `StoreInv`: ids in use are unique among enclaves, the block being stored and the head in memory are in Redis, GPU numbers are chain lengths, signed heads are stored |
| `RecordsStoredOnce` | `[]AtMostOnce`, same assumption | `RecordInv`: accumulated and stored records are disjoint unless the stored block is the one in progress |
| `ResumesOnLast` | `ResumesOnLastBlock`, assuming reads do not fail | none beyond types |
| `StopsPassTheAudit`, `OneHeadPerNumber`, `SignedBlocksAreComplete` | `[]AuditAccepts`, `[]SealedOnce`, `[]SignedIsComplete`, assuming that enclaves only stop and start again (`OnlyStops`) | `LogInv`: a block commits to one batch more than its predecessor, the roots of a tenant grow with the ids, the head in memory is the end of the log or the block before the one being stored, signed heads name stored and complete blocks, and waiting records are not in the log |
| `StoresALog`, `LagIsFinal` | `ImplementsLog` (the refinement of `EnergyLog`), `LaggingIsFinal`, same assumption | `LogInv`, and per step what it does to the log: `HSET` appends one batch, everything else leaves it |
| `GpuExportProofs!TypeCorrect`, `ChainIsRecorded` | `[]TypeOK`, `[]SignedIsRecorded` | none beyond types |
| `ChargedWhatWasBurned` | `[]NeverOvercharged` | `CardInv` for each card: what is stored and accumulated, plus the counter's rise over the baseline, over the tag that may become one, or over the reading on its way, is at most what was burned; with `CacheInv` (remembered rules and bindings are true while the registry answers) and `SampleInv` (a reading is that of its card) |
| `LearnedRulesBind` | `RulesStay` | `YesIsTrue`: a remembered yes is a binding that exists |
| `HostMeterProofs!TypesHold` | `[]TypeOK` | `TypeInv`: adds that what is being settled is the package counter of a socket |
| `AlarmsHaveReasons` | `[]NoFalseAlarm` | `SlotsRight`: unless the probe overlapped or a kernel build met a failed read, every slot holds its reading with a tag made for it |
| `ChargesAreCovered` | `[]NeverOvercharged` | `EnergyInv`: there are two amounts of lost energy, before the last total and before the present pass, that separate what was charged from what was burned |
| `BootAttestationProofs!TypesHold` | `[]TypeOK` | `TypeInv`, the types of all that is written, and `StagesOk`: a collector is at a stage of its own program and below its limits |
| `NoncesBackOneAdmission`, `AdmissionsAreFresh`, `AdmissionsAreRegistered` | `[]NonceAdmitsOnce`, `[]AdmittedIsFresh`, `[]AdmittedIsRegistered` | `BootInv`: the nonce in a slot is of this boot and has backed nothing, every quote in a message or among those sent shows PCR 10 as it was after its nonce was issued, and nothing is published before the host is admitted |
| `AlarmsAreTrue` | `[]NoFalseAlarm` | `CleanInv`: on a clean node what the collector has read so far is a prefix of PCR 10 with the collector in it, and the log it has read explains it; on a copy, PCR 10 and log are of the same copy unless the exporter itself quoted, and then the quoted PCR 10 shows the collector |
| `CommitmentsProofs!NothingIsLost`, `ActivityPays` | `[]RecordsAddUp`, `[]ChargedByActivity` | `Made`: the records are those of the request being answered; the rest is lemmas on sums, division and shares |
| `CommitmentsProofs!RecordsAreBound` | `[]CommitmentsBind` | `Made`, and `Numbered`: there are at most `MaxProcs` processes, so that their numbers fit a record |
| `RootsBind` | two batches with the same Merkle root are the same batch | none: about any sequences of records whose numbers and lengths fit their widths (`Batch`) |
| `ProofsAreSound`, `ProofsAreComplete` | a proof is accepted only for a record of the batch and with its size, whatever siblings and sides it offers; the generated one is accepted | none: about the same batches; for the second, energies and times need not fit |
| `HeadBindsHistory` | two chains that verify and end in the same chained root are the same blocks with the same records | none: about any blocks of batches, wherever they come from |
| `CheckpointsBind` | checkpoints of different tenants, numbers or roots are never signed as the same bytes | none: about the labels `valid_tenant_label` accepts |
| `SealedKeyProofs!TypeCorrect` | `[]TypeOK` | adds `StepInv`: an exporter that is creating has a key, and one about to seal has a policy |
| `HostsUseTheSealedKey`, `PlaintextIsRemoved` | `[]KeyIsSealed`, `[]NoPlaintextLeft` | `AloneInv`: as long as no two creations met, at most one exporter is creating, and files hold its key and its boot's policy |
| `EnclaveLinkProofs!TypeCorrect` | `[]TypeOK` | adds `PlaceInv`: where the exporter has an enclave and a connection |
| `TicksChargedOnce` | `[]TicksOnce` | `Covered`: a function on the enclaves of all runs, which grows by at least what each was asked, lies between what was charged and what was used less what is in hand and not yet reported |
| `EnergyAfterBoot` | `[]ServedAfterBoot` | `WireInv`: a run has one connection, on which one request or one answer is on its way; `BootInv`: an exporter that exports, or trusts its verdict, is connected to an enclave that admitted |

The assumptions are hypotheses of the theorems (`ASSUME Faults \cap {...} = {}`,
`OnlyStops == Faults \subseteq {"crash"}`), not of the modules. `OnlyStops` is needed:
when a connection fails a second block may get a number that is taken
(`second_genesis`), and with an error reply a block may be signed without its records
(section 3). Each invariant above was an invariant
of a TLC run first, except `Covered` and `EnergyInv`, which say that a function or two
integers exist. The
argument for `ChargedWhatWasBurned` in words: a request adds to a card's records
exactly the rise that its new baseline takes away; a reading that is not the counter
has either a tag that differs from it, and is not processed where tags are required,
or the value 0 that the last tagged reading had as well; and a restart, which forgets
the baseline, forgets the tag and the pending records with it.

The other arguments in words:

* `ChargesAreCovered`. A total is a sum of counters, each read at its own time, so it
  is neither what was burned when the pass began nor what was when it ended. Call lost
  what a counter does not show of what was burned (it wrapped or was reset). What was
  charged so far is at most the last total plus what had been lost of each counter when
  it was read, and those losses only grow; so the next difference, between two totals,
  charges at most what was burned in between, whatever wrapped while the pass was going
  on. A wrap makes the total fall or hides in the rise of others, and loses energy in
  both cases.
* `TicksChargedOnce`. An exporter hands out ticks from the count it saw last, and its
  requests are handled by the enclave it talks to, which may be killed, be slow or have
  been left behind by an earlier run. Enclaves are ordered by when they were started,
  and each has its share of a line from what was charged to what was used. No two
  shares overlap, since `prev_ticks` moves on before a request is sent.
* `AdmissionsAreFresh`. An enclave that learns of a key admits only on a quote over the
  nonce in its slot, and does not learn of a registered one only through an error, which
  refuses, or a reply without a value, which the theorem excepts. The slot is emptied
  by a verification and by the end of the enclave. The TPM signs what PCR 10 holds at
  that moment, which was extended since the nonce was issued and never shrinks within a
  boot; an older quote, even one that arrives twice, has another nonce.
* `AlarmsAreTrue`. The kernel appends to the log before it extends PCR 10, so a log that
  is read after the PCRs covers them, and PCR 10 read again unchanged says that the
  quote will be about the same; entries beyond it are ignored by `replay_find_prefix`.
  A copy replays to its own PCR 10 as a whole, so only a file that it lacks, or PCRs
  that were quoted outside it, can give an alarm.
* `StoresALog`. A stop between any two commands leaves a used-up id, a block without
  records or a block without an anchor, and the enclave that starts next reads the last
  block back. So the root in Redis is the log, `HSET` is the step that appends, and the
  stops are stutters.
* `ActivityPays`. A floor is less than one below the exact share, so what all floors
  leave over is less than the number of positions; the heaviest has it all, and it is
  never less active than another.

* `RecordsAreBound`. The fields of a record split its bytes at fixed lengths, and texts
  after their own length, so an encoding has one record. Records of one request differ
  by their pids, so a leaf is at one place. A block of the chain holds the `BatchSize`
  records that its index says, by induction over `add_record`, and the chain is linked
  from `Zeros`; blocks of it that verify have numbers that count from 0.
* `RootsBind`. A root contains the number of leaves, so two trees with one root have
  the same shape, and from the top down two equal levels are the folds of equal ones:
  neighbours are the two halves of a hashed pair, and a promoted node is itself.
* `ProofsAreSound`. The hashes climbed from the record's leaf are digests, and the last
  is the top of the tree. From there down each is a half of a pair of the tree, hence a
  node of it, and in the end the leaf is one. It is no pair, because a first byte tells
  the two apart, so it is a leaf of the tree.
* `HeadBindsHistory`. Equal heads are links of equal predecessors and equal Merkle
  roots. Walking back from both ends, the shorter chain would end at `Zeros`, which
  nothing hashes to, while the longer one goes on with a link.
* `CheckpointsBind`. A label may be of any length, but contains no separator, so the
  first one after the tag ends it.

Only model-checked:

* liveness under fairness, which is outside TLAPS: `EveryStepCharged`,
  `EverythingRecorded`, `EverythingMetered`, `NobodyWaits`;
* `ReferencesAgree`: that a tree is the one a recursive splitting gives, that decimal
  and hexadecimal texts are parsed to what they were printed from, and that the
  calendar steps day by day. The reference, the parsers and the calendar are recursions
  and folds over data of their own, and no theorem above goes through them. Of its
  other parts, that roots bind, that proofs are sound, and that records and checkpoints
  differ by their bytes are proved for every batch; the run checks the same of the
  samples by enumeration.

## 5. Not modelled

`PROJECT.json` lists every component. Left out for good: the metric exporters
inherited from scaphandre except for the split of `qemu.rs`, the sensor for Windows
(`msr_rapl.rs`), the registration scripts and the dry run of the GPU exporter (no state
of their own), the kernel-side guards (they run in the kernel and share no protocol
state except tags), the bytes of RESP, TLS and JSON, and cryptography, which is
replaced by injective functions. `read_line`'s endless loop on a closed stream is
in `EnclaveLink` a handler that hangs; in `BlockStore` every command has an outcome.
Variants of the enclaves without TLS, `SKIP_IMA_VERIFY`, a switch for tests that turns the check of the
log off, and `SealedStorage`, which no handler calls, are not built or not used. The
parsing of `/proc`, cgroup files and IMA logs is abstracted to what it yields. In
`HostMeter` a hint of the kernel build that an exporter left behind is not modelled,
nor are readings of the memory domain in the map, whose tags are never collected.

## 6. Plan

New questions join an existing run where instance and failures allow; a run of its own
is for a new component.

1. More proofs: the safety part of `EverythingRecorded` and `EverythingMetered`, that
   what is outstanding is exactly what a next cycle can still bring; and that a
   checkpoint line is parsed to what it was written from, for every number.
2. A composition of `EnergyChain` and `BlockStore`: a guest whose flush waits for
   Redis misses host cycles.
3. RESP framing: replies that are cut short or belong to the command before.
