----------------------------- MODULE BlockStore -----------------------------
(***************************************************************************)
(* The block store of the guest enclave: handle_db_export (CPU guests) and *)
(* handle_gpu_db_export / flush_gpu_block_to_redis (GPU nodes) batch       *)
(* energy records into blocks, chain the blocks by hash and store them in  *)
(* Redis; GPU nodes also keep a signed anchor of the chain head, which     *)
(* decide_resume consults after a restart.                                 *)
(*                                                                         *)
(* One enclave serves one tenant, sequentially.  Every Redis command of a  *)
(* flush is an action of its own, so that a crash, a lost reply or an      *)
(* error reply can fall between any two of them.                           *)
(*                                                                         *)
(* Hashes are modelled as injective: a chained root is the sequence of the *)
(* batches it commits to, and the all-zero root is the empty sequence.     *)
(***************************************************************************)
EXTENDS Integers, Sequences, FiniteSets

CONSTANTS
    Tenants,     \* tenant labels: VM names and GPU node ids
    Gpu,         \* those exported by handle_gpu_db_export
    BatchSize,   \* BATCH_SIZE = GPU_BATCH_SIZE (100 in the code)
    Faults,      \* which failures the environment may inject
    MaxBlocks,   \* bound: no new batch is flushed once block_counter is here
    MaxRecords,  \* bound: records a tenant may ever produce
    MaxIter      \* bound: ITERATION_COUNT of a refused enclave

FaultKinds ==
    { "crash",    \* the enclave or its runner dies; its memory is lost
      "connect",  \* RedisConnection::connect returns Err
      "io",       \* a command or its reply is lost (timeout, reset)
      "reply",    \* Redis answers a command with an error
      "loss",     \* keys vanish from Redis or return to an earlier value
      "rewrite" } \* keys of Redis are overwritten by somebody else

ASSUME ConstantsAssumption ==
    /\ Gpu \subseteq Tenants
    /\ BatchSize \in Nat \ {0}
    /\ Faults \subseteq FaultKinds
    /\ MaxBlocks \in Nat
    /\ MaxRecords \in Nat
    /\ MaxIter \in Nat

VARIABLES
    \* statics of the enclave, lost when it stops
    pc,        \* position in the flush; "idle" between two requests
    iter,      \* ITERATION_COUNT
    acc,       \* ACCUMULATED_RECORDS
    num,       \* BLOCK_NUMBER
    latest,    \* LATEST_CHAINED_ROOT
    inited,    \* STATE_INITIALIZED
    refused,   \* CHAIN_RESUME_REFUSED
    bid,       \* block_id of the insert in progress
    \* Redis
    counter,   \* block_counter
    blocks,    \* block:<id> hashes
    full,      \* ids whose records:<id> list is complete
    anchor,    \* gpu_checkpoint:<tenant>
    anchorSig, \* gpu_anchor_sig:<tenant>
    \* history, read by no action of the enclave
    produced,  \* records ever accumulated; the next one is a fresh one
    signed,    \* heads whose anchor line the enclave signed and stored
    disturbed  \* was the tenant's data ever changed behind the enclave's back?

enclave == <<pc, iter, acc, num, latest, inited, refused, bid>>
redis   == <<counter, blocks, full, anchor, anchorSig>>
history == <<produced, signed, disturbed>>
vars    == <<enclave, redis, history>>

-----------------------------------------------------------------------------

Batches == SUBSET Nat
Roots   == Seq(Batches)
Zeros   == << >>

\* compute_chained_root: a root determines its predecessor and its batch.
ChainedRoot(prev, batch) == Append(prev, batch)

\* Block::new; the Merkle root stands for the batch it commits to.
Block(t, n, prev, batch) ==
    [tenant |-> t, number |-> n, prev |-> prev, batch |-> batch,
     root |-> ChainedRoot(prev, batch)]

BlockType == [tenant : Tenants, number : Nat, prev : Roots,
              batch : Batches, root : Roots]

\* A chain head as the anchor lines and get_latest_block_state report it.
ChainHead(n, r) == [have |-> TRUE, number |-> n, root |-> r]
NoHead     == [have |-> FALSE, number |-> 0, root |-> Zeros]
HeadType   == [have : BOOLEAN, number : Nat, root : Roots]

\* The blocks of one tenant.
Own(t) == {i \in DOMAIN blocks : blocks[i].tenant = t}

\* What get_latest_block_state can return when it sees the blocks S: a block
\* with the largest number, whichever KEYS lists first when several have it.
LatestOf(S) ==
    IF S = {} THEN {NoHead}
    ELSE {ChainHead(blocks[i].number, blocks[i].root) :
             i \in {j \in S : \A k \in S : blocks[k].number <= blocks[j].number}}

\* An error reply to HGET hides a block, or leaves the root all zero; an
\* error reply to KEYS hides them all.  An Err result is used as an empty one.
LatestBlockState(t) ==
    LatestOf(Own(t))
      \cup (IF "io" \in Faults THEN {NoHead} ELSE {})
      \cup (IF "reply" \in Faults
            THEN UNION {LatestOf(S) \cup
                        {[h EXCEPT !.root = Zeros] : h \in LatestOf(S)} :
                          S \in SUBSET Own(t)}
            ELSE {})

\* Mutant: the anchor line is used without checking its HMAC.
AnchorReadUnverified(t) == {anchor[t]}

\* GET gpu_checkpoint and verify_checkpoint_line: a line whose HMAC this
\* tenant's key did not make is no anchor, and neither is a failed read.
AnchorRead(t) ==
    {IF anchor[t] \in signed[t] THEN anchor[t] ELSE NoHead}
      \cup (IF {"io", "reply"} \cap Faults # {} THEN {NoHead} ELSE {})

\* Mutant: the anchor alone decides, whatever the store holds.
DecideByAnchor(a, s) ==
    IF a.have THEN "resume" ELSE IF s.have THEN "refuse" ELSE "fresh"

\* decide_resume
DecideResume(a, s) ==
    IF a.have /\ s.have
    THEN IF a.number # s.number \/ a.root # s.root THEN "refuse" ELSE "resume"
    ELSE IF s.have \/ a.have THEN "refuse" ELSE "fresh"

\* Mutant: the number of the head is given to its successor.
ReuseNumber(h) == h.number

\* BLOCK_NUMBER after resuming from a head.
NextNumber(h) == h.number + 1

-----------------------------------------------------------------------------

Init ==
    /\ pc = [t \in Tenants |-> "idle"]
    /\ iter = [t \in Tenants |-> 0]
    /\ acc = [t \in Tenants |-> {}]
    /\ num = [t \in Tenants |-> 0]
    /\ latest = [t \in Tenants |-> Zeros]
    /\ inited = [t \in Tenants |-> FALSE]
    /\ refused = [t \in Tenants |-> FALSE]
    /\ bid = [t \in Tenants |-> 0]
    /\ counter = 0
    /\ blocks = << >>
    /\ full = {}
    /\ anchor = [t \in Tenants |-> NoHead]
    /\ anchorSig = [t \in Tenants |-> NoHead]
    /\ produced = [t \in Tenants |-> 0]
    /\ signed = [t \in Tenants |-> {}]
    /\ disturbed = [t \in Tenants |-> FALSE]

\* Mutant: a failed flush keeps its records for the next one.
EndFlushKeepsBatch(t) ==
    /\ pc' = [pc EXCEPT ![t] = "idle"]
    /\ iter' = [iter EXCEPT ![t] = 0]
    /\ acc' = acc

\* The end of every flush, successful or not: the batch is dropped.
EndFlush(t) ==
    /\ pc' = [pc EXCEPT ![t] = "idle"]
    /\ iter' = [iter EXCEPT ![t] = 0]
    /\ acc' = [acc EXCEPT ![t] = {}]

Goto(t, label) ==
    /\ pc' = [pc EXCEPT ![t] = label]
    /\ UNCHANGED <<iter, acc>>

\* An accepted export: its records are accumulated and, when ITERATION_COUNT
\* is exactly BATCH_SIZE, a flush starts.  A refused enclave returns from the
\* flush at once and resets nothing, so the count runs past the batch size.
Export(t) ==
    /\ pc[t] = "idle"
    /\ iter[t] < MaxIter
    /\ iter' = [iter EXCEPT ![t] = @ + 1]
    /\ \/ UNCHANGED <<acc, produced>>
       \/ /\ produced[t] < MaxRecords
          /\ produced' = [produced EXCEPT ![t] = @ + 1]
          /\ acc' = [acc EXCEPT ![t] = @ \cup {produced[t]}]
    /\ IF iter[t] + 1 = BatchSize /\ ~refused[t]
       THEN /\ counter < MaxBlocks
            /\ pc' = [pc EXCEPT ![t] = IF inited[t] THEN "connect" ELSE "init"]
       ELSE UNCHANGED pc
    /\ UNCHANGED <<num, latest, inited, refused, bid, redis, signed, disturbed>>

\* The first connection fails: the enclave stays uninitialised and goes on.
InitConnectFails(t) ==
    /\ pc[t] = "init"
    /\ "connect" \in Faults
    /\ Goto(t, "connect")
    /\ UNCHANGED <<num, latest, inited, refused, bid, redis, history>>

\* A GPU node resumes only from a stored head its own anchor vouches for.
GpuResume(t) ==
    /\ pc[t] = "init"
    /\ t \in Gpu
    /\ \E a \in AnchorRead(t), s \in LatestBlockState(t) :
         \/ /\ DecideResume(a, s) = "resume"
            /\ num' = [num EXCEPT ![t] = NextNumber(a)]
            /\ latest' = [latest EXCEPT ![t] = a.root]
            /\ inited' = [inited EXCEPT ![t] = TRUE]
            /\ Goto(t, "connect")
            /\ UNCHANGED refused
         \/ /\ DecideResume(a, s) = "fresh"
            /\ inited' = [inited EXCEPT ![t] = TRUE]
            /\ Goto(t, "connect")
            /\ UNCHANGED <<num, latest, refused>>
         \/ /\ DecideResume(a, s) = "refuse"
            /\ refused' = [refused EXCEPT ![t] = TRUE]
            /\ Goto(t, "idle")
            /\ UNCHANGED <<num, latest, inited>>
    /\ UNCHANGED <<bid, redis, history>>

\* A CPU guest resumes from whatever Redis reports.
CpuResume(t) ==
    /\ pc[t] = "init"
    /\ t \notin Gpu
    /\ \E s \in LatestBlockState(t) :
         IF s.have
         THEN /\ num' = [num EXCEPT ![t] = NextNumber(s)]
              /\ latest' = [latest EXCEPT ![t] = s.root]
         ELSE UNCHANGED <<num, latest>>
    /\ inited' = [inited EXCEPT ![t] = TRUE]
    /\ Goto(t, "connect")
    /\ UNCHANGED <<refused, bid, redis, history>>

Connect(t) ==
    /\ pc[t] = "connect"
    /\ \/ Goto(t, "incr")
       \/ "connect" \in Faults /\ EndFlush(t)
    /\ UNCHANGED <<num, latest, inited, refused, bid, redis, history>>

\* insert_block: INCR block_counter
Incr(t) ==
    /\ pc[t] = "incr"
    /\ \/ /\ counter' = counter + 1
          /\ bid' = [bid EXCEPT ![t] = counter + 1]
          /\ Goto(t, "hset")
       \/ /\ "io" \in Faults
          /\ counter' \in {counter, counter + 1}
          /\ EndFlush(t)
          /\ UNCHANGED bid
       \/ /\ "reply" \in Faults
          /\ EndFlush(t)
          /\ UNCHANGED <<counter, bid>>
    /\ UNCHANGED <<num, latest, inited, refused, blocks, full, anchor,
                   anchorSig, history>>

\* The block the flush is storing.
Pending(t) == Block(t, num[t], latest[t], acc[t])

\* Mutant: the chain head is not moved to the new block.
InsertedKeepsRoot(t) ==
    /\ num' = [num EXCEPT ![t] = @ + 1]
    /\ latest' = latest
    /\ IF t \in Gpu THEN Goto(t, "sig") ELSE EndFlush(t)

\* insert_block returned Ok: the in-memory head moves to the new block.
Inserted(t) ==
    /\ num' = [num EXCEPT ![t] = @ + 1]
    /\ latest' = [latest EXCEPT ![t] = ChainedRoot(latest[t], acc[t])]
    /\ IF t \in Gpu THEN Goto(t, "sig") ELSE EndFlush(t)

PutBlock(t) == blocks' = [i \in DOMAIN blocks \cup {bid[t]} |->
                             IF i = bid[t] THEN Pending(t) ELSE blocks[i]]

\* insert_block: HSET block:<id>.  A batch without records has no list and no
\* Merkle nodes to store: insert_block returns Ok at once.
Hset(t) ==
    /\ pc[t] = "hset"
    /\ \/ /\ PutBlock(t)
          /\ IF acc[t] = {}
             THEN /\ full' = full \cup {bid[t]}
                  /\ Inserted(t)
             ELSE /\ Goto(t, "rpush")
                  /\ UNCHANGED <<num, latest, full>>
       \/ /\ "io" \in Faults
          /\ PutBlock(t) \/ UNCHANGED blocks
          /\ EndFlush(t)
          /\ UNCHANGED <<num, latest, full>>
       \/ /\ "reply" \in Faults
          /\ EndFlush(t)
          /\ UNCHANGED <<num, latest, blocks, full>>
    /\ UNCHANGED <<inited, refused, bid, counter, anchor, anchorSig, history>>

\* Mutant: the pipeline is sent but its replies are not awaited.
RpushNotAwaited(t) ==
    /\ pc[t] = "rpush"
    /\ full' \in {full, full \cup {bid[t]}}
    /\ Goto(t, "merkle")
    /\ UNCHANGED <<num, latest, inited, refused, bid, counter, blocks, anchor,
                   anchorSig, history>>

\* insert_block: the RPUSH pipeline; error replies are not looked at.
Rpush(t) ==
    /\ pc[t] = "rpush"
    /\ \/ /\ full' = full \cup {bid[t]}
          /\ Goto(t, "merkle")
       \/ /\ "reply" \in Faults
          /\ Goto(t, "merkle")
          /\ UNCHANGED full
       \/ /\ "io" \in Faults
          /\ full' \in {full, full \cup {bid[t]}}
          /\ EndFlush(t)
    /\ UNCHANGED <<num, latest, inited, refused, bid, counter, blocks, anchor,
                   anchorSig, history>>

\* insert_block: the HSET merkle:<id> pipeline; nothing reads the nodes back,
\* so only whether it returns matters.
Merkle(t) ==
    /\ pc[t] = "merkle"
    /\ \/ Inserted(t)
       \/ "io" \in Faults /\ EndFlush(t) /\ UNCHANGED <<num, latest>>
    /\ UNCHANGED <<inited, refused, bid, redis, history>>

\* Mutant: the anchor is counted back twice.
MemoryHeadBehind(t) == ChainHead(num[t] - 2, latest[t])

\* The head of the chain as the enclave remembers it.
MemoryHead(t) == ChainHead(num[t] - 1, latest[t])

\* public_anchor_signature and SET gpu_anchor_sig, whose result is ignored.
StoreAnchorSig(t) ==
    /\ pc[t] = "sig"
    /\ \/ anchorSig' = [anchorSig EXCEPT ![t] = MemoryHead(t)]
       \/ {"io", "reply"} \cap Faults # {} /\ UNCHANGED anchorSig
    /\ Goto(t, "anchor")
    /\ UNCHANGED <<num, latest, inited, refused, bid, counter, blocks, full,
                   anchor, history>>

\* checkpoint_line and SET gpu_checkpoint, whose result is ignored.
StoreAnchor(t) ==
    /\ pc[t] = "anchor"
    /\ \/ /\ anchor' = [anchor EXCEPT ![t] = MemoryHead(t)]
          /\ signed' = [signed EXCEPT ![t] = @ \cup {MemoryHead(t)}]
       \/ {"io", "reply"} \cap Faults # {} /\ UNCHANGED <<anchor, signed>>
    /\ EndFlush(t)
    /\ UNCHANGED <<num, latest, inited, refused, bid, counter, blocks, full,
                   anchorSig, produced, disturbed>>

\* main returns when its connection ends: the statics are gone, and the
\* runner starts a new enclave from their initial values.
Crash(t) ==
    /\ "crash" \in Faults
    /\ pc' = [pc EXCEPT ![t] = "idle"]
    /\ iter' = [iter EXCEPT ![t] = 0]
    /\ acc' = [acc EXCEPT ![t] = {}]
    /\ num' = [num EXCEPT ![t] = 0]
    /\ latest' = [latest EXCEPT ![t] = Zeros]
    /\ inited' = [inited EXCEPT ![t] = FALSE]
    /\ refused' = [refused EXCEPT ![t] = FALSE]
    /\ bid' = [bid EXCEPT ![t] = 0]
    /\ UNCHANGED <<redis, history>>

\* Block keys disappear from Redis, and the anchor is an earlier one or none:
\* what a partial restore of the database leaves.
Loss(t) ==
    /\ "loss" \in Faults
    /\ \E keep \in SUBSET Own(t) :
         blocks' = [i \in (DOMAIN blocks \ Own(t)) \cup keep |-> blocks[i]]
    /\ anchor' \in {[anchor EXCEPT ![t] = h] : h \in signed[t] \cup {NoHead}}
    /\ disturbed' = [disturbed EXCEPT ![t] = TRUE]
    /\ UNCHANGED <<enclave, counter, full, anchorSig, produced, signed>>

\* Somebody else overwrites one block by one with records the tenant never
\* produced (MaxRecords), and possibly the anchor by a line for that block.
Rewrite(t) ==
    /\ "rewrite" \in Faults
    /\ \E i \in Own(t) :
         LET b == Block(t, blocks[i].number, blocks[i].prev, {MaxRecords}) IN
           /\ blocks' = [blocks EXCEPT ![i] = b]
           /\ \/ UNCHANGED anchor
              \/ anchor' = [anchor EXCEPT ![t] = ChainHead(b.number, b.root)]
    /\ disturbed' = [disturbed EXCEPT ![t] = TRUE]
    /\ UNCHANGED <<enclave, counter, full, anchorSig, produced, signed>>

Flush(t) ==
    \/ InitConnectFails(t) \/ GpuResume(t) \/ CpuResume(t) \/ Connect(t)
    \/ Incr(t) \/ Hset(t) \/ Rpush(t) \/ Merkle(t)
    \/ StoreAnchorSig(t) \/ StoreAnchor(t)

Next == \E t \in Tenants : Export(t) \/ Flush(t) \/ Crash(t)
                           \/ Loss(t) \/ Rewrite(t)

Spec == Init /\ [][Next]_vars

-----------------------------------------------------------------------------

Labels == {"idle", "init", "connect", "incr", "hset", "rpush", "merkle",
           "sig", "anchor"}

\* Every variable keeps its type; ids in Redis are ids INCR handed out.
TypeOK ==
    /\ pc \in [Tenants -> Labels]
    /\ iter \in [Tenants -> Nat]
    /\ acc \in [Tenants -> Batches]
    /\ num \in [Tenants -> Nat]
    /\ latest \in [Tenants -> Roots]
    /\ inited \in [Tenants -> BOOLEAN]
    /\ refused \in [Tenants -> BOOLEAN]
    /\ bid \in [Tenants -> Nat]
    /\ counter \in Nat
    /\ DOMAIN blocks \subseteq 1..counter
    /\ \A i \in DOMAIN blocks : blocks[i] \in BlockType
    /\ full \subseteq Nat
    /\ anchor \in [Tenants -> HeadType]
    /\ anchorSig \in [Tenants -> HeadType]
    /\ produced \in [Tenants -> Nat]
    /\ signed \in [Tenants -> SUBSET HeadType]
    /\ disturbed \in [Tenants -> BOOLEAN]

-----------------------------------------------------------------------------
(* The offline auditors *)

\* verify_chain: the blocks of a tenant in the order of their ids; each must
\* name its predecessor's chained root, and the first one is taken as it is.
AuditChain(t) ==
    \A i, j \in Own(t) :
        (i < j /\ ~ \E k \in Own(t) : i < k /\ k < j)
            => /\ blocks[j].prev = blocks[i].root
               /\ blocks[j].root = ChainedRoot(blocks[j].prev, blocks[j].batch)

\* A stored block is the one this head names.
Stores(t, h) ==
    \E i \in Own(t) : blocks[i].number = h.number /\ blocks[i].root = h.root

-----------------------------------------------------------------------------
(* The log that the blocks of a tenant stand for: the batches its last block *)
(* commits to.                                                               *)

LastBlock(t) == CHOOSE i \in Own(t) : \A k \in Own(t) : k <= i

StoredLog == [t \in Tenants |-> IF Own(t) = {} THEN Zeros
                                ELSE blocks[LastBlock(t)].root]

Log == INSTANCE EnergyLog WITH Owners <- Tenants, log <- StoredLog,
                               Records <- 0..MaxRecords

\* When nothing but stops and restarts of enclaves goes wrong, storing blocks
\* implements an append-only log per tenant.
ImplementsLog == Log!LogSpec

-----------------------------------------------------------------------------
(* Properties *)

\* The audit script accepts every tenant's chain at every moment: whatever the
\* point at which enclaves stop and start, verify_chain finds no broken link.
AuditAccepts == \A t \in Tenants : AuditChain(t)

Linked(t) ==
    \A i \in Own(t) :
        /\ blocks[i].prev # Zeros =>
             \E j \in Own(t) : /\ j < i
                               /\ blocks[j].root = blocks[i].prev
                               /\ blocks[j].number + 1 = blocks[i].number
        /\ t \in Gpu => blocks[i].number = Len(blocks[i].prev)

Anchored(t) == \A h \in {anchor[t], anchorSig[t]} : h.have => Stores(t, h)

\* What insert_block stores for a tenant whose keys nobody else touched is a
\* tree of chains: a block that is not the first of a chain links to an older
\* block of its own tenant with the number before its own, and a GPU node's
\* block number is the length of the chain behind it.  Both anchor lines name
\* a stored block: they are never ahead of the chain they vouch for.  No
\* failure of a command breaks this, nor does damage to another tenant's keys.
LinkedStore == \A t \in Tenants : ~disturbed[t] => Linked(t) /\ Anchored(t)

\* A record is committed at most once: no two blocks of a tenant share one,
\* even when insert_block reports a failure after Redis applied the command.
\* Whoever overwrites a block may repeat a record; the enclave never does.
AtMostOnce ==
    \A i, j \in DOMAIN blocks :
        (i # j /\ blocks[i].tenant = blocks[j].tenant)
            => \A r \in blocks[i].batch \cap blocks[j].batch :
                   disturbed[blocks[i].tenant] /\ r >= MaxRecords

\* The enclave signs at most one head per block number.
SealedOnce ==
    \A t \in Tenants : \A g, h \in signed[t] : g.number = h.number => g = h

\* A block whose head was signed has all its records in Redis.
SignedIsComplete ==
    \A t \in Tenants : \A h \in signed[t] :
        \E i \in Own(t) : /\ blocks[i].number = h.number
                          /\ blocks[i].root = h.root
                          /\ i \in full

\* Refusing to resume means that Redis was changed behind the enclave's back.
RefusedOnlyIfDisturbed == \A t \in Tenants : refused[t] => disturbed[t]

\* A GPU enclave vouches only for records it produced itself, whatever Redis
\* offered it when it resumed.
VouchedHistory ==
    \A t \in Gpu : \A k \in 1..Len(latest[t]) :
        \A r \in latest[t][k] : r < produced[t]

\* When the anchor of a tenant is behind its chain, which is how a stop
\* between insert_block and SET gpu_checkpoint leaves it, and the enclave that
\* wrote the block is gone, no block is ever added to that chain again.
Lagging(t) ==
    /\ t \in Gpu
    /\ Own(t) # {}
    /\ ~inited[t]
    /\ \A i \in Own(t) : (\A k \in Own(t) : k <= i) =>
                             blocks[i].root # anchor[t].root

LaggingIsFinal ==
    [][\A t \in Tenants : Lagging(t) => Lagging(t)' /\ Own(t)' = Own(t)]_vars

\* A GPU enclave that resumes does so on a block of the store whose head it
\* signed, and numbers its own blocks from there; on the last one, unless error
\* replies hid that from it.
ResumesOnLastBlock ==
    [][\A t \in Gpu :
          (~inited[t] /\ inited'[t] /\ <<num, latest>>' # <<num, latest>>)
             => \E i \in Own(t) :
                  /\ blocks[i].root = latest'[t]
                  /\ blocks[i].number + 1 = num'[t]
                  /\ ChainHead(blocks[i].number, blocks[i].root) \in signed[t]
                  /\ "reply" \in Faults
                     \/ \A k \in Own(t) : blocks[k].number <= blocks[i].number]_vars

=============================================================================
