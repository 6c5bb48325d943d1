----------------------------- MODULE Commitments -----------------------------
(***************************************************************************)
(* What the records of a cycle are committed to: their encoding as bytes,  *)
(* the Merkle tree of a batch, inclusion proofs, the chain of blocks, and  *)
(* the text of a checkpoint line.  The records are those of Attribution;   *)
(* here they are encoded, hashed, batched into blocks and verified again.  *)
(*                                                                         *)
(* SHA-256 is the injective Hash(m) = <<m>>, so a digest is what was       *)
(* hashed, and digests are concatenated as they are in the code.  A byte   *)
(* of a text is its ASCII code.  The widths of integers and of hashes in a *)
(* line are constants, as the bounds of TLC's integers require.            *)
(***************************************************************************)
EXTENDS Attribution, FiniteSets, FiniteSetsExt

CONSTANTS
    Width32,      \* bytes of a u32 (4 in the code)
    Width64,      \* bytes of a u64 (8 in the code)
    DigestBytes,  \* bytes of a hash in a checkpoint line (32 in the code)
    MaxDigits,    \* digits of the largest u64 (20 in the code)
    MaxLabel,     \* MAX_TENANT_LABEL (64 in the code)
    BatchSize,    \* records of a block
    MaxLeaves     \* bound: leaves of the trees compared with the reference

\* v >> 8 * k, for each byte k of an integer of some width.
Shifts(width, v) ==
    LET Shift[k \in 0..width] == IF k = 0 THEN v ELSE Shift[k - 1] \div 256
    IN  Shift

\* The unsigned integers of so many bytes.
Unsigned(width) == {v \in Nat : Shifts(width, v)[width] = 0}

\* A pid is a u32.
ASSUME CommitmentsAssumption ==
    /\ Width32 \in Nat \ {0}
    /\ Width64 \in Nat \ {0}
    /\ DigestBytes \in Nat \ {0}
    /\ BatchSize \in Nat \ {0}
    /\ 10^MaxDigits > 256^Width64 - 1
    /\ 0..MaxProcs \subseteq Unsigned(Width32)

-----------------------------------------------------------------------------
(* Encodings *)

MaxU64 == 256^Width64 - 1

\* push_u32_le and push_u64_le.
LE(width, v) == [k \in 1..width |-> Shifts(width, v)[k - 1] % 256]

LenPrefixed(field) == LE(Width32, Len(field)) \o field

RecordFormat == 2

EncodeRecord(r) ==
    <<RecordFormat>> \o LE(Width32, r.pid) \o LE(Width64, r.cpu_time)
        \o LE(Width64, r.energy) \o LE(Width64, r.power)
        \o LenPrefixed(r.vm_name) \o LenPrefixed(r.timestamp)

Hash(message) == <<message>>

\* [0u8; 32], which nothing hashes to.
Zeros == <<<<>>>>

\* The first byte says what is hashed: a leaf, a pair, a root or a link.
HashLeaf(record)                  == Hash(<<0>> \o record)
HashPair(left, right)             == Hash(<<1>> \o left \o right)
CommitRoot(leaf_count, subtree)   == Hash(<<2>> \o LE(Width64, leaf_count) \o subtree)
ComputeChainedRoot(prev, merkle)  == Hash(<<3>> \o prev \o merkle)

-----------------------------------------------------------------------------
(* The Merkle tree of a batch *)

\* Mutant: an odd node is paired with itself.
FoldLevelPadded(level) ==
    [k \in 1..((Len(level) + 1) \div 2) |->
        HashPair(level[2*k - 1],
                 level[IF 2*k <= Len(level) THEN 2*k ELSE 2*k - 1])]

\* Neighbours are hashed together, and an odd node is promoted as it is.
FoldLevel(level) ==
    [k \in 1..((Len(level) + 1) \div 2) |->
        IF 2*k <= Len(level) THEN HashPair(level[2*k - 1], level[2*k])
                             ELSE level[2*k - 1]]

\* The levels of a tree from its leaves up; a single node is folded to itself.
Levels(leaves) ==
    LET Level[h \in 0..Len(leaves)] ==
            IF h = 0 THEN leaves ELSE FoldLevel(Level[h - 1])
    IN  Level

\* Levels are folded while they have more than one node.
Folds(leaves) ==
    CHOOSE h \in 0..Len(leaves) :
        /\ Len(Levels(leaves)[h]) = 1
        /\ \A k \in 0..(h - 1) : Len(Levels(leaves)[k]) > 1

FoldToRoot(leaves) == Levels(leaves)[Folds(leaves)][1]

Leaves(records) == [k \in DOMAIN records |-> HashLeaf(EncodeRecord(records[k]))]

\* The leaves and the pairs of a tree; a promoted node is not stored again.
Nodes(leaves) ==
    [level: {0}, position: 0..(Len(leaves) - 1)] \cup
    UNION { [level: {h}, position: 0..(Len(Levels(leaves)[h - 1]) \div 2 - 1)] :
            h \in 1..Folds(leaves) }

Build(records) ==
    LET leaves == Leaves(records) IN
    [ root        |-> IF records = << >> THEN Zeros
                      ELSE CommitRoot(Len(leaves), FoldToRoot(leaves)),
      leaf_hashes |-> leaves,
      height      |-> IF records = << >> THEN 0 ELSE Folds(leaves) + 1,
      nodes       |-> Nodes(leaves) ]

VerifyRecord(tree, record, leaf_index) ==
    /\ leaf_index < Len(tree.leaf_hashes)
    /\ HashLeaf(EncodeRecord(record)) = tree.leaf_hashes[leaf_index + 1]

\* The index of the node above a leaf at each level, counted from 0.
Indices(leaves, leaf_index) ==
    LET At[h \in 0..Len(leaves)] == IF h = 0 THEN leaf_index ELSE At[h - 1] \div 2
    IN  At

\* Mutant: a promoted node is given the node before it as a sibling.
SiblingOfAny(level, at) ==
    IF at % 2 = 0 /\ at + 1 < Len(level)
    THEN <<[hash |-> level[at + 2], is_left |-> FALSE]>>
    ELSE <<[hash |-> level[IF at = 0 THEN 1 ELSE at], is_left |-> TRUE]>>

\* A promoted node has no sibling.
SiblingOf(level, at) ==
    IF Len(level) % 2 = 1 /\ at = Len(level) - 1 THEN << >>
    ELSE IF at % 2 = 0
    THEN <<[hash |-> level[at + 2], is_left |-> FALSE]>>
    ELSE <<[hash |-> level[at],     is_left |-> TRUE]>>

\* The siblings of the nodes above a leaf, up to each level.
Siblings(leaves, leaf_index) ==
    LET Step[h \in 0..Len(leaves)] ==
            IF h = 0 THEN << >>
            ELSE Step[h - 1] \o SiblingOf(Levels(leaves)[h - 1],
                                          Indices(leaves, leaf_index)[h - 1])
    IN  Step

GenerateProof(leaves, leaf_index) ==
    [ leaf_hash  |-> leaves[leaf_index + 1],
      steps      |-> Siblings(leaves, leaf_index)[Folds(leaves)],
      leaf_count |-> Len(leaves) ]

\* The hash above one, given its sibling.
Above(step, hash) == IF step.is_left THEN HashPair(step.hash, hash)
                                     ELSE HashPair(hash, step.hash)

\* The hashes on the way up from a leaf.
Climbs(leaf_hash, steps) ==
    LET Climb[j \in 0..Len(steps)] ==
            IF j = 0 THEN leaf_hash ELSE Above(steps[j], Climb[j - 1])
    IN  Climb

VerifyProof(proof, root) ==
    CommitRoot(proof.leaf_count, Climbs(proof.leaf_hash, proof.steps)[Len(proof.steps)]) = root

-----------------------------------------------------------------------------
(* Blocks *)

NewBlock(number, prev, records) ==
    LET merkle_root == Build(records).root IN
    [ block_number      |-> number,
      merkle_root       |-> merkle_root,
      prev_chained_root |-> prev,
      chained_root      |-> ComputeChainedRoot(prev, merkle_root),
      record_count      |-> Len(records) % 256^Width32,
      records           |-> records ]

EmptyBlockchain == [number |-> 0, latest |-> Zeros, accumulated |-> << >>, blocks |-> << >>]

CreateBlock(c) ==
    LET block == NewBlock(c.number, c.latest, c.accumulated)
    IN  [number |-> c.number + 1, latest |-> block.chained_root,
         accumulated |-> << >>, blocks |-> Append(c.blocks, block)]

AddRecord(c, record) ==
    LET with == [c EXCEPT !.accumulated = Append(@, record)]
    IN  IF Len(with.accumulated) >= BatchSize THEN CreateBlock(with) ELSE with

\* The chain after each of some records.
Chains(records) ==
    LET Chain[k \in 0..Len(records)] ==
            IF k = 0 THEN EmptyBlockchain ELSE AddRecord(Chain[k - 1], records[k])
    IN  Chain

\* The blocks made of some records, the last of them by flush.
Blocks(records) ==
    LET c == Chains(records)[Len(records)]
    IN  (IF c.accumulated = << >> THEN c ELSE CreateBlock(c)).blocks

VerifyBlock(b) ==
    /\ Build(b.records).root = b.merkle_root
    /\ ComputeChainedRoot(b.prev_chained_root, b.merkle_root) = b.chained_root
    /\ Len(b.records) % 256^Width32 = b.record_count

VerifyBlockchain(blocks) ==
    \A k \in DOMAIN blocks :
        /\ VerifyBlock(blocks[k])
        /\ blocks[k].prev_chained_root =
               (IF k = 1 THEN Zeros ELSE blocks[k - 1].chained_root)
        /\ blocks[k].block_number = k - 1

-----------------------------------------------------------------------------
(* Checkpoint lines.  A parser gives the set of its results: one or none.  *)

Separator == 124
AnchorTag == <<99, 104, 101, 99, 107, 112, 111, 105, 110, 116, 45, 118, 49>>

SafeLabelByte(b) ==
    b \in (48..57) \cup (65..90) \cup (97..122) \cup {46, 95, 45}

ValidTenantLabel(s) == Len(s) \in 1..MaxLabel /\ \A k \in DOMAIN s : SafeLabelByte(s[k])

EncodeCheckpointMsg(tenant, number, root) ==
    AnchorTag \o <<Separator>> \o tenant \o <<Separator>>
        \o LE(Width64, number) \o root

Decimal(n) ==
    LET digits == CHOOSE d \in 1..MaxDigits : n < 10^d /\ (d > 1 => n >= 10^(d - 1))
    IN  [k \in 1..digits |-> 48 + ((n \div 10^(digits - k)) % 10)]

HexDigit(v) == IF v < 10 THEN 48 + v ELSE 87 + v

HexEncode(bytes) ==
    [k \in 1..(2 * Len(bytes)) |->
        LET b == bytes[(k + 1) \div 2]
        IN  HexDigit(IF k % 2 = 1 THEN b \div 16 ELSE b % 16)]

CheckpointLine(tenant, number, root, sig) ==
    AnchorTag \o <<Separator>> \o tenant \o <<Separator>> \o Decimal(number)
        \o <<Separator>> \o HexEncode(root) \o <<Separator>> \o HexEncode(sig)

AsciiLower(b) == IF b \in 65..90 THEN b + 32 ELSE b

EqIgnoreAsciiCase(a, b) ==
    Len(a) = Len(b) /\ \A k \in DOMAIN a : AsciiLower(a[k]) = AsciiLower(b[k])

HexVal(c) ==
    CASE c \in 48..57  -> {c - 48}
      [] c \in 97..102 -> {c - 87}
      [] c \in 65..70  -> {c - 55}
      [] OTHER         -> {}

\* hex_decode_32
HexDecode(s) ==
    IF Len(s) # 2 * DigestBytes \/ \E k \in DOMAIN s : HexVal(s[k]) = {} THEN {}
    ELSE LET V(k) == CHOOSE v \in HexVal(s[k]) : TRUE
         IN  {[k \in 1..DigestBytes |-> V(2*k - 1) * 16 + V(2*k)]}

\* parse_u64_dec: a digit is taken when the result still fits.
ParseU64(s) ==
    IF Len(s) \notin 1..MaxDigits THEN {}
    ELSE FoldLeft(
           LAMBDA acc, c : {a * 10 + (c - 48) :
                              a \in {v \in acc : /\ c \in 48..57
                                                 /\ v <= (MaxU64 - (c - 48)) \div 10}},
           {0}, s)

ParseCheckpointLine(line, tenant) ==
    LET at       == SelectSeq([k \in DOMAIN line |-> k], LAMBDA k : line[k] = Separator)
        Field(k) == SubSeq(line, IF k = 1 THEN 1 ELSE at[k - 1] + 1,
                                 IF k = 5 THEN Len(line) ELSE at[k] - 1)
    IN  IF Len(at) # 4 THEN {}
        ELSE { [block_number |-> n, root |-> r, sig |-> s] :
                 n \in {v \in ParseU64(Field(3)) : Field(1) = AnchorTag /\ Field(2) = tenant},
                 r \in HexDecode(Field(4)), s \in HexDecode(Field(5)) }

-----------------------------------------------------------------------------
(* The calendar of get_timestamp *)

IsLeapYear(year) == (year % 4 = 0 /\ year % 100 # 0) \/ year % 400 = 0

DaysInYear(year) == IF IsLeapYear(year) THEN 366 ELSE 365

DaysInMonth(year, month) ==
    CASE month = 2             -> IF IsLeapYear(year) THEN 29 ELSE 28
      [] month \in {4, 6, 9, 11} -> 30
      [] OTHER                 -> 31

\* The date of a day counted from 1970-01-01: whole years are taken off while
\* they fit, then whole months.
DateOf(days) ==
    LET Year[y, left \in Nat] ==
            IF left < DaysInYear(y) THEN <<y, left>>
            ELSE Year[y + 1, left - DaysInYear(y)]
        year == Year[1970, days]
        Month[m, left \in Nat] ==
            IF left < DaysInMonth(year[1], m) THEN <<m, left>>
            ELSE Month[m + 1, left - DaysInMonth(year[1], m)]
        month == Month[1, year[2]]
    IN  <<year[1], month[1], month[2] + 1>>

-----------------------------------------------------------------------------
(* The records of a request *)

\* handle_db_export; a placeholder has no CPU time.  The cycle takes a second.
CpuRecord(charge) ==
    [ pid       |-> charge.who,
      cpu_time  |-> IF charge.who = Nobody THEN 0 ELSE procs[charge.who],
      energy    |-> charge.energy,
      power     |-> charge.energy,
      vm_name   |-> <<118>>,
      timestamp |-> <<>> ]

\* handle_gpu_db_export: the label tells idle and unattributed energy apart.
GpuRecord(charge) ==
    LET who == charge.who IN
    [ pid       |-> IF who = Unattributed THEN 0 ELSE who,
      cpu_time  |-> IF who \in {Nobody, Unattributed} THEN 1
                    ELSE IF procs[who] > FullUtil THEN FullUtil ELSE procs[who],
      energy    |-> charge.energy,
      power     |-> 0,
      vm_name   |-> <<49 + who>>,
      timestamp |-> <<>> ]

\* Records are accumulated in the order of their positions.
Pushed(records) ==
    LET Push[n \in 0..(Len(procs) + 1)] ==
            IF n = 0 THEN << >>
            ELSE IF n \in DOMAIN records THEN Append(Push[n - 1], records[n])
                                         ELSE Push[n - 1]
    IN  Push

InOrder(records) == Pushed(records)[Len(procs) + 1]

Batches ==
    LET cpuRecords == InOrder(cpu)
        gpuRecords == InOrder(gpu)
    IN  { [k \in DOMAIN cpuRecords |-> CpuRecord(cpuRecords[k])],
          [k \in DOMAIN gpuRecords |-> GpuRecord(gpuRecords[k])] }

-----------------------------------------------------------------------------
(* Properties *)

\* Samples that meet the borders of the encodings: zero, the separator, texts
\* that look like a length, numbers of one byte and of two.
SampleNumbers == {0, 1, 9, 10, 124, 255, 256, 31744, 65535}
SampleRecords ==
    [ pid: {0, 1, 255}, cpu_time: {0, 1, 256}, energy: {0, 1, 256, 65535},
      power: {0}, vm_name: BoundedSeq({0, 1, 124}, 2), timestamp: BoundedSeq({0, 1}, 2) ]
SampleLabels  == { s \in BoundedSeq({45, 65, 124}, 2) : ValidTenantLabel(s) }

AllDiffer(F(_), S) == Cardinality({F(x) : x \in S}) = Cardinality(S)

\* Records that differ in any field have different bytes, whatever their texts
\* contain (test_to_bytes_resists_delimiter_injection).
RecordsDiffer == AllDiffer(EncodeRecord, SampleRecords)

\* The reference: a tree is split at the largest power of two below its size.
SplitRoot(leaves) ==
    LET Root[i, j \in DOMAIN leaves] ==
            LET half == CHOOSE p \in {2^h : h \in 0..(j - i)} :
                            p <= j - i /\ 2 * p > j - i
            IN  IF i = j THEN leaves[i]
                ELSE HashPair(Root[i, i + half - 1], Root[i + half, j])
    IN  Root[1, Len(leaves)]

LeafOf(k)   == HashLeaf(<<k>>)
SomeLeaves(n) == [k \in 1..n |-> LeafOf(k)]
SomeRoot(leaves) == CommitRoot(Len(leaves), FoldToRoot(leaves))

\* The tree of any number of leaves is the one its size determines; different
\* batches have different roots, also when leaves repeat
\* (test_odd_leaf_padding_is_not_ambiguous); each leaf is provable where it
\* is, and no other leaf and no other size is, whatever nodes of the tree are
\* offered as siblings.
TreesBind ==
    /\ \A n \in 1..MaxLeaves :
         /\ FoldToRoot(SomeLeaves(n)) = SplitRoot(SomeLeaves(n))
         /\ \A k \in 1..n :
              VerifyProof(GenerateProof(SomeLeaves(n), k - 1), SomeRoot(SomeLeaves(n)))
         /\ Cardinality(Nodes(SomeLeaves(n))) = 2 * n - 1
    /\ AllDiffer(SomeRoot, { s \in BoundedSeq({LeafOf(k) : k \in 1..3}, 5) : s # << >> })
    /\ \A n \in 1..4 :
         LET leaves   == SomeLeaves(n)
             siblings == UNION { Range(Levels(leaves)[h]) : h \in 0..Folds(leaves) }
         IN  \A leaf \in {LeafOf(k) : k \in 1..(n + 1)}, count \in 1..5,
               steps \in BoundedSeq([hash: siblings, is_left: BOOLEAN], 2) :
               VerifyProof([leaf_hash |-> leaf, steps |-> steps, leaf_count |-> count],
                           SomeRoot(leaves))
                 => leaf \in Range(leaves) /\ count = n

\* Of all sequences of the blocks of a chain, those that verify are its
\* prefixes: a verified chain has no gap, no repetition and no reordering.
OnlyPrefixesVerify(blocks) ==
    \A s \in BoundedSeq(DOMAIN blocks, Len(blocks)) :
        VerifyBlockchain([k \in DOMAIN s |-> blocks[s[k]]])
            <=> \A k \in DOMAIN s : s[k] = k

\* A batch of four blocks, the last of them not full.
LongBatch ==
    [k \in 1..(4 * BatchSize - 1) |->
        [pid |-> k % 3, cpu_time |-> 0, energy |-> 1, power |-> 0,
         vm_name |-> << >>, timestamp |-> << >>]]

LongChainBinds == OnlyPrefixesVerify(Blocks(LongBatch))

\* A checkpoint line is parsed to what it was written from, by its tenant
\* only; two checkpoints are never signed as the same bytes; a number is
\* parsed to its value when it fits and not at all when it does not, and texts
\* of hashes that are equal but for case are the same hash.
LinesBind ==
    LET Roots  == {<<b>> : b \in {0, 124}}
        Digits == BoundedSeq({48, 51, 53, 54}, MaxDigits + 1)
        Value(s) == FoldLeft(LAMBDA v, c : v * 10 + (c - 48), 0, s)
        Texts  == BoundedSeq({48, 57, 65, 70, 97, 102, 103}, 2)
    IN  /\ \A t, other \in SampleLabels, n \in SampleNumbers, r, s \in Roots :
             ParseCheckpointLine(CheckpointLine(t, n, r, s), other) =
                 {[block_number |-> n, root |-> r, sig |-> s] : x \in {t} \cap {other}}
        /\ AllDiffer(LAMBDA m : EncodeCheckpointMsg(m[1], m[2], m[3]),
                     SampleLabels \X SampleNumbers \X Roots)
        /\ \A s \in Digits :
             ParseU64(s) = {v \in {Value(s)} : Len(s) \in 1..MaxDigits /\ v <= MaxU64}
        /\ \A a, b \in Texts :
             HexDecode(a) # {} => (EqIgnoreAsciiCase(a, b) <=> HexDecode(a) = HexDecode(b))

\* The date of each day is the day after that of the day before, through leap
\* years and the turns of centuries.
DatesAdvance ==
    \A d \in (0..800) \cup (10950..11400) \cup (47450..47900) :
        LET now == DateOf(d)  next == DateOf(d + 1) IN
        \/ next = <<now[1], now[2], now[3] + 1>> /\ now[3] < DaysInMonth(now[1], now[2])
        \/ next = <<now[1], now[2] + 1, 1>> /\ now[3] = DaysInMonth(now[1], now[2])
        \/ next = <<now[1] + 1, 1, 1>> /\ now[2] = 12 /\ now[3] = 31

\* The encodings, the trees, the chains and the lines tell different contents
\* apart, on samples at their borders and against reference definitions.
ReferencesAgree ==
    /\ RecordsDiffer /\ TreesBind /\ LinesBind /\ DatesAdvance /\ LongChainBinds
    /\ \A records \in Batches \ {<< >>} :
         FoldToRoot(Leaves(records)) = SplitRoot(Leaves(records))

\* What is published of a batch of records determines it: every record of a
\* cycle is verified at its place and at no other and is provable there; it is
\* in the block its index says, and the blocks verify in their order only.
CommitmentsBind ==
    \A records \in Batches :
        LET tree   == Build(records)
            blocks == Blocks(records)
        IN  /\ \A i, k \in DOMAIN records :
                 VerifyRecord(tree, records[i], k - 1) <=> i = k
            /\ \A k \in DOMAIN records :
                 VerifyProof(GenerateProof(tree.leaf_hashes, k - 1), tree.root)
            /\ \A k \in DOMAIN records :
                 blocks[(k - 1) \div BatchSize + 1].records[((k - 1) % BatchSize) + 1] = records[k]
            /\ OnlyPrefixesVerify(blocks)

=============
