--------------------------- MODULE GpuExportProofs ---------------------------
(***************************************************************************)
(* Proofs about GpuExport, for any number of cards, failures and restarts, *)
(* any batch size and any bound.                                           *)
(***************************************************************************)
EXTENDS GpuExport, TLAPS

LEMMA NameFacts ==
    /\ \A c \in Cards : /\ Known(c) \in Names /\ Unknown(c) \in Names
                        /\ Known(c)[1] = c /\ Unknown(c)[1] = c
                        /\ Known(c) # Unknown(c)
    /\ \A n \in Names : n[1] \in Cards
BY DEF Names, Known, Unknown

LEMMA SampleFacts ==
    ASSUME TypeOK, NEW c \in Cards, c <= Len(samples)
    PROVE  /\ samples[c] \in SampleType
           /\ samples[c].energy \in Nat
           /\ samples[c].tag \in Nat \cup {Absent}
           /\ Name(c) \in Names
<1>1. samples[c] \in SampleType
    <2>1. samples \in Seq(SampleType) /\ c \in 1..Len(samples)
        BY GpuAssumption DEF TypeOK, Cards
    <2>2. QED
        BY <2>1
<1>2. QED
    BY <1>1 DEF SampleType, Name

LEMMA LookupAnswers ==
    ASSUME NEW cached \in Answers, NEW fact, NEW a \in Lookup(cached, fact)
    PROVE  a \in {"yes", "no"}
BY DEF Lookup, Answers

LEMMA TypeInit == Init => TypeOK
<1> SUFFICES ASSUME Init PROVE TypeOK
    OBVIOUS
<1>1. /\ meter \in [Cards -> Nat] /\ tag \in [Cards -> Nat \cup {Absent}]
      /\ rules \subseteq Rules /\ bindings \subseteq Cards /\ faults \in FaultSets
    BY GpuAssumption DEF Init
<1>2. samples \in Seq(SampleType) /\ Len(samples) <= Count
    BY GpuAssumption DEF Init, NoSamples
<1>3. /\ ruleCache \in [Rules -> Answers] /\ nameCache \in [Names -> Answers]
      /\ baseline \in [Names -> Nat \cup {Absent}]
    BY DEF Init, Answers
<1>4. /\ iter \in 0..BatchSize /\ acc \in [Cards -> Nat]
      /\ stored \in [Cards -> Nat] /\ signed \in [Cards -> Nat]
      /\ burned \in [Cards -> Nat] /\ start \in [Cards -> Nat \cup {Absent}]
      /\ recorded \in [Cards -> Nat] /\ glitches \in Nat
    BY GpuAssumption DEF Init
<1>5. connected \in BOOLEAN /\ status \in {0, -13, -102, -105}
    BY DEF Init
<1>6. QED
    BY <1>1, <1>2, <1>3, <1>4, <1>5 DEF TypeOK

\* What card c adds to the records is a natural number.
LEMMA ChargeType ==
    ASSUME TypeOK, Len(samples) = Count, NEW S
    PROVE  \A c \in Cards : Charge(c, S) \in Nat
<1> TAKE c \in Cards
<1>1. samples[c].energy \in Nat /\ Name(c) \in Names
    BY SampleFacts, GpuAssumption DEF Cards
<1>2. baseline[Name(c)] \in Nat \cup {Absent}
    BY <1>1 DEF TypeOK
<1>3. QED
    BY <1>1, <1>2 DEF Charge, Advance, Absent

LEMMA RecordTypes ==
    ASSUME TypeOK, Len(samples) = Count, NEW S, Record(S)
    PROVE  /\ baseline' \in [Names -> Nat \cup {Absent}]
           /\ recorded' \in [Cards -> Nat]
           /\ start' \in [Cards -> Nat \cup {Absent}]
<1>1. \A c \in Cards : samples[c].energy \in Nat
    BY SampleFacts, GpuAssumption DEF Cards
<1>2. baseline' \in [Names -> Nat \cup {Absent}]
    BY <1>1, NameFacts DEF TypeOK, Record, Baseline
<1>3. recorded' \in [Cards -> Nat]
    <2>1. \A c \in Cards : Charge(c, S) \in Nat /\ recorded[c] \in Nat
        BY ChargeType DEF TypeOK
    <2>2. QED
        BY <2>1 DEF Record
<1>4. start' \in [Cards -> Nat \cup {Absent}]
    BY <1>1 DEF TypeOK, Record
<1>5. QED
    BY <1>2, <1>3, <1>4

LEMMA FlushTypes ==
    ASSUME TypeOK, NEW new \in [Cards -> Nat], Flush(new)
    PROVE  /\ iter' \in 0..BatchSize
           /\ acc' \in [Cards -> Nat]
           /\ stored' \in [Cards -> Nat]
<1>1. iter' \in 0..BatchSize
    BY GpuAssumption DEF TypeOK, Flush
<1>2. acc' \in [Cards -> Nat]
    BY DEF Flush
<1>3. stored' \in [Cards -> Nat]
    <2>1. stored' = stored \/ stored' = [c \in Cards |-> stored[c] + new[c]]
        BY DEF Flush
    <2>2. stored \in [Cards -> Nat] /\ \A c \in Cards : stored[c] + new[c] \in Nat
        BY DEF TypeOK
    <2>3. QED
        BY <2>1, <2>2
<1>4. QED
    BY <1>1, <1>2, <1>3

\* Every step keeps the types.
LEMMA TypeStep == TypeOK /\ [Next]_vars => TypeOK'
<1> SUFFICES ASSUME TypeOK, [Next]_vars
             PROVE  TypeOK'
    OBVIOUS
<1>1. ASSUME NEW c \in Cards, Burn(c) PROVE TypeOK'
    <2>1. meter' \in [Cards -> Nat] /\ burned' \in [Cards -> Nat]
        BY <1>1 DEF Burn, TypeOK
    <2>2. UNCHANGED <<tag, site, exporter, enclave, stored, start, recorded,
                      glitches>>
        BY <1>1 DEF Burn
    <2>3. QED
        BY <2>1, <2>2 DEF TypeOK, site, exporter, enclave
<1>2. ASSUME NEW c \in Cards, Reset(c) PROVE TypeOK'
    <2>1. meter' \in [Cards -> Nat] /\ glitches' \in Nat
        BY <1>2 DEF Reset, TypeOK
    <2>2. UNCHANGED <<tag, site, exporter, enclave, stored, burned, start,
                      recorded>>
        BY <1>2 DEF Reset
    <2>3. QED
        BY <2>1, <2>2 DEF TypeOK, site, exporter, enclave
<1>3. CASE CollectCard
    <2> DEFINE c == Len(samples) + 1
    <2>1. PICK r \in Readings(c), name \in {Known(c), Unknown(c)} :
             /\ c \in Cards
             /\ glitches' \in {glitches, glitches + 1}
             /\ tag' = [tag EXCEPT ![c] = r.tag]
             /\ samples' = Append(samples, Sample(r.energy, r.tag, name))
        <3>1. /\ c \in Cards
              /\ \E r \in Readings(c),
                    name \in {Known(c)} \cup (IF "uuid" \in faults
                                            THEN {Unknown(c)} ELSE {}) :
                   /\ glitches' \in {glitches, glitches + 1}
                   /\ tag' = [tag EXCEPT ![c] = r.tag]
                   /\ samples' = Append(samples, Sample(r.energy, r.tag, name))
            <4>1. glitches + 0 = glitches
                BY DEF TypeOK
            <4>2. QED
                BY <1>3, <4>1 DEF CollectCard
        <3>2. QED
            BY <3>1
    <2>2. r.energy \in Nat /\ r.tag \in Nat \cup {Absent}
        <3>1. meter[c] \in Nat /\ tag[c] \in Nat \cup {Absent}
            BY <2>1 DEF TypeOK
        <3>2. \/ r = [energy |-> meter[c], tag |-> meter[c], bad |-> FALSE]
              \/ r = [energy |-> 0, tag |-> tag[c], bad |-> TRUE]
              \/ r = [energy |-> meter[c], tag |-> tag[c], bad |-> TRUE]
            BY DEF Readings
        <3>3. QED
            BY <3>1, <3>2
    <2>3. Sample(r.energy, r.tag, name) \in SampleType
        <3>1. name \in Names
            BY <2>1, NameFacts
        <3>2. QED
            BY <2>2, <3>1 DEF Sample, SampleType
    <2>4. samples' \in Seq(SampleType) /\ Len(samples') <= Count
        BY <2>1, <2>3, GpuAssumption DEF TypeOK, Cards
    <2>5. tag' \in [Cards -> Nat \cup {Absent}] /\ glitches' \in Nat
        BY <2>1, <2>2 DEF TypeOK
    <2>6. UNCHANGED <<meter, site, connected, enclave, stored, burned, start,
                      recorded>>
        BY <1>3 DEF CollectCard
    <2>7. QED
        BY <2>4, <2>5, <2>6 DEF TypeOK, site, enclave
<1>4. CASE CollectFails \/ DispatchFails \/ ConnectionBreaks
    <2>1. /\ samples' \in {samples, NoSamples} /\ connected' \in BOOLEAN
          /\ glitches' \in {glitches, glitches + 1}
          /\ UNCHANGED <<cards, site, enclave, stored, burned, start, recorded>>
        BY <1>4 DEF CollectFails, DispatchFails, ConnectionBreaks, history, TypeOK
    <2>2. samples' \in Seq(SampleType) /\ Len(samples') <= Count
        <3>1. << >> \in Seq(SampleType) /\ Len(<< >>) <= Count
            BY GpuAssumption
        <3>2. samples \in Seq(SampleType) /\ Len(samples) <= Count
            BY DEF TypeOK
        <3>3. QED
            BY <2>1, <3>1, <3>2 DEF NoSamples
    <2>3. QED
        BY <2>1, <2>2 DEF TypeOK, cards, site, enclave
<1>5. CASE Export
    <2>1. PICK rb \in Lookup(ruleCache["binding"], "binding" \in rules),
               rt \in Lookup(ruleCache["tag"], "tag" \in rules),
               owned \in [Cards -> {"yes", "no"}] :
                  HandleExport(rb, rt, owned)
        BY <1>5 DEF Export
    <2> DEFINE S   == Processed(rt)
               new == [c \in Cards |-> acc[c] + Charge(c, S)]
    <2>2. Len(samples) = Count /\ samples' = NoSamples
          /\ UNCHANGED <<cards, site, connected, burned, glitches>>
        BY <1>5 DEF Export
    <2>3. new \in [Cards -> Nat]
        BY <2>2, ChargeType, SMTT(30) DEF TypeOK
    <2>4. ruleCache' \in [Rules -> Answers] /\ nameCache' \in [Names -> Answers]
        <3>1. rb \in {"yes", "no"} /\ rt \in {"yes", "no"}
            BY LookupAnswers DEF TypeOK, Rules
        <3>2. QED
            BY <2>1, <3>1, NameFacts DEF HandleExport, TypeOK, Answers
    <2>5. samples' \in Seq(SampleType) /\ Len(samples') <= Count
        BY <2>2, GpuAssumption DEF NoSamples
    <2>6. /\ baseline' \in [Names -> Nat \cup {Absent}]
          /\ recorded' \in [Cards -> Nat]
          /\ start' \in [Cards -> Nat \cup {Absent}]
          /\ iter' \in 0..BatchSize
          /\ acc' \in [Cards -> Nat] /\ stored' \in [Cards -> Nat]
          /\ signed' \in [Cards -> Nat]
          /\ status' \in {0, -13, -102, -105}
        <3>1. CASE /\ status' = -13
                   /\ UNCHANGED <<baseline, recorded, start, acc, stored, iter, signed>>
            BY <3>1 DEF TypeOK
        <3>2. CASE /\ Record(S) /\ acc' = new
                   /\ status' \in {-105, -102}
                   /\ UNCHANGED <<stored, iter, signed>>
            BY <2>2, <2>3, <3>2, RecordTypes DEF TypeOK
        <3>3. CASE Record(S) /\ SignChain(S) /\ Flush(new) /\ status' = 0
            <4>1. signed' \in [Cards -> Nat]
                <5>1. \A c \in Cards : Charge(c, S) \in Nat /\ signed[c] \in Nat
                    BY <2>2, ChargeType DEF TypeOK
                <5>2. QED
                    BY <3>3, <5>1 DEF SignChain
            <4>2. QED
                BY <2>2, <2>3, <3>3, <4>1, RecordTypes, FlushTypes
        <3>4. QED
            BY <2>1, <3>1, <3>2, <3>3 DEF HandleExport
    <2>7. QED
        BY <2>2, <2>4, <2>5, <2>6 DEF TypeOK, cards, site
<1>6. CASE Restart
    BY <1>6, GpuAssumption DEF Restart, TypeOK, site, Answers, NoSamples
<1>7. CASE UNCHANGED vars
    BY <1>7 DEF vars, cards, site, exporter, enclave, history, TypeOK
<1>8. QED
    BY <1>1, <1>2, <1>3, <1>4, <1>5, <1>6, <1>7 DEF Next, Cycle

\* Types of the cards' counters, the readings, the enclave's baselines and the
\* records: no reading, rejected request or restart makes a delta negative.
THEOREM TypeCorrect == Spec => []TypeOK
BY TypeInit, TypeStep, PTL DEF Spec

-----------------------------------------------------------------------------
(* The chain vouches for recorded energy only *)

LEMMA SignedStep ==
    TypeOK /\ SignedIsRecorded /\ [Next]_vars => SignedIsRecorded'
<1> SUFFICES ASSUME TypeOK, SignedIsRecorded, [Next]_vars
             PROVE  SignedIsRecorded'
    OBVIOUS
<1>1. CASE UNCHANGED <<signed, recorded>>
    BY <1>1 DEF SignedIsRecorded
<1>2. CASE Restart
    BY <1>2 DEF Restart, SignedIsRecorded
<1>3. CASE Export
    <2>1. PICK rb, rt, owned : HandleExport(rb, rt, owned)
        BY <1>3 DEF Export
    <2> DEFINE S == Processed(rt)
    <2>2. \A c \in Cards : /\ Charge(c, S) \in Nat
                           /\ signed[c] \in Nat /\ recorded[c] \in Nat
                           /\ signed[c] <= recorded[c]
        BY <1>3, ChargeType DEF Export, TypeOK, SignedIsRecorded
    <2>3. CASE UNCHANGED <<signed, recorded>>
        BY <2>3 DEF SignedIsRecorded
    <2>4. CASE Record(S) /\ UNCHANGED signed
        BY <2>2, <2>4 DEF Record, SignedIsRecorded
    <2>5. CASE Record(S) /\ SignChain(S)
        BY <2>2, <2>5 DEF Record, SignChain, SignedIsRecorded
    <2>6. QED
        BY <2>1, <2>3, <2>4, <2>5 DEF HandleExport
<1>4. ASSUME NEW c \in Cards, Burn(c) \/ Reset(c)
      PROVE  UNCHANGED <<signed, recorded>>
    BY <1>4 DEF Burn, Reset, enclave
<1>5. CollectCard \/ DispatchFails \/ CollectFails \/ ConnectionBreaks
          => UNCHANGED <<signed, recorded>>
    BY DEF CollectCard, DispatchFails, CollectFails, ConnectionBreaks, enclave, history
<1>6. UNCHANGED vars => UNCHANGED <<signed, recorded>>
    BY DEF vars, enclave, history
<1>7. QED
    BY <1>1, <1>2, <1>3, <1>4, <1>5, <1>6 DEF Next, Cycle

\* ecall_sign_energy_chain signs the sum of the deltas only when the whole
\* request was accepted, and each of them has been recorded by then.
THEOREM ChainIsRecorded == Spec => []SignedIsRecorded
<1>1. Init => SignedIsRecorded
    BY DEF Init, SignedIsRecorded
<1>2. QED
    BY <1>1, TypeInit, TypeStep, SignedStep, PTL DEF Spec

-----------------------------------------------------------------------------
(* No card is charged more than it burned *)

Trusted == ReadingsTrusted /\ NamesTrusted

\* By how much a counter at m is past b.
Rise(b, m) == IF m >= b THEN m - b ELSE 0

LEMMA RiseFacts ==
    ASSUME NEW b \in Nat, NEW m \in Nat
    PROVE  /\ Rise(b, m) \in Nat
           /\ Rise(b, m + 1) <= Rise(b, m) + 1
           /\ Rise(b, 0) = 0
           /\ Rise(m, m) = 0
BY DEF Rise

\* What the enclave remembers of the registry is right while that answers.
CacheInv ==
    "registry" \notin faults =>
        /\ \A r \in Rules :
              ruleCache[r] # "none" => (ruleCache[r] = "yes" <=> r \in rules)
        /\ \A n \in Names :
              nameCache[n] # "none" => (nameCache[n] = "yes" <=> Bound(n))

\* A reading is that of its card, under its UUID or without it.
SampleInv ==
    \A c \in Cards :
        c <= Len(samples) =>
            \/ Name(c) = Known(c)
            \/ Name(c) = Unknown(c) /\ "uuid" \in faults

\* A reading that the enclave may accept.
Credible(c) == samples[c].tag = samples[c].energy \/ "read" \notin faults

\* What a card is charged, and what it will be from its baseline, from its
\* tag if that becomes its baseline, or from the reading on its way.
Charged(c) == stored[c] + acc[c]
From(c, b) == Charged(c) + Rise(b, meter[c]) <= burned[c]
CardInv(c) ==
    LET b == baseline[Known(c)]
        e == samples[c].energy
    IN
    /\ Charged(c) <= burned[c]
    /\ b # Absent => From(c, b)
    /\ b = Absent /\ tag[c] # Absent => From(c, tag[c])
    /\ c <= Len(samples) /\ Credible(c) =>
          /\ b = Absent => From(c, e)
          /\ b # Absent /\ e >= b =>
                Charged(c) + (e - b) + Rise(e, meter[c]) <= burned[c]

ChargeInv == Trusted => \A c \in Cards : CardInv(c)

LEMMA ChargeInit == Init => CacheInv /\ SampleInv /\ ChargeInv
<1> SUFFICES ASSUME Init PROVE CacheInv /\ SampleInv /\ ChargeInv
    OBVIOUS
<1>1. CacheInv
    BY DEF Init, CacheInv
<1>2. SampleInv
    BY DEF Init, SampleInv, NoSamples, Cards
<1>3. ChargeInv
    BY NameFacts DEF Init, ChargeInv, CardInv, Charged, NoSamples, Cards
<1>4. QED
    BY <1>1, <1>2, <1>3

\* A lookup that does not fail tells what is registered.
LEMMA LookupTrue ==
    ASSUME "registry" \notin faults, NEW cached \in Answers, NEW fact \in BOOLEAN,
           cached # "none" => (cached = "yes" <=> fact),
           NEW a \in Lookup(cached, fact)
    PROVE  a = "yes" <=> fact
BY DEF Lookup, Answers

LEMMA CacheStep ==
    TypeOK /\ CacheInv /\ [Next]_vars => CacheInv'
<1> SUFFICES ASSUME TypeOK, CacheInv, [Next]_vars
             PROVE  CacheInv'
    OBVIOUS
<1>1. UNCHANGED <<ruleCache, nameCache, site>> => CacheInv'
    BY DEF CacheInv, Bound, site
<1>2. CASE Restart
    BY <1>2 DEF Restart, CacheInv
<1>3. CASE Export
    <2>1. PICK rb \in Lookup(ruleCache["binding"], "binding" \in rules),
               rt \in Lookup(ruleCache["tag"], "tag" \in rules),
               owned \in [Cards -> {"yes", "no"}] :
                  /\ \A c \in Cards :
                        owned[c] \in Lookup(nameCache[Name(c)], Bound(Name(c)))
                  /\ HandleExport(rb, rt, owned)
        BY <1>3 DEF Export
    <2>2. UNCHANGED site /\ Len(samples) = Count
        BY <1>3 DEF Export
    <2> SUFFICES ASSUME "registry" \notin faults
                 PROVE  /\ \A r \in Rules : ruleCache'[r] = "yes" <=> r \in rules
                        /\ \A n \in Names : nameCache'[n] # "none" =>
                              (nameCache'[n] = "yes" <=> Bound(n))
        BY <2>2 DEF CacheInv, site, Bound
    <2>3. /\ rb = "yes" <=> "binding" \in rules
          /\ rt = "yes" <=> "tag" \in rules
        <3>1. /\ ruleCache["binding"] \in Answers /\ ruleCache["tag"] \in Answers
              /\ ruleCache["binding"] # "none" =>
                    (ruleCache["binding"] = "yes" <=> "binding" \in rules)
              /\ ruleCache["tag"] # "none" =>
                    (ruleCache["tag"] = "yes" <=> "tag" \in rules)
            BY DEF CacheInv, Rules, TypeOK
        <3>2. rb = "yes" <=> "binding" \in rules
            <4>1. rb \in Lookup(ruleCache["binding"], "binding" \in rules)
                BY <2>1
            <4>2. QED
                BY <3>1, <4>1 DEF Lookup
        <3>3. rt = "yes" <=> "tag" \in rules
            <4>1. rt \in Lookup(ruleCache["tag"], "tag" \in rules)
                BY <2>1
            <4>2. QED
                BY <3>1, <4>1 DEF Lookup
        <3>4. QED
            BY <3>2, <3>3
    <2>4. ASSUME NEW c \in Cards
          PROVE  owned[c] = "yes" <=> Bound(Name(c))
        <3>1. Name(c) \in Names
            BY <2>2, SampleFacts, GpuAssumption DEF Cards
        <3>2. nameCache[Name(c)] \in Answers /\ Bound(Name(c)) \in BOOLEAN
            BY <3>1 DEF TypeOK, Bound, Names
        <3>3. QED
            BY <2>1, <3>1, <3>2, LookupTrue DEF CacheInv
    <2>5. \A r \in Rules : ruleCache'[r] = "yes" <=> r \in rules
        BY <2>1, <2>3 DEF HandleExport, Rules
    <2>6. ASSUME NEW n \in Names, nameCache'[n] # "none"
          PROVE  nameCache'[n] = "yes" <=> Bound(n)
        <3>1. CASE nameCache'[n] = nameCache[n]
            BY <2>6, <3>1 DEF CacheInv
        <3>2. CASE n = Name(n[1]) /\ nameCache'[n] = owned[n[1]]
            BY <2>4, <3>2, NameFacts
        <3>3. QED
            BY <2>1, <3>1, <3>2 DEF HandleExport
    <2>7. QED
        BY <2>5, <2>6
<1>4. ASSUME NEW c \in Cards, Burn(c) \/ Reset(c)
      PROVE  UNCHANGED <<ruleCache, nameCache, site>>
    BY <1>4 DEF Burn, Reset, enclave
<1>5. CollectCard \/ DispatchFails \/ CollectFails \/ ConnectionBreaks
          => UNCHANGED <<ruleCache, nameCache, site>>
    BY DEF CollectCard, DispatchFails, CollectFails, ConnectionBreaks, enclave
<1>6. UNCHANGED vars => UNCHANGED <<ruleCache, nameCache, site>>
    BY DEF vars, enclave
<1>7. QED
    BY <1>1, <1>2, <1>3, <1>4, <1>5, <1>6 DEF Next, Cycle

LEMMA SampleStep ==
    TypeOK /\ SampleInv /\ [Next]_vars => SampleInv'
<1> SUFFICES ASSUME TypeOK, SampleInv, [Next]_vars
             PROVE  SampleInv'
    OBVIOUS
<1>1. UNCHANGED <<samples, site>> => SampleInv'
    BY DEF SampleInv, Name, site
<1>2. CASE samples' = NoSamples
    BY <1>2 DEF SampleInv, NoSamples, Cards
<1>3. CASE CollectCard
    <2> DEFINE c == Len(samples) + 1
    <2>1. PICK r \in Readings(c), name \in {Known(c)} \cup (IF "uuid" \in faults
                                            THEN {Unknown(c)} ELSE {}) :
             samples' = Append(samples, Sample(r.energy, r.tag, name))
        BY <1>3 DEF CollectCard
    <2>2. samples \in Seq(SampleType) /\ faults' = faults
        BY <1>3 DEF TypeOK, CollectCard, site
    <2>3. ASSUME NEW d \in Cards, d <= Len(samples')
          PROVE  \/ Name(d)' = Known(d)
                 \/ Name(d)' = Unknown(d) /\ "uuid" \in faults
        <3>1. CASE d = c
            BY <2>1, <2>2, <3>1 DEF Name, Sample
        <3>2. CASE d # c
            BY <2>1, <2>2, <2>3, <3>2 DEF Name, SampleInv, Cards
        <3>3. QED
            BY <3>1, <3>2
    <2>4. QED
        BY <2>2, <2>3 DEF SampleInv
<1>4. ASSUME NEW c \in Cards, Burn(c) \/ Reset(c) PROVE UNCHANGED <<samples, site>>
    BY <1>4 DEF Burn, Reset, exporter
<1>5. DispatchFails \/ CollectFails \/ Restart \/ Export => samples' = NoSamples
    BY DEF DispatchFails, CollectFails, Restart, Export
<1>6. ConnectionBreaks \/ UNCHANGED vars => UNCHANGED <<samples, site>>
    BY DEF ConnectionBreaks, vars, exporter
<1>7. QED
    BY <1>1, <1>2, <1>3, <1>4, <1>5, <1>6 DEF Next, Cycle

LEMMA CardTypes ==
    ASSUME TypeOK, NEW c \in Cards
    PROVE  /\ meter[c] \in Nat /\ burned[c] \in Nat
           /\ acc[c] \in Nat /\ stored[c] \in Nat
           /\ tag[c] \in Nat \cup {Absent}
           /\ baseline[Known(c)] \in Nat \cup {Absent}
BY NameFacts DEF TypeOK

\* The cards: a counter advances with what is burned or falls back to 0.
LEMMA CounterKeeps ==
    ASSUME TypeOK, NEW c \in Cards, CardInv(c),
           UNCHANGED <<tag, faults, baseline, stored, acc>>,
           samples' = samples \/ samples' = NoSamples,
           \/ meter'[c] = meter[c] /\ burned'[c] = burned[c]
           \/ meter'[c] = meter[c] + 1 /\ burned'[c] = burned[c] + 1
           \/ meter'[c] = 0 /\ burned'[c] = burned[c]
    PROVE  CardInv(c)'
<1> DEFINE b == baseline[Known(c)]
           e == samples[c].energy
<1>1. /\ meter[c] \in Nat /\ burned[c] \in Nat /\ Charged(c) \in Nat
      /\ tag[c] \in Nat \cup {Absent} /\ b \in Nat \cup {Absent}
    BY CardTypes DEF Charged
<1>2. Charged(c)' = Charged(c) /\ b' = b /\ tag'[c] = tag[c]
    BY DEF Charged
<1>3. ASSUME NEW k \in Nat, NEW h \in Nat,
             h + Rise(k, meter[c]) <= burned[c]
      PROVE  h + Rise(k, meter'[c]) <= burned'[c]
    BY <1>1, <1>3 DEF Rise
<1>4. Charged(c)' <= burned'[c]
    BY <1>1, <1>2 DEF CardInv
<1>5. b # Absent => From(c, b)'
    BY <1>1, <1>2, <1>3 DEF CardInv, From
<1>6. b = Absent /\ tag[c] # Absent => From(c, tag[c])'
    BY <1>1, <1>2, <1>3 DEF CardInv, From
<1>7. ASSUME c <= Len(samples'), Credible(c)'
      PROVE  /\ b = Absent => From(c, e)'
             /\ b # Absent /\ e >= b =>
                   Charged(c)' + (e - b) + Rise(e, meter'[c]) <= burned'[c]
    <2>1. samples' = samples
        BY <1>7 DEF NoSamples, Cards
    <2>2. Credible(c) /\ c <= Len(samples) /\ e \in Nat
        BY <1>7, <2>1, SampleFacts DEF Credible
    <2>3. b = Absent => From(c, e)'
        BY <1>1, <1>2, <1>3, <2>1, <2>2 DEF CardInv, From
    <2>4. ASSUME b # Absent, e >= b
          PROVE  Charged(c)' + (e - b) + Rise(e, meter'[c]) <= burned'[c]
        <3>1. Charged(c) + (e - b) \in Nat
            BY <1>1, <2>2, <2>4, SMTT(30) DEF Absent
        <3>2. Charged(c) + (e - b) + Rise(e, meter[c]) <= burned[c]
            BY <2>2, <2>4 DEF CardInv
        <3>3. QED
            BY <1>2, <1>3, <2>2, <3>1, <3>2
    <2>5. QED
        BY <2>3, <2>4
<1>8. e' = e \/ samples' = NoSamples
    OBVIOUS
<1>9. samples' = NoSamples => ~(c <= Len(samples'))
    BY DEF NoSamples, Cards
<1>10. QED
    BY <1>2, <1>4, <1>5, <1>6, <1>7, <1>8, <1>9 DEF CardInv

\* The exporter: the new reading is the counter, or one that is not credible
\* unless the last tagged one was 0 as well.
LEMMA CollectKeeps ==
    ASSUME TypeOK, Trusted, NEW c \in Cards, CardInv(c), CollectCard
    PROVE  CardInv(c)'
<1> DEFINE x == Len(samples) + 1
           b == baseline[Known(c)]
<1>1. PICK r \in Readings(x), name \in {Known(x), Unknown(x)} :
         /\ tag' = [tag EXCEPT ![x] = r.tag]
         /\ samples' = Append(samples, Sample(r.energy, r.tag, name))
    BY DEF CollectCard
<1>2. /\ UNCHANGED <<meter, faults, baseline, stored, acc, burned>>
      /\ samples \in Seq(SampleType) /\ x \in Cards
    BY DEF CollectCard, TypeOK, site, enclave
<1>3. /\ meter[c] \in Nat /\ burned[c] \in Nat /\ Charged(c) \in Nat
      /\ tag[c] \in Nat \cup {Absent} /\ b \in Nat \cup {Absent}
    BY CardTypes DEF Charged
<1>4. Charged(c)' = Charged(c) /\ b' = b /\ \A k : From(c, k)' <=> From(c, k)
    BY <1>2 DEF Charged, From
<1>5. CASE c # x
    <2>1. tag'[c] = tag[c]
        BY <1>1, <1>2, <1>5 DEF TypeOK
    <2>2. c <= Len(samples') <=> c <= Len(samples)
        BY <1>1, <1>2, <1>5 DEF Cards
    <2>3. c <= Len(samples) => samples'[c] = samples[c]
        BY <1>1, <1>2, <1>5 DEF Cards
    <2>4. c <= Len(samples) => (Credible(c)' <=> Credible(c))
        BY <1>2, <2>3 DEF Credible
    <2>5. QED
        BY <1>2, <1>4, <2>1, <2>2, <2>3, <2>4 DEF CardInv, From, Charged
<1>6. CASE c = x
    <2>1. tag'[c] = r.tag
        BY <1>1, <1>2, <1>6 DEF TypeOK
    <2>2. samples'[c] = Sample(r.energy, r.tag, name)
        BY <1>1, <1>2, <1>6
    <2>3. samples'[c].energy = r.energy /\ samples'[c].tag = r.tag
        BY <2>2 DEF Sample
    <2>4. \/ r.energy = meter[c] /\ r.tag = meter[c]
          \/ r.energy = 0 /\ r.tag = tag[c] /\ "read" \in faults
          \/ r.energy = meter[c] /\ r.tag = tag[c]
        <3>1. \/ r = [energy |-> meter[c], tag |-> meter[c], bad |-> FALSE]
              \/ /\ r = [energy |-> 0, tag |-> tag[c], bad |-> TRUE]
                 /\ "read" \in faults
              \/ r = [energy |-> meter[c], tag |-> tag[c], bad |-> TRUE]
            BY <1>6 DEF Readings
        <3>2. QED
            BY <3>1
    <2>5. b # Absent => From(c, b)
        BY DEF CardInv
    <2>6. b = Absent /\ tag[c] # Absent => From(c, tag[c])
        BY DEF CardInv
    <2>7. Charged(c) <= burned[c]
        BY DEF CardInv
    <2>0. Rise(meter[c], meter[c]) = 0
        BY <1>3 DEF Rise
    <2>8. From(c, meter[c])
        BY <1>3, <2>0, <2>7 DEF From
    <2>9. b = Absent /\ r.tag # Absent => From(c, r.tag)
        BY <2>4, <2>6, <2>8
    <2>10. ASSUME Credible(c)'
           PROVE  /\ b = Absent => From(c, r.energy)
                  /\ b # Absent /\ r.energy >= b =>
                       Charged(c) + (r.energy - b) + Rise(r.energy, meter[c])
                          <= burned[c]
        <3>1. \/ r.energy = meter[c]
              \/ r.energy = 0 /\ tag[c] = 0
            BY <1>2, <2>3, <2>4, <2>10 DEF Credible
        <3>2. CASE r.energy = meter[c]
            <4>1. ASSUME b # Absent, meter[c] >= b
                  PROVE  Charged(c) + (meter[c] - b) + Rise(meter[c], meter[c])
                            <= burned[c]
                <5>1. Charged(c) + (meter[c] - b) <= burned[c]
                    BY <1>3, <2>5, <4>1 DEF From, Rise
                <5>2. QED
                    BY <1>3, <2>0, <4>1, <5>1
            <4>2. QED
                BY <2>8, <3>2, <4>1
        <3>3. CASE r.energy = 0 /\ tag[c] = 0
            <4>1. b = Absent => From(c, 0)
                BY <2>6, <3>3 DEF Absent
            <4>2. b # Absent /\ 0 >= b => b = 0
                BY <1>3
            <4>3. b = 0 => Charged(c) + (0 - 0) + Rise(0, meter[c]) <= burned[c]
                BY <1>3, <2>5 DEF From, Absent, Rise
            <4>4. QED
                BY <3>3, <4>1, <4>2, <4>3
        <3>4. QED
            BY <3>1, <3>2, <3>3
    <2>11. QED
        BY <1>2, <1>4, <2>1, <2>3, <2>5, <2>7, <2>9, <2>10
           DEF CardInv, From, Charged
<1>7. QED
    BY <1>5, <1>6

\* A reading that is processed is credible: where readings fail, the tag rule
\* reaches the enclave.
LEMMA ProcessedIsCredible ==
    ASSUME TypeOK, CacheInv, Trusted,
           NEW rt \in Lookup(ruleCache["tag"], "tag" \in rules),
           NEW c \in Processed(rt)
    PROVE  Credible(c)
<1>1. c \in 1..c /\ ~BadTag(samples[c], rt)
    BY GpuAssumption DEF Processed, Cards
<1>2. CASE "read" \notin faults
    BY <1>2 DEF Credible
<1>3. CASE "read" \in faults
    <2>1. "tag" \in rules /\ "registry" \notin faults
        BY <1>3 DEF Trusted, ReadingsTrusted
    <2>2. /\ ruleCache["tag"] \in Answers
          /\ ruleCache["tag"] # "none" => ruleCache["tag"] = "yes"
        BY <2>1 DEF CacheInv, Rules, TypeOK
    <2>3. rt = "yes"
        BY <2>1, <2>2 DEF Lookup
    <2>4. QED
        BY <1>1, <2>3 DEF BadTag, Credible
<1>4. QED
    BY <1>2, <1>3

\* A card of an accepted request goes by its UUID: where UUIDs fail, the
\* binding rule reaches the enclave, and no binding is one to an index.
LEMMA AcceptedIsKnown ==
    ASSUME TypeOK, CacheInv, SampleInv, Trusted, Len(samples) = Count,
           NEW rb \in Lookup(ruleCache["binding"], "binding" \in rules),
           NEW c \in Cards,
           NEW o \in Lookup(nameCache[Name(c)], Bound(Name(c))),
           ~(rb = "yes" /\ o = "no")
    PROVE  Name(c) = Known(c)
<1>1. \/ Name(c) = Known(c)
      \/ Name(c) = Unknown(c) /\ "uuid" \in faults
    BY GpuAssumption DEF SampleInv, Cards
<1>2. ASSUME Name(c) = Unknown(c), "uuid" \in faults
      PROVE  FALSE
    <2>1. "binding" \in rules /\ "registry" \notin faults
        BY <1>2 DEF Trusted, NamesTrusted
    <2>2. /\ ruleCache["binding"] \in Answers
          /\ ruleCache["binding"] # "none" => ruleCache["binding"] = "yes"
        BY <2>1 DEF CacheInv, Rules, TypeOK
    <2>3. rb = "yes"
        BY <2>1, <2>2 DEF Lookup
    <2>4. Name(c) \in Names /\ ~Bound(Name(c))
        <3>1. Unknown(c) \in Names /\ Unknown(c)[2] = FALSE
            BY DEF Unknown, Names
        <3>2. QED
            BY <1>2, <3>1 DEF Bound
    <2>5. /\ nameCache[Name(c)] \in Answers
          /\ nameCache[Name(c)] # "none" => nameCache[Name(c)] # "yes"
        BY <2>1, <2>4 DEF CacheInv, TypeOK
    <2>6. o = "no"
        BY <2>1, <2>4, <2>5 DEF Lookup, Answers
    <2>7. QED
        BY <2>3, <2>6
<1>3. QED
    BY <1>1, <1>2

\* A request whose readings in S are recorded: each adds its advance, and the
\* new baseline is where the advance was counted to.
LEMMA RecordKeeps ==
    ASSUME TypeOK, NEW c \in Cards, CardInv(c), NEW S,
           c \in S => Credible(c),
           Len(samples) = Count, Name(c) = Known(c), Record(S),
           Charged(c)' \in Nat, Charged(c)' <= Charged(c) + Charge(c, S),
           UNCHANGED <<meter, tag, burned>>, samples' = NoSamples
    PROVE  CardInv(c)'
<1> DEFINE b == baseline[Known(c)]
           e == samples[c].energy
<1>1. /\ meter[c] \in Nat /\ burned[c] \in Nat /\ Charged(c) \in Nat
      /\ tag[c] \in Nat \cup {Absent} /\ b \in Nat \cup {Absent}
    BY CardTypes DEF Charged
<1>2. c <= Len(samples) /\ e \in Nat
    BY SampleFacts, GpuAssumption DEF Cards
<1>3. b' = IF c \in S THEN Baseline(b, e) ELSE b
    BY NameFacts DEF Record
<1>4. ~(c <= Len(samples'))
    BY DEF NoSamples, Cards
<1>5. CASE c \notin S
    <2>1. Charged(c)' <= Charged(c) /\ b' = b
        BY <1>1, <1>3, <1>5 DEF Charge
    <2>2. \A k \in Nat : From(c, k) => From(c, k)'
        BY <1>1, <2>1 DEF From, Rise
    <2>3. QED
        BY <1>1, <1>4, <2>1, <2>2 DEF CardInv
<1>6. CASE c \in S
    <2>1. Charge(c, S) = Advance(b, e) /\ b' = Baseline(b, e)
        BY <1>3, <1>6 DEF Charge
    <2>2. CASE b = Absent
        <3>1. b' = e /\ Charged(c)' <= Charged(c) /\ e # Absent
            BY <1>1, <1>2, <2>1, <2>2 DEF Advance, Baseline, Absent
        <3>2. From(c, e)
            BY <1>2, <1>6, <2>2 DEF CardInv
        <3>3. Charged(c)' + Rise(e, meter'[c]) <= burned'[c]
            BY <1>1, <1>2, <3>1, <3>2 DEF From, Rise
        <3>4. QED
            BY <1>1, <1>2, <1>4, <3>1, <3>3 DEF CardInv, From
    <2>3. CASE b # Absent /\ e >= b
        <3>1. b' = e /\ Charged(c)' <= Charged(c) + (e - b) /\ e # Absent
            BY <1>1, <1>2, <2>1, <2>3 DEF Advance, Baseline, Absent
        <3>2. Charged(c) + (e - b) + Rise(e, meter[c]) <= burned[c]
            BY <1>2, <1>6, <2>3 DEF CardInv
        <3>3. Charged(c)' + Rise(e, meter'[c]) <= burned'[c]
            BY <1>1, <1>2, <2>3, <3>1, <3>2, SMTT(30) DEF From, Rise
        <3>4. Charged(c)' <= burned'[c]
            BY <1>1, <1>2, <3>3 DEF Rise
        <3>5. QED
            BY <1>2, <1>4, <3>1, <3>3, <3>4 DEF CardInv, From
    <2>4. CASE b # Absent /\ ~(e >= b)
        <3>1. b' = b /\ Charged(c)' <= Charged(c)
            BY <1>1, <1>2, <2>1, <2>4 DEF Advance, Baseline
        <3>2. From(c, b)'
            BY <1>1, <2>4, <3>1 DEF CardInv, From, Rise
        <3>3. QED
            BY <1>1, <1>4, <2>4, <3>1, <3>2 DEF CardInv
    <2>5. QED
        BY <2>2, <2>3, <2>4
<1>7. QED
    BY <1>5, <1>6

LEMMA ExportKeeps ==
    ASSUME TypeOK, CacheInv, SampleInv, Trusted,
           NEW c \in Cards, CardInv(c), Export
    PROVE  CardInv(c)'
<1>1. PICK rb \in Lookup(ruleCache["binding"], "binding" \in rules),
           rt \in Lookup(ruleCache["tag"], "tag" \in rules),
           owned \in [Cards -> {"yes", "no"}] :
              /\ \A d \in Cards :
                    owned[d] \in Lookup(nameCache[Name(d)], Bound(Name(d)))
              /\ HandleExport(rb, rt, owned)
    BY DEF Export
<1> DEFINE S   == Processed(rt)
           new == [d \in Cards |-> acc[d] + Charge(d, S)]
<1>2. /\ UNCHANGED <<meter, tag, faults, burned>>
      /\ samples' = NoSamples /\ Len(samples) = Count
    BY DEF Export, cards, site
<1>3. /\ acc[c] \in Nat /\ stored[c] \in Nat /\ Charge(c, S) \in Nat
      /\ stored \in [Cards -> Nat]
    BY <1>2, ChargeType DEF TypeOK
<1>4. CASE UNCHANGED <<baseline, acc, stored>>
    BY <1>2, <1>4, CounterKeeps
<1>5. CASE /\ {d \in Cards : rb = "yes" /\ owned[d] = "no"} = {}
           /\ Record(S)
           /\ \/ acc' = new /\ UNCHANGED stored
              \/ Flush(new)
    <2>1. Name(c) = Known(c)
        BY <1>1, <1>2, <1>5, AcceptedIsKnown
    <2>2. c \in S => Credible(c)
        BY <1>1, ProcessedIsCredible
    <2>3. \/ acc' = new /\ stored' = stored
          \/ /\ acc' = [d \in Cards |-> 0]
             /\ \/ stored' = stored
                \/ stored' = [d \in Cards |-> stored[d] + new[d]]
        BY <1>5 DEF Flush
    <2>4. \/ acc'[c] = new[c] /\ stored'[c] = stored[c]
          \/ acc'[c] = 0 /\ stored'[c] \in {stored[c], stored[c] + new[c]}
        BY <2>3
    <2>5. /\ Charged(c)' \in Nat
          /\ Charged(c)' <= Charged(c) + Charge(c, S)
        BY <1>3, <2>4 DEF Charged
    <2>6. QED
        BY <1>2, <1>5, <2>1, <2>2, <2>5, RecordKeeps
<1>6. QED
    BY <1>1, <1>4, <1>5 DEF HandleExport

LEMMA ChargeStep ==
    TypeOK /\ CacheInv /\ SampleInv /\ ChargeInv /\ [Next]_vars => ChargeInv'
<1> SUFFICES ASSUME TypeOK, CacheInv, SampleInv, ChargeInv, [Next]_vars,
                    Trusted', NEW c \in Cards
             PROVE  CardInv(c)'
    BY DEF ChargeInv
<1>1. UNCHANGED site
    BY DEF Next, Burn, Reset, Cycle, CollectCard, DispatchFails, Export,
           CollectFails, ConnectionBreaks, Restart, vars
<1>2. Trusted /\ CardInv(c)
    BY <1>1 DEF ChargeInv, Trusted, ReadingsTrusted, NamesTrusted, site
<1>3. ASSUME NEW d \in Cards, Burn(d) PROVE CardInv(c)'
    <2>1. UNCHANGED <<tag, faults, baseline, stored, acc, samples>>
        BY <1>3 DEF Burn, site, exporter, enclave
    <2>2. \/ meter'[c] = meter[c] /\ burned'[c] = burned[c]
          \/ meter'[c] = meter[c] + 1 /\ burned'[c] = burned[c] + 1
        BY <1>3 DEF Burn, TypeOK
    <2>3. QED
        BY <1>2, <2>1, <2>2, CounterKeeps
<1>4. ASSUME NEW d \in Cards, Reset(d) PROVE CardInv(c)'
    <2>1. UNCHANGED <<tag, faults, baseline, stored, acc, samples, burned>>
        BY <1>4 DEF Reset, site, exporter, enclave
    <2>2. meter'[c] = meter[c] \/ meter'[c] = 0
        BY <1>4 DEF Reset, TypeOK
    <2>3. QED
        BY <1>2, <2>1, <2>2, CounterKeeps
<1>5. CASE CollectFails \/ DispatchFails \/ ConnectionBreaks \/ UNCHANGED vars
    <2>1. /\ UNCHANGED <<meter, burned, tag, faults, baseline, stored, acc>>
          /\ samples' = samples \/ samples' = NoSamples
        BY <1>5 DEF CollectFails, DispatchFails, ConnectionBreaks, vars, cards,
                    site, exporter, enclave, history
    <2>2. QED
        BY <1>2, <2>1, CounterKeeps
<1>6. CASE Restart
    <2>1. /\ baseline'[Known(c)] = Absent /\ tag'[c] = Absent
          /\ ~(c <= Len(samples'))
        BY <1>6, NameFacts DEF Restart, NoSamples, Cards
    <2>2. Charged(c)' <= burned'[c]
        <3>1. acc'[c] = 0 /\ stored' = stored /\ burned' = burned
            BY <1>6 DEF Restart
        <3>2. Charged(c) <= burned[c]
            BY <1>2 DEF CardInv
        <3>3. QED
            BY <3>1, <3>2, CardTypes DEF Charged
    <2>3. QED
        BY <2>1, <2>2 DEF CardInv
<1>7. QED
    BY <1>2, <1>3, <1>4, <1>5, <1>6, CollectKeeps, ExportKeeps DEF Next, Cycle

\* However the requests, failures, resets and restarts fall, handle_gpu_db_export
\* never records more than a card burned, provided that failed readings can be
\* told from real ones and that a card without its UUID is refused.
THEOREM ChargedWhatWasBurned == Spec => []NeverOvercharged
<1>1. ChargeInv => NeverOvercharged
    BY DEF ChargeInv, Trusted, CardInv, Charged, NeverOvercharged
<1>2. QED
    BY <1>1, TypeInit, TypeStep, ChargeInit, CacheStep, SampleStep, ChargeStep,
       PTL DEF Spec

-----------------------------------------------------------------------------
(* Rules that have been learned *)

\* A remembered yes is a binding that exists: a lookup that fails is a no,
\* whatever the registry does.
YesIsTrue == \A n \in Names : nameCache[n] = "yes" => Bound(n)

LEMMA YesStep ==
    TypeOK /\ YesIsTrue /\ [Next]_vars => YesIsTrue'
<1> SUFFICES ASSUME TypeOK, YesIsTrue, [Next]_vars
             PROVE  YesIsTrue'
    OBVIOUS
<1>1. UNCHANGED <<nameCache, site>> => YesIsTrue'
    BY DEF YesIsTrue, Bound, site
<1>2. CASE Restart
    BY <1>2 DEF Restart, YesIsTrue
<1>3. CASE Export
    <2>1. PICK rb \in Lookup(ruleCache["binding"], "binding" \in rules),
               rt \in Lookup(ruleCache["tag"], "tag" \in rules),
               owned \in [Cards -> {"yes", "no"}] :
                  /\ \A c \in Cards :
                        owned[c] \in Lookup(nameCache[Name(c)], Bound(Name(c)))
                  /\ HandleExport(rb, rt, owned)
        BY <1>3 DEF Export
    <2>2. UNCHANGED site /\ Len(samples) = Count
        BY <1>3 DEF Export
    <2>3. ASSUME NEW c \in Cards, owned[c] = "yes"
          PROVE  Bound(Name(c))
        <3>1. Name(c) \in Names
            BY <2>2, SampleFacts, GpuAssumption DEF Cards
        <3>2. owned[c] \in Lookup(nameCache[Name(c)], Bound(Name(c)))
            BY <2>1
        <3>3. QED
            BY <2>3, <3>1, <3>2 DEF Lookup, YesIsTrue
    <2>4. ASSUME NEW n \in Names, nameCache'[n] = "yes"
          PROVE  Bound(n)
        <3>1. CASE nameCache'[n] = nameCache[n]
            BY <2>4, <3>1 DEF YesIsTrue
        <3>2. CASE n = Name(n[1]) /\ nameCache'[n] = owned[n[1]]
            BY <2>3, <2>4, <3>2, NameFacts
        <3>3. QED
            BY <2>1, <3>1, <3>2 DEF HandleExport
    <2>5. QED
        BY <2>2, <2>4 DEF YesIsTrue, Bound, site
<1>4. ASSUME NEW c \in Cards, Burn(c) \/ Reset(c)
      PROVE  UNCHANGED <<nameCache, site>>
    BY <1>4 DEF Burn, Reset, enclave
<1>5. CollectCard \/ DispatchFails \/ CollectFails \/ ConnectionBreaks
          => UNCHANGED <<nameCache, site>>
    BY DEF CollectCard, DispatchFails, CollectFails, ConnectionBreaks, enclave
<1>6. UNCHANGED vars => UNCHANGED <<nameCache, site>>
    BY DEF vars, enclave
<1>7. QED
    BY <1>1, <1>2, <1>3, <1>4, <1>5, <1>6 DEF Next, Cycle

\* What a step that moves the baseline of a name owes to the rules.
MovedByTheRules(n) ==
    (baseline'[n] # baseline[n] /\ baseline'[n] # Absent) =>
        /\ ruleCache["tag"] = "yes" =>
             samples[n[1]].tag = samples[n[1]].energy
        /\ ruleCache["binding"] = "yes" => Bound(n)

LEMMA RulesStep ==
    ASSUME TypeOK, YesIsTrue, [Next]_vars, NEW n \in Names
    PROVE  MovedByTheRules(n)
<1>1. UNCHANGED baseline => MovedByTheRules(n)
    BY DEF MovedByTheRules
<1>2. CASE Restart
    BY <1>2 DEF Restart, MovedByTheRules
<1>3. CASE Export
    <2>1. PICK rb \in Lookup(ruleCache["binding"], "binding" \in rules),
               rt \in Lookup(ruleCache["tag"], "tag" \in rules),
               owned \in [Cards -> {"yes", "no"}] :
                  /\ \A c \in Cards :
                        owned[c] \in Lookup(nameCache[Name(c)], Bound(Name(c)))
                  /\ HandleExport(rb, rt, owned)
        BY <1>3 DEF Export
    <2> DEFINE S == Processed(rt)
    <2>2. CASE UNCHANGED baseline
        BY <1>1, <2>2
    <2>3. CASE /\ {c \in Cards : rb = "yes" /\ owned[c] = "no"} = {}
               /\ Record(S)
        <3> DEFINE c == n[1]
        <3> SUFFICES ASSUME baseline'[n] # baseline[n]
                     PROVE  /\ ruleCache["tag"] = "yes" =>
                                 samples[c].tag = samples[c].energy
                            /\ ruleCache["binding"] = "yes" => Bound(n)
            BY DEF MovedByTheRules
        <3>1. c \in S /\ n = Name(c)
            BY <2>3 DEF Record
        <3>2. c \in Cards
            BY NameFacts
        <3>3. ~BadTag(samples[c], rt)
            <4>1. c \in 1..c
                BY <3>2, GpuAssumption DEF Cards
            <4>2. QED
                BY <3>1, <4>1 DEF Processed
        <3>4. ruleCache["tag"] = "yes" => samples[c].tag = samples[c].energy
            <4>1. ruleCache["tag"] = "yes" => rt = "yes"
                BY <2>1 DEF Lookup
            <4>2. QED
                BY <3>3, <4>1 DEF BadTag
        <3>5. ASSUME ruleCache["binding"] = "yes"
              PROVE  Bound(n)
            <4>1. rb = "yes"
                BY <2>1, <3>5 DEF Lookup
            <4>2. owned[c] = "yes"
                BY <2>1, <2>3, <3>2, <4>1
            <4>3. owned[c] \in Lookup(nameCache[n], Bound(n))
                BY <2>1, <3>1, <3>2
            <4>4. QED
                BY <4>2, <4>3 DEF Lookup, YesIsTrue
        <3>6. QED
            BY <3>4, <3>5
    <2>4. QED
        BY <2>1, <2>2, <2>3 DEF HandleExport
<1>4. ASSUME NEW c \in Cards, Burn(c) \/ Reset(c)
      PROVE  UNCHANGED baseline
    BY <1>4 DEF Burn, Reset, enclave
<1>5. CollectCard \/ DispatchFails \/ CollectFails \/ ConnectionBreaks
          => UNCHANGED baseline
    BY DEF CollectCard, DispatchFails, CollectFails, ConnectionBreaks, enclave
<1>6. UNCHANGED vars => UNCHANGED baseline
    BY DEF vars, enclave
<1>7. QED
    BY <1>1, <1>2, <1>3, <1>4, <1>5, <1>6 DEF Next, Cycle

\* cached_or keeps the first answer, so a rule that the enclave has learned binds
\* every later request: no reading without a tag of its own and none of a card
\* that is not bound to the node moves a baseline, whatever fails.
THEOREM LearnedRulesBind == Spec => RulesStay
<1>1. Init => YesIsTrue
    BY DEF Init, YesIsTrue
<1>2. TypeOK /\ YesIsTrue /\ [Next]_vars
        => [\A n \in Names :
              (baseline'[n] # baseline[n] /\ baseline'[n] # Absent) =>
                 /\ ruleCache["tag"] = "yes" =>
                      samples[n[1]].tag = samples[n[1]].energy
                 /\ ruleCache["binding"] = "yes" => Bound(n)]_vars
    BY RulesStep DEF MovedByTheRules
<1>3. QED
    BY <1>1, <1>2, TypeInit, TypeStep, YesStep, PTL DEF Spec, RulesStay

=============================================================================
