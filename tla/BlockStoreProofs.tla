--------------------------- MODULE BlockStoreProofs ---------------------------
(***************************************************************************)
(* Types and safety of the block store, proved for any number of tenants,  *)
(* any batch size and any bounds: what a GPU enclave vouches for, whatever *)
(* Redis holds; as long as nobody else changes Redis, that the stored      *)
(* blocks are linked, that no record is stored in two blocks and that the  *)
(* anchors name stored blocks, whichever commands fail; and, as long as    *)
(* the enclaves only stop and start again, at any point, that the store    *)
(* implements an append-only log for each tenant.                          *)
(***************************************************************************)
EXTENDS BlockStore, SequenceTheorems, FiniteSetTheorems, TLAPS

-----------------------------------------------------------------------------
(* Roots, blocks and heads *)

LEMMA RootFacts ==
    /\ Zeros \in Roots
    /\ Len(Zeros) = 0
    /\ \A r \in Roots : Len(r) \in Nat
    /\ \A r \in Roots, b \in Batches :
          /\ ChainedRoot(r, b) \in Roots
          /\ ChainedRoot(r, b) # Zeros
          /\ Len(ChainedRoot(r, b)) = Len(r) + 1
          /\ \A k \in 1..Len(r) : ChainedRoot(r, b)[k] = r[k]
          /\ ChainedRoot(r, b)[Len(r) + 1] = b
  BY EmptySeq, LenProperties, AppendProperties DEF Roots, Zeros, ChainedRoot

LEMMA BlockTyped ==
    ASSUME NEW t \in Tenants, NEW n \in Nat, NEW prev \in Roots, NEW batch \in Batches
    PROVE  Block(t, n, prev, batch) \in BlockType
  BY RootFacts DEF Block, BlockType

LEMMA HeadTyped ==
    /\ NoHead \in HeadType
    /\ \A n \in Nat, r \in Roots : ChainHead(n, r) \in HeadType
  BY RootFacts DEF NoHead, ChainHead, HeadType

\* What get_latest_block_state reports is a block of the tenant, possibly with
\* its root lost, or nothing.
LEMMA LatestFacts ==
    ASSUME TypeOK, NEW t \in Tenants, NEW s \in LatestBlockState(t)
    PROVE  /\ s \in HeadType
           /\ s.have /\ s.root # Zeros
                => \E i \in Own(t) : blocks[i].number = s.number /\ blocks[i].root = s.root
  <1>1. ASSUME NEW S \in SUBSET Own(t), NEW h \in LatestOf(S)
        PROVE  /\ h \in HeadType
               /\ h.have => \E i \in Own(t) : blocks[i].number = h.number /\ blocks[i].root = h.root
    <2>1. CASE S = {}
      <3>1. h = NoHead
        BY <1>1, <2>1 DEF LatestOf
      <3>. QED  BY <3>1, HeadTyped DEF NoHead
    <2>2. CASE S # {}
      <3>1. PICK i \in S : h = ChainHead(blocks[i].number, blocks[i].root)
        BY <1>1, <2>2 DEF LatestOf
      <3>2. i \in Own(t) /\ blocks[i].number \in Nat /\ blocks[i].root \in Roots
        BY <3>1 DEF Own, TypeOK, BlockType
      <3>. QED  BY <3>1, <3>2, HeadTyped DEF ChainHead
    <2>. QED  BY <2>1, <2>2
  <1>2. CASE s \in LatestOf(Own(t))
    BY <1>1, <1>2
  <1>3. CASE s = NoHead
    BY <1>3, HeadTyped DEF NoHead
  <1>4. CASE \E S \in SUBSET Own(t) :
                s \in LatestOf(S) \cup {[h EXCEPT !.root = Zeros] : h \in LatestOf(S)}
    <2>1. PICK S \in SUBSET Own(t) :
                s \in LatestOf(S) \cup {[h EXCEPT !.root = Zeros] : h \in LatestOf(S)}
      BY <1>4
    <2>2. CASE s \in LatestOf(S)
      BY <1>1, <2>2
    <2>3. CASE \E h \in LatestOf(S) : s = [h EXCEPT !.root = Zeros]
      <3>1. PICK h \in LatestOf(S) : s = [h EXCEPT !.root = Zeros]
        BY <2>3
      <3>2. h \in HeadType
        BY <1>1
      <3>. QED  BY <3>1, <3>2, RootFacts DEF HeadType
    <2>. QED  BY <2>1, <2>2, <2>3
  <1>. QED  BY <1>2, <1>3, <1>4 DEF LatestBlockState

\* What is read as the anchor is a head this tenant signed, or nothing.
LEMMA AnchorFacts ==
    ASSUME TypeOK, NEW t \in Tenants, NEW a \in AnchorRead(t)
    PROVE  a \in HeadType /\ (a = NoHead \/ a \in signed[t])
  <1>1. a = NoHead \/ a \in signed[t]
    BY DEF AnchorRead
  <1>. QED  BY <1>1, HeadTyped DEF TypeOK

-----------------------------------------------------------------------------
(* Types *)

TypeInv ==
    /\ TypeOK
    /\ \A t \in Tenants : pc[t] = "hset" => bid[t] \in 1..counter
    /\ \A t \in Tenants : pc[t] \in {"sig", "anchor"} => num[t] > 0

LEMMA TypeInit == Init => TypeInv
  <1>. SUFFICES ASSUME Init PROVE TypeInv
    OBVIOUS
  <1>1. DOMAIN blocks = {}
    BY DEF Init
  <1>2. TypeOK
    BY <1>1, HeadTyped, RootFacts DEF Init, TypeOK, Labels, Batches
  <1>. QED  BY <1>2 DEF Init, TypeInv

\* What EndFlush, Goto and Inserted leave behind.
LEMMA EndFlushTyped ==
    ASSUME TypeOK, NEW t \in Tenants, EndFlush(t)
    PROVE  /\ pc' \in [Tenants -> Labels] /\ pc' = [pc EXCEPT ![t] = "idle"]
           /\ iter' \in [Tenants -> Nat]
           /\ acc' \in [Tenants -> Batches]
  BY DEF EndFlush, TypeOK, Labels, Batches

LEMMA GotoTyped ==
    ASSUME TypeOK, NEW t \in Tenants, NEW label \in Labels, Goto(t, label)
    PROVE  /\ pc' \in [Tenants -> Labels] /\ pc' = [pc EXCEPT ![t] = label]
           /\ iter' \in [Tenants -> Nat]
           /\ acc' \in [Tenants -> Batches]
  BY DEF Goto, TypeOK

LEMMA InsertedTyped ==
    ASSUME TypeOK, NEW t \in Tenants, Inserted(t)
    PROVE  /\ pc' \in [Tenants -> Labels]
           /\ pc' = [pc EXCEPT ![t] = IF t \in Gpu THEN "sig" ELSE "idle"]
           /\ iter' \in [Tenants -> Nat]
           /\ acc' \in [Tenants -> Batches]
           /\ num' \in [Tenants -> Nat] /\ num' = [num EXCEPT ![t] = num[t] + 1]
           /\ latest' \in [Tenants -> Roots]
  <1>1. num' \in [Tenants -> Nat] /\ num' = [num EXCEPT ![t] = num[t] + 1]
    BY DEF Inserted, TypeOK
  <1>2. latest' \in [Tenants -> Roots]
    BY RootFacts DEF Inserted, TypeOK
  <1>3. CASE t \in Gpu
    BY <1>1, <1>2, <1>3, GotoTyped DEF Inserted, Labels
  <1>4. CASE t \notin Gpu
    BY <1>1, <1>2, <1>4, EndFlushTyped DEF Inserted
  <1>. QED  BY <1>3, <1>4

\* HSET adds the block at the id the enclave holds.
LEMMA PutBlockTyped ==
    ASSUME TypeOK, NEW t \in Tenants, PutBlock(t)
    PROVE  /\ DOMAIN blocks' = DOMAIN blocks \cup {bid[t]}
           /\ blocks'[bid[t]] = Pending(t)
           /\ \A i \in DOMAIN blocks : i # bid[t] => blocks'[i] = blocks[i]
           /\ Pending(t) \in BlockType
           /\ bid[t] \in 1..counter =>
                /\ DOMAIN blocks' \subseteq 1..counter
                /\ \A i \in DOMAIN blocks' : blocks'[i] \in BlockType
  <1>1. Pending(t) \in BlockType
    BY BlockTyped DEF Pending, TypeOK
  <1>2. /\ DOMAIN blocks' = DOMAIN blocks \cup {bid[t]}
        /\ blocks'[bid[t]] = Pending(t)
        /\ \A i \in DOMAIN blocks : i # bid[t] => blocks'[i] = blocks[i]
    BY DEF PutBlock
  <1>. QED  BY <1>1, <1>2 DEF TypeOK

LEMMA TypeStep == TypeInv /\ [Next]_vars => TypeInv'
  <1>. SUFFICES ASSUME TypeInv, [Next]_vars PROVE TypeInv'
    OBVIOUS
  <1>. USE ConstantsAssumption
  <1>0. TypeOK
    BY DEF TypeInv
  <1>1. ASSUME NEW t \in Tenants, Export(t) PROVE TypeInv'
    <2>1. iter' \in [Tenants -> Nat]
      BY <1>0, <1>1 DEF Export, TypeOK
    <2>2. acc' \in [Tenants -> Batches] /\ produced' \in [Tenants -> Nat]
      BY <1>0, <1>1 DEF Export, TypeOK, Batches
    <2>3. /\ pc' \in [Tenants -> Labels]
          /\ \A u \in Tenants : pc'[u] \in {"hset", "sig", "anchor"} => pc'[u] = pc[u]
      BY <1>0, <1>1 DEF Export, TypeOK, Labels
    <2>4. UNCHANGED <<num, latest, inited, refused, bid, counter, blocks, full,
                      anchor, anchorSig, signed, disturbed>>
      BY <1>1 DEF Export, redis
    <2>5. TypeOK'
      BY <1>0, <2>1, <2>2, <2>3, <2>4 DEF TypeOK
    <2>. QED  BY <2>3, <2>4, <2>5 DEF TypeInv
  <1>2. ASSUME NEW t \in Tenants, InitConnectFails(t) PROVE TypeInv'
    <2>1. /\ pc' \in [Tenants -> Labels] /\ pc' = [pc EXCEPT ![t] = "connect"]
          /\ iter' \in [Tenants -> Nat] /\ acc' \in [Tenants -> Batches]
      BY <1>0, <1>2, GotoTyped DEF InitConnectFails, Labels
    <2>2. TypeOK'
      BY <1>0, <1>2, <2>1 DEF InitConnectFails, TypeOK, redis, history
    <2>. QED  BY <1>0, <1>2, <2>1, <2>2 DEF InitConnectFails, TypeInv, TypeOK, redis
  <1>3. ASSUME NEW t \in Tenants, GpuResume(t) PROVE TypeInv'
    <2>1. PICK a \in AnchorRead(t), s \in LatestBlockState(t) :
            /\ num' \in {num, [num EXCEPT ![t] = NextNumber(a)]}
            /\ latest' \in {latest, [latest EXCEPT ![t] = a.root]}
            /\ inited' \in {inited, [inited EXCEPT ![t] = TRUE]}
            /\ refused' \in {refused, [refused EXCEPT ![t] = TRUE]}
            /\ Goto(t, "connect") \/ Goto(t, "idle")
      BY <1>3 DEF GpuResume
    <2>2. a.number + 1 \in Nat /\ a.root \in Roots
      BY <1>0, AnchorFacts DEF HeadType
    <2>3. num' \in [Tenants -> Nat] /\ latest' \in [Tenants -> Roots]
      BY <1>0, <2>1, <2>2 DEF TypeOK, NextNumber
    <2>4. inited' \in [Tenants -> BOOLEAN] /\ refused' \in [Tenants -> BOOLEAN]
      BY <1>0, <2>1 DEF TypeOK
    <2>5. /\ pc' \in [Tenants -> Labels]
          /\ pc' \in {[pc EXCEPT ![t] = "connect"], [pc EXCEPT ![t] = "idle"]}
          /\ iter' \in [Tenants -> Nat] /\ acc' \in [Tenants -> Batches]
      BY <1>0, <2>1, GotoTyped DEF Labels
    <2>6. UNCHANGED <<bid, redis, history>>
      BY <1>3 DEF GpuResume
    <2>7. TypeOK'
      BY <1>0, <2>3, <2>4, <2>5, <2>6 DEF TypeOK, redis, history
    <2>8. \A u \in Tenants : pc'[u] \in {"hset", "sig", "anchor"} => u # t /\ pc'[u] = pc[u]
      BY <1>0, <2>5 DEF TypeOK
    <2>9. \A u \in Tenants : u # t => num'[u] = num[u]
      BY <1>0, <2>1 DEF TypeOK
    <2>. QED  BY <1>0, <2>6, <2>7, <2>8, <2>9 DEF TypeInv, redis
  <1>4. ASSUME NEW t \in Tenants, CpuResume(t) PROVE TypeInv'
    <2>1. PICK s \in LatestBlockState(t) :
            /\ num' \in {num, [num EXCEPT ![t] = NextNumber(s)]}
            /\ latest' \in {latest, [latest EXCEPT ![t] = s.root]}
      BY <1>4 DEF CpuResume
    <2>2. s.number + 1 \in Nat /\ s.root \in Roots
      BY <1>0, LatestFacts DEF HeadType
    <2>3. num' \in [Tenants -> Nat] /\ latest' \in [Tenants -> Roots]
      BY <1>0, <2>1, <2>2 DEF TypeOK, NextNumber
    <2>4. inited' \in [Tenants -> BOOLEAN]
      BY <1>0, <1>4 DEF TypeOK, CpuResume
    <2>5. /\ pc' \in [Tenants -> Labels] /\ pc' = [pc EXCEPT ![t] = "connect"]
          /\ iter' \in [Tenants -> Nat] /\ acc' \in [Tenants -> Batches]
      BY <1>0, <1>4, GotoTyped DEF CpuResume, Labels
    <2>6. UNCHANGED <<refused, bid, redis, history>>
      BY <1>4 DEF CpuResume
    <2>7. TypeOK'
      BY <1>0, <2>3, <2>4, <2>5, <2>6 DEF TypeOK, redis, history
    <2>8. \A u \in Tenants : pc'[u] \in {"hset", "sig", "anchor"} => u # t /\ pc'[u] = pc[u]
      BY <1>0, <2>5 DEF TypeOK
    <2>9. \A u \in Tenants : u # t => num'[u] = num[u]
      BY <1>0, <2>1 DEF TypeOK
    <2>. QED  BY <1>0, <2>6, <2>7, <2>8, <2>9 DEF TypeInv, redis
  <1>5. ASSUME NEW t \in Tenants, Connect(t) PROVE TypeInv'
    <2>1. /\ pc' \in [Tenants -> Labels]
          /\ pc' \in {[pc EXCEPT ![t] = "incr"], [pc EXCEPT ![t] = "idle"]}
          /\ iter' \in [Tenants -> Nat] /\ acc' \in [Tenants -> Batches]
      BY <1>0, <1>5, GotoTyped, EndFlushTyped DEF Connect, Labels
    <2>2. UNCHANGED <<num, latest, inited, refused, bid, redis, history>>
      BY <1>5 DEF Connect
    <2>3. TypeOK'
      BY <1>0, <2>1, <2>2 DEF TypeOK, redis, history
    <2>. QED  BY <1>0, <2>1, <2>2, <2>3 DEF TypeInv, TypeOK, redis
  <1>6. ASSUME NEW t \in Tenants, Incr(t) PROVE TypeInv'
    <2>1. /\ pc' \in [Tenants -> Labels]
          /\ pc' \in {[pc EXCEPT ![t] = "hset"], [pc EXCEPT ![t] = "idle"]}
          /\ iter' \in [Tenants -> Nat] /\ acc' \in [Tenants -> Batches]
      BY <1>0, <1>6, GotoTyped, EndFlushTyped DEF Incr, Labels
    <2>2. counter' \in {counter, counter + 1}
      BY <1>6 DEF Incr
    <2>3. /\ bid' \in {bid, [bid EXCEPT ![t] = counter + 1]}
          /\ pc'[t] = "hset" => bid'[t] = counter + 1 /\ counter' = counter + 1
      BY <1>0, <1>6 DEF Incr, EndFlush, TypeOK
    <2>4. UNCHANGED <<num, latest, inited, refused, blocks, full, anchor,
                      anchorSig, history>>
      BY <1>6 DEF Incr
    <2>5. counter' \in Nat /\ bid' \in [Tenants -> Nat] /\ DOMAIN blocks \subseteq 1..counter'
      BY <1>0, <2>2, <2>3 DEF TypeOK
    <2>6. TypeOK'
      BY <1>0, <2>1, <2>4, <2>5 DEF TypeOK, history
    <2>7. ASSUME NEW u \in Tenants, pc'[u] = "hset" PROVE bid'[u] \in 1..counter'
      <3>1. CASE u = t
        BY <1>0, <2>3, <2>7, <3>1 DEF TypeOK
      <3>2. CASE u # t
        <4>1. pc[u] = "hset" /\ bid'[u] = bid[u]
          BY <1>0, <2>1, <2>3, <2>7, <3>2 DEF TypeOK
        <4>2. bid[u] \in 1..counter
          BY <4>1 DEF TypeInv
        <4>. QED  BY <1>0, <2>2, <4>1, <4>2 DEF TypeOK
      <3>. QED  BY <3>1, <3>2
    <2>8. \A u \in Tenants : pc'[u] \in {"sig", "anchor"} => pc'[u] = pc[u]
      BY <1>0, <2>1 DEF TypeOK
    <2>. QED  BY <2>4, <2>6, <2>7, <2>8 DEF TypeInv
  <1>7. ASSUME NEW t \in Tenants, Hset(t) PROVE TypeInv'
    <2>1. bid[t] \in 1..counter
      BY <1>7 DEF Hset, TypeInv
    <2>2. UNCHANGED <<inited, refused, bid, counter, anchor, anchorSig, history>>
      BY <1>7 DEF Hset
    <2>3. /\ DOMAIN blocks' \subseteq 1..counter
          /\ \A i \in DOMAIN blocks' : blocks'[i] \in BlockType
      <3>1. PutBlock(t) \/ blocks' = blocks
        BY <1>7 DEF Hset
      <3>. QED  BY <1>0, <2>1, <3>1, PutBlockTyped DEF TypeOK
    <2>4. full' \subseteq Nat
      <3>1. full' = full \/ full' = full \cup {bid[t]}
        BY <1>7 DEF Hset
      <3>2. full \subseteq Nat /\ bid[t] \in Nat
        BY <1>0 DEF TypeOK
      <3>. QED  BY <3>1, <3>2
    <2>5. \/ Inserted(t)
          \/ /\ Goto(t, "rpush") \/ EndFlush(t)
             /\ UNCHANGED <<num, latest>>
      BY <1>7 DEF Hset
    <2>6. /\ pc' \in [Tenants -> Labels]
          /\ iter' \in [Tenants -> Nat] /\ acc' \in [Tenants -> Batches]
          /\ num' \in [Tenants -> Nat] /\ latest' \in [Tenants -> Roots]
          /\ \A u \in Tenants : u # t => pc'[u] = pc[u] /\ num'[u] = num[u]
          /\ pc'[t] # "hset" /\ (pc'[t] \in {"sig", "anchor"} => num'[t] > 0)
      <3>1. CASE Inserted(t)
        BY <1>0, <3>1, InsertedTyped DEF TypeOK
      <3>2. CASE Goto(t, "rpush") /\ UNCHANGED <<num, latest>>
        BY <1>0, <3>2, GotoTyped DEF TypeOK, Labels
      <3>3. CASE EndFlush(t) /\ UNCHANGED <<num, latest>>
        BY <1>0, <3>3, EndFlushTyped DEF TypeOK
      <3>. QED  BY <2>5, <3>1, <3>2, <3>3
    <2>7. TypeOK'
      BY <1>0, <2>2, <2>3, <2>4, <2>6 DEF TypeOK, history
    <2>. QED  BY <2>2, <2>6, <2>7 DEF TypeInv
  <1>8. ASSUME NEW t \in Tenants, Rpush(t) PROVE TypeInv'
    <2>1. full' \in {full, full \cup {bid[t]}}
      BY <1>8 DEF Rpush
    <2>2. /\ pc' \in [Tenants -> Labels]
          /\ pc' \in {[pc EXCEPT ![t] = "merkle"], [pc EXCEPT ![t] = "idle"]}
          /\ iter' \in [Tenants -> Nat] /\ acc' \in [Tenants -> Batches]
      BY <1>0, <1>8, GotoTyped, EndFlushTyped DEF Rpush, Labels
    <2>3. UNCHANGED <<num, latest, inited, refused, bid, counter, blocks, anchor,
                      anchorSig, history>>
      BY <1>8 DEF Rpush
    <2>4. TypeOK'
      BY <1>0, <2>1, <2>2, <2>3 DEF TypeOK, history
    <2>. QED  BY <1>0, <2>2, <2>3, <2>4 DEF TypeInv, TypeOK
  <1>9. ASSUME NEW t \in Tenants, Merkle(t) PROVE TypeInv'
    <2>1. UNCHANGED <<inited, refused, bid, redis, history>>
      BY <1>9 DEF Merkle
    <2>2. /\ pc' \in [Tenants -> Labels]
          /\ iter' \in [Tenants -> Nat] /\ acc' \in [Tenants -> Batches]
          /\ num' \in [Tenants -> Nat] /\ latest' \in [Tenants -> Roots]
          /\ \A u \in Tenants : u # t => pc'[u] = pc[u] /\ num'[u] = num[u]
          /\ pc'[t] # "hset" /\ (pc'[t] \in {"sig", "anchor"} => num'[t] > 0)
      <3>1. CASE Inserted(t)
        BY <1>0, <3>1, InsertedTyped DEF TypeOK
      <3>2. CASE EndFlush(t) /\ UNCHANGED <<num, latest>>
        BY <1>0, <3>2, EndFlushTyped DEF TypeOK
      <3>. QED  BY <1>9, <3>1, <3>2 DEF Merkle
    <2>3. TypeOK'
      BY <1>0, <2>1, <2>2 DEF TypeOK, redis, history
    <2>. QED  BY <2>1, <2>2, <2>3 DEF TypeInv, redis
  <1>10. ASSUME NEW t \in Tenants, StoreAnchorSig(t) \/ StoreAnchor(t) PROVE TypeInv'
    <2>1. num[t] - 1 \in Nat /\ MemoryHead(t) \in HeadType
      <3>1. num[t] \in Nat /\ num[t] > 0 /\ latest[t] \in Roots
        BY <1>0, <1>10 DEF StoreAnchorSig, StoreAnchor, TypeInv, TypeOK
      <3>. QED  BY <3>1, HeadTyped DEF MemoryHead
    <2>2. /\ pc' \in [Tenants -> Labels]
          /\ pc' \in {[pc EXCEPT ![t] = "anchor"], [pc EXCEPT ![t] = "idle"]}
          /\ iter' \in [Tenants -> Nat] /\ acc' \in [Tenants -> Batches]
      BY <1>0, <1>10, GotoTyped, EndFlushTyped DEF StoreAnchorSig, StoreAnchor, Labels
    <2>3. /\ anchor' \in [Tenants -> HeadType] /\ anchorSig' \in [Tenants -> HeadType]
          /\ signed' \in [Tenants -> SUBSET HeadType]
      BY <1>0, <1>10, <2>1 DEF StoreAnchorSig, StoreAnchor, TypeOK, history
    <2>4. /\ UNCHANGED <<num, latest, inited, refused, bid, counter, blocks, full,
                         produced, disturbed>>
          /\ num[t] > 0
      BY <1>10 DEF StoreAnchorSig, StoreAnchor, history, TypeInv
    <2>5. TypeOK'
      BY <1>0, <2>2, <2>3, <2>4 DEF TypeOK
    <2>6. \A u \in Tenants : u # t => pc'[u] = pc[u]
      BY <1>0, <2>2 DEF TypeOK
    <2>7. pc'[t] # "hset"
      BY <1>0, <2>2 DEF TypeOK
    <2>. QED  BY <2>4, <2>5, <2>6, <2>7 DEF TypeInv
  <1>11. ASSUME NEW t \in Tenants, Crash(t) PROVE TypeInv'
    <2>1. TypeOK'
      BY <1>0, <1>11, RootFacts DEF Crash, TypeOK, Labels, Batches, redis, history
    <2>. QED  BY <1>0, <1>11, <2>1 DEF Crash, TypeInv, TypeOK, redis
  <1>12. ASSUME NEW t \in Tenants, Loss(t) PROVE TypeInv'
    <2>1. PICK keep \in SUBSET Own(t) :
            blocks' = [i \in (DOMAIN blocks \ Own(t)) \cup keep |-> blocks[i]]
      BY <1>12 DEF Loss
    <2>2. /\ DOMAIN blocks' \subseteq DOMAIN blocks
          /\ \A i \in DOMAIN blocks' : blocks'[i] = blocks[i]
      BY <2>1 DEF Own
    <2>3. anchor' \in [Tenants -> HeadType]
      BY <1>0, <1>12, HeadTyped DEF Loss, TypeOK
    <2>4. disturbed' \in [Tenants -> BOOLEAN]
      BY <1>0, <1>12 DEF Loss, TypeOK
    <2>5. UNCHANGED <<enclave, counter, full, anchorSig, produced, signed>>
      BY <1>12 DEF Loss
    <2>6. TypeOK'
      BY <1>0, <2>2, <2>3, <2>4, <2>5 DEF TypeOK, enclave
    <2>. QED  BY <2>5, <2>6 DEF TypeInv, enclave
  <1>13. ASSUME NEW t \in Tenants, Rewrite(t) PROVE TypeInv'
    <2>. DEFINE Forged(i) == Block(t, blocks[i].number, blocks[i].prev, {MaxRecords})
    <2>1. PICK i \in Own(t) :
            /\ blocks' = [blocks EXCEPT ![i] = Forged(i)]
            /\ \/ UNCHANGED anchor
               \/ anchor' = [anchor EXCEPT ![t] = ChainHead(Forged(i).number, Forged(i).root)]
      BY <1>13 DEF Rewrite
    <2>2. blocks[i].number \in Nat /\ blocks[i].prev \in Roots /\ {MaxRecords} \in Batches
      BY <1>0 DEF Own, TypeOK, BlockType, Batches
    <2>3. Forged(i) \in BlockType /\ Forged(i).number \in Nat /\ Forged(i).root \in Roots
      <3>1. Forged(i) \in BlockType
        BY <2>2, BlockTyped
      <3>. QED  BY <3>1 DEF BlockType
    <2>. HIDE DEF Forged
    <2>4. /\ DOMAIN blocks' = DOMAIN blocks
          /\ \A j \in DOMAIN blocks : blocks'[j] = IF j = i THEN Forged(i) ELSE blocks[j]
      BY <2>1
    <2>5. anchor' \in [Tenants -> HeadType]
      BY <1>0, <2>1, <2>3, HeadTyped DEF TypeOK
    <2>6. disturbed' \in [Tenants -> BOOLEAN]
      BY <1>0, <1>13 DEF Rewrite, TypeOK
    <2>7. UNCHANGED <<enclave, counter, full, anchorSig, produced, signed>>
      BY <1>13 DEF Rewrite
    <2>8. TypeOK'
      BY <1>0, <2>3, <2>4, <2>5, <2>6, <2>7 DEF TypeOK, enclave
    <2>. QED  BY <2>7, <2>8 DEF TypeInv, enclave
  <1>14. CASE UNCHANGED vars
    BY <1>14 DEF TypeInv, TypeOK, vars, enclave, redis, history
  <1>. QED  BY <1>1, <1>2, <1>3, <1>4, <1>5, <1>6, <1>7, <1>8, <1>9, <1>10,
               <1>11, <1>12, <1>13, <1>14 DEF Next, Flush

\* Every variable of the block store keeps its type, whatever fails: no anchor
\* line is made for a negative block number, and no block has an id that INCR
\* did not hand out.
THEOREM TypeCorrect == Spec => []TypeOK
  <1>1. TypeInv => TypeOK
    BY DEF TypeInv
  <1>. QED  BY TypeInit, TypeStep, <1>1, PTL DEF Spec

-----------------------------------------------------------------------------
(* What one step may do to the records, the head and the signed heads of a *)
(* tenant.                                                                 *)

\* Records are only added to the batch when they are produced.
BatchStep(u) ==
    /\ produced'[u] >= produced[u]
    /\ \/ acc'[u] = acc[u]
       \/ acc'[u] = {}
       \/ acc'[u] = acc[u] \cup {produced[u]} /\ produced'[u] = produced[u] + 1

\* The head of a GPU node moves by one batch, is forgotten, or is taken from an
\* anchor line the node signed.
HeadStep(u) ==
    \/ latest'[u] = latest[u]
    \/ latest'[u] = Zeros
    \/ latest'[u] = ChainedRoot(latest[u], acc[u])
    \/ \E a \in signed[u] : latest'[u] = a.root
    \/ u \notin Gpu

SignStep(u) ==
    \A h \in signed'[u] : h \in signed[u] \/ h.root = latest[u]

TenantStep(u) == BatchStep(u) /\ HeadStep(u) /\ SignStep(u)

LEMMA StepOfTenant ==
    ASSUME TypeInv, [Next]_vars, NEW u \in Tenants
    PROVE  TenantStep(u)
  <1>0. TypeOK
    BY DEF TypeInv
  <1>t. produced[u] \in Nat
    BY <1>0 DEF TypeOK
  <1>. DEFINE Same == UNCHANGED <<latest, produced, signed>>
  <1>a. ASSUME Same, acc'[u] = acc[u] \/ acc'[u] = {} PROVE TenantStep(u)
    BY <1>t, <1>a DEF TenantStep, BatchStep, HeadStep, SignStep
  <1>b. ASSUME NEW t \in Tenants, EndFlush(t) \/ \E label \in Labels : Goto(t, label)
        PROVE  acc'[u] = acc[u] \/ acc'[u] = {}
    BY <1>0, <1>b DEF EndFlush, Goto, TypeOK
  <1>1. ASSUME NEW t \in Tenants, Export(t) PROVE TenantStep(u)
    <2>1. UNCHANGED <<latest, signed>>
      BY <1>1 DEF Export
    <2>2. BatchStep(u)
      <3>1. CASE UNCHANGED <<acc, produced>>
        BY <1>t, <3>1 DEF BatchStep
      <3>2. CASE /\ produced' = [produced EXCEPT ![t] = @ + 1]
                 /\ acc' = [acc EXCEPT ![t] = @ \cup {produced[t]}]
        BY <1>0, <1>t, <3>2 DEF BatchStep, TypeOK
      <3>. QED  BY <1>1, <3>1, <3>2 DEF Export
    <2>. QED  BY <2>1, <2>2 DEF TenantStep, HeadStep, SignStep
  <1>2. ASSUME NEW t \in Tenants, InitConnectFails(t) \/ Connect(t) \/ Incr(t) \/ Rpush(t)
                                    \/ StoreAnchorSig(t)
        PROVE  TenantStep(u)
    BY <1>2, <1>a, <1>b
       DEF InitConnectFails, Connect, Incr, Rpush, StoreAnchorSig, history, Labels
  <1>3. ASSUME NEW t \in Tenants, GpuResume(t) PROVE TenantStep(u)
    <2>1. UNCHANGED <<acc, produced, signed>>
      BY <1>3 DEF GpuResume, Goto, history
    <2>2. HeadStep(u)
      <3>1. PICK a \in AnchorRead(t), s \in LatestBlockState(t) :
              \/ /\ DecideResume(a, s) = "resume"
                 /\ latest' = [latest EXCEPT ![t] = a.root]
              \/ latest' = latest
        BY <1>3 DEF GpuResume
      <3>2. a = NoHead \/ a \in signed[t]
        BY <1>0, AnchorFacts
      <3>3. DecideResume(a, s) = "resume" => a # NoHead
        BY DEF DecideResume, NoHead
      <3>. QED  BY <1>0, <3>1, <3>2, <3>3 DEF HeadStep, TypeOK
    <2>. QED  BY <1>t, <2>1, <2>2 DEF TenantStep, BatchStep, SignStep
  <1>4. ASSUME NEW t \in Tenants, CpuResume(t) PROVE TenantStep(u)
    <2>1. UNCHANGED <<acc, produced, signed>> /\ t \notin Gpu
      BY <1>4 DEF CpuResume, Goto, history
    <2>2. u # t => latest'[u] = latest[u]
      BY <1>0, <1>4 DEF CpuResume, TypeOK
    <2>. QED  BY <1>t, <2>1, <2>2 DEF TenantStep, BatchStep, HeadStep, SignStep
  <1>5. ASSUME NEW t \in Tenants, Hset(t) \/ Merkle(t) PROVE TenantStep(u)
    <2>1. UNCHANGED <<produced, signed>>
      BY <1>5 DEF Hset, Merkle, history
    <2>2. CASE Inserted(t)
      <3>1. acc'[u] = acc[u] \/ acc'[u] = {}
        BY <1>b, <2>2 DEF Inserted, Labels
      <3>2. latest'[u] = latest[u] \/ latest'[u] = ChainedRoot(latest[u], acc[u])
        BY <1>0, <2>2 DEF Inserted, TypeOK
      <3>. QED  BY <1>t, <2>1, <3>1, <3>2 DEF TenantStep, BatchStep, HeadStep, SignStep
    <2>3. CASE (Goto(t, "rpush") \/ EndFlush(t)) /\ UNCHANGED latest
      BY <1>a, <1>b, <2>1, <2>3 DEF Labels
    <2>. QED  BY <1>5, <2>2, <2>3 DEF Hset, Merkle
  <1>6. ASSUME NEW t \in Tenants, StoreAnchor(t) PROVE TenantStep(u)
    <2>1. UNCHANGED <<latest, produced>>
      BY <1>6 DEF StoreAnchor
    <2>2. acc'[u] = acc[u] \/ acc'[u] = {}
      BY <1>6, <1>b DEF StoreAnchor
    <2>3. SignStep(u)
      BY <1>0, <1>6 DEF StoreAnchor, SignStep, MemoryHead, ChainHead, TypeOK
    <2>. QED  BY <1>t, <2>1, <2>2, <2>3 DEF TenantStep, BatchStep, HeadStep
  <1>7. ASSUME NEW t \in Tenants, Crash(t) PROVE TenantStep(u)
    BY <1>0, <1>t, <1>7
       DEF Crash, TenantStep, BatchStep, HeadStep, SignStep, TypeOK, history
  <1>8. ASSUME NEW t \in Tenants, Loss(t) \/ Rewrite(t) PROVE TenantStep(u)
    BY <1>8, <1>a DEF Loss, Rewrite, enclave
  <1>9. CASE UNCHANGED vars
    BY <1>9, <1>a DEF vars, enclave, history
  <1>. QED  BY <1>1, <1>2, <1>3, <1>4, <1>5, <1>6, <1>7, <1>8, <1>9 DEF Next, Flush

-----------------------------------------------------------------------------
(* What a GPU enclave vouches for *)

\* The records under a root are records the tenant has produced.
Produced(t, root) == \A k \in 1..Len(root) : \A r \in root[k] : r < produced[t]

VouchInv ==
    /\ TypeInv
    /\ \A t \in Tenants :
         /\ \A r \in acc[t] : r < produced[t]
         /\ t \in Gpu => /\ Produced(t, latest[t])
                         /\ \A h \in signed[t] : Produced(t, h.root)

LEMMA VouchInit == Init => VouchInv
  BY TypeInit, RootFacts DEF Init, VouchInv, Produced

LEMMA VouchStep == VouchInv /\ [Next]_vars => VouchInv'
  <1>. SUFFICES ASSUME VouchInv, [Next]_vars PROVE VouchInv'
    OBVIOUS
  <1>0. TypeInv /\ TypeInv'
    BY TypeStep DEF VouchInv
  <1>1. ASSUME NEW t \in Tenants
        PROVE  /\ \A r \in acc'[t] : r < produced'[t]
               /\ t \in Gpu => /\ Produced(t, latest[t])'
                               /\ \A h \in signed'[t] : Produced(t, h.root)'
    <2>1. TenantStep(t)
      BY <1>0, StepOfTenant
    <2>2. /\ acc[t] \in Batches /\ latest[t] \in Roots
          /\ produced[t] \in Nat /\ produced'[t] \in Nat
          /\ \A h \in signed[t] : h.root \in Roots
      BY <1>0 DEF TypeInv, TypeOK, HeadType
    <2>3. \A r \in acc'[t] : r < produced'[t]
      BY <2>1, <2>2 DEF VouchInv, TenantStep, BatchStep, Batches
    <2>4. ASSUME NEW root \in Roots, Produced(t, root) PROVE Produced(t, root)'
      <3>. SUFFICES ASSUME NEW k \in 1..Len(root), NEW r \in root[k]
                    PROVE  r < produced'[t]
        BY DEF Produced
      <3>1. root[k] \in Batches
        BY ElementOfSeq DEF Roots
      <3>2. r \in Nat /\ r < produced[t]
        BY <2>4, <3>1 DEF Produced, Batches
      <3>. QED  BY <2>1, <2>2, <3>2 DEF TenantStep, BatchStep
    <2>5. ASSUME t \in Gpu PROVE Produced(t, latest[t])'
      <3>1. CASE latest'[t] = latest[t]
        BY <2>2, <2>4, <2>5, <3>1 DEF VouchInv, Produced
      <3>2. CASE latest'[t] = Zeros
        BY <3>2, RootFacts DEF Produced
      <3>3. CASE latest'[t] = ChainedRoot(latest[t], acc[t])
        <4>1. Produced(t, latest[t]) /\ \A r \in acc[t] : r < produced[t]
          BY <2>5 DEF VouchInv
        <4>2. Produced(t, ChainedRoot(latest[t], acc[t]))
          <5>. SUFFICES ASSUME NEW k \in 1..Len(ChainedRoot(latest[t], acc[t])),
                               NEW r \in ChainedRoot(latest[t], acc[t])[k]
                        PROVE  r < produced[t]
            BY DEF Produced
          <5>1. k \in 1..Len(latest[t]) \/ k = Len(latest[t]) + 1
            BY <2>2, RootFacts, SMTT(30)
          <5>2. CASE k \in 1..Len(latest[t])
            <6>1. ChainedRoot(latest[t], acc[t])[k] = latest[t][k]
              BY <2>2, <5>2, RootFacts
            <6>. QED  BY <4>1, <5>2, <6>1 DEF Produced
          <5>3. CASE k = Len(latest[t]) + 1
            <6>1. ChainedRoot(latest[t], acc[t])[k] = acc[t]
              BY <2>2, <5>3, RootFacts
            <6>. QED  BY <4>1, <6>1
          <5>. QED  BY <5>1, <5>2, <5>3
        <4>3. ChainedRoot(latest[t], acc[t]) \in Roots
          BY <2>2, RootFacts
        <4>. QED  BY <2>4, <3>3, <4>2, <4>3 DEF Produced
      <3>4. CASE \E a \in signed[t] : latest'[t] = a.root
        BY <2>2, <2>4, <2>5, <3>4 DEF VouchInv, Produced
      <3>. QED  BY <2>1, <2>5, <3>1, <3>2, <3>3, <3>4 DEF TenantStep, HeadStep
    <2>6. ASSUME t \in Gpu, NEW h \in signed'[t] PROVE Produced(t, h.root)'
      <3>1. h \in signed[t] \/ h.root = latest[t]
        BY <2>1 DEF TenantStep, SignStep
      <3>2. h.root \in Roots /\ Produced(t, h.root)
        BY <2>2, <2>6, <3>1 DEF VouchInv
      <3>. QED  BY <2>4, <3>2 DEF Produced
    <2>. QED  BY <2>3, <2>5, <2>6
  <1>. QED  BY <1>0, <1>1 DEF VouchInv

\* Whatever Redis offers when it resumes, including keys that were lost, rolled
\* back or overwritten, a GPU enclave vouches only for records it produced.
THEOREM VouchesForOwnRecords == Spec => []VouchedHistory
  <1>1. VouchInv => VouchedHistory
    <2>. SUFFICES ASSUME VouchInv PROVE VouchedHistory
      OBVIOUS
    <2>1. \A t \in Gpu : t \in Tenants
      BY ConstantsAssumption
    <2>. QED  BY <2>1 DEF VouchInv, VouchedHistory, Produced
  <1>. QED  BY VouchInit, VouchStep, <1>1, PTL DEF Spec

-----------------------------------------------------------------------------
(* One step of one tenant, when nobody else changes Redis *)

Undisturbed == Faults \cap {"loss", "rewrite"} = {}

OwnStep(t) == Export(t) \/ Flush(t) \/ Crash(t)

LEMMA UndisturbedStep ==
    ASSUME Undisturbed, [Next]_vars
    PROVE  (\E t \in Tenants : OwnStep(t)) \/ UNCHANGED vars
  BY DEF Undisturbed, OwnStep, Next, Loss, Rewrite

\* What belongs to tenant u alone does not change.
StaysPut(u) ==
    /\ pc'[u] = pc[u] /\ acc'[u] = acc[u] /\ num'[u] = num[u]
    /\ latest'[u] = latest[u] /\ bid'[u] = bid[u] /\ anchor'[u] = anchor[u]
    /\ anchorSig'[u] = anchorSig[u] /\ signed'[u] = signed[u]
    /\ produced'[u] = produced[u]

LEMMA OthersStayPut ==
    ASSUME TypeOK, NEW t \in Tenants, OwnStep(t), NEW u \in Tenants, u # t
    PROVE  StaysPut(u)
  <1>0. ASSUME EndFlush(t) \/ \E label \in Labels : Goto(t, label)
        PROVE  pc'[u] = pc[u] /\ acc'[u] = acc[u]
    BY <1>0 DEF EndFlush, Goto, TypeOK
  <1>1. ASSUME Inserted(t)
        PROVE  /\ pc'[u] = pc[u] /\ acc'[u] = acc[u] /\ num'[u] = num[u]
               /\ latest'[u] = latest[u]
    <2>1. pc'[u] = pc[u] /\ acc'[u] = acc[u]
      BY <1>0, <1>1 DEF Inserted, Labels
    <2>. QED  BY <1>1, <2>1 DEF Inserted, TypeOK
  <1>2. CASE Export(t)
    BY <1>2 DEF Export, StaysPut, TypeOK, redis
  <1>3. CASE InitConnectFails(t) \/ Connect(t) \/ Rpush(t)
    BY <1>0, <1>3
       DEF InitConnectFails, Connect, Rpush, StaysPut, redis, history, Labels
  <1>4. CASE GpuResume(t)
    <2>1. pc'[u] = pc[u] /\ acc'[u] = acc[u]
      BY <1>0, <1>4 DEF GpuResume, Labels
    <2>2. num'[u] = num[u] /\ latest'[u] = latest[u]
      BY <1>4 DEF GpuResume, TypeOK
    <2>. QED  BY <1>4, <2>1, <2>2 DEF GpuResume, StaysPut, redis, history
  <1>5. CASE CpuResume(t)
    <2>1. pc'[u] = pc[u] /\ acc'[u] = acc[u]
      BY <1>0, <1>5 DEF CpuResume, Labels
    <2>2. num'[u] = num[u] /\ latest'[u] = latest[u]
      BY <1>5 DEF CpuResume, TypeOK
    <2>. QED  BY <1>5, <2>1, <2>2 DEF CpuResume, StaysPut, redis, history
  <1>6. CASE Incr(t)
    <2>1. pc'[u] = pc[u] /\ acc'[u] = acc[u]
      BY <1>0, <1>6 DEF Incr, Labels
    <2>2. bid'[u] = bid[u]
      BY <1>6 DEF Incr, TypeOK
    <2>. QED  BY <1>6, <2>1, <2>2 DEF Incr, StaysPut, history
  <1>7. CASE Hset(t) \/ Merkle(t)
    <2>1. Inserted(t) \/ ((Goto(t, "rpush") \/ EndFlush(t)) /\ UNCHANGED <<num, latest>>)
      BY <1>7 DEF Hset, Merkle
    <2>2. pc'[u] = pc[u] /\ acc'[u] = acc[u] /\ num'[u] = num[u] /\ latest'[u] = latest[u]
      BY <1>0, <1>1, <2>1 DEF Labels
    <2>. QED  BY <1>7, <2>2 DEF Hset, Merkle, StaysPut, redis, history
  <1>8. CASE StoreAnchorSig(t) \/ StoreAnchor(t)
    <2>1. pc'[u] = pc[u] /\ acc'[u] = acc[u]
      BY <1>0, <1>8 DEF StoreAnchorSig, StoreAnchor, Labels
    <2>2. anchor'[u] = anchor[u] /\ anchorSig'[u] = anchorSig[u] /\ signed'[u] = signed[u]
      BY <1>8 DEF StoreAnchorSig, StoreAnchor, TypeOK, history
    <2>. QED  BY <1>8, <2>1, <2>2 DEF StoreAnchorSig, StoreAnchor, StaysPut, history
  <1>9. CASE Crash(t)
    BY <1>9 DEF Crash, StaysPut, TypeOK, redis, history
  <1>. QED  BY <1>2, <1>3, <1>4, <1>5, <1>6, <1>7, <1>8, <1>9 DEF OwnStep, Flush

\* How the step of tenant t moves ids and blocks ...
IdMove(t) ==
    pc'[t] = "hset" => \/ pc[t] = "hset" /\ bid'[t] = bid[t] /\ blocks' = blocks
                       \/ bid'[t] = counter + 1 /\ blocks' = blocks

BlocksMove(t) ==
    \/ blocks' = blocks
    \/ pc[t] = "hset" /\ pc'[t] # "hset" /\ PutBlock(t)

\* ... the block that is being inserted ...
PendingMove(t) ==
    pc'[t] \in {"rpush", "merkle"} =>
        /\ bid'[t] = bid[t] /\ num'[t] = num[t]
        /\ latest'[t] = latest[t] /\ acc'[t] = acc[t]
        /\ \/ pc[t] \in {"rpush", "merkle"} /\ blocks' = blocks
           \/ pc[t] = "hset" /\ PutBlock(t)

\* ... the head in memory ...
HeadMove(t) ==
    \/ /\ num'[t] = num[t] /\ latest'[t] = latest[t]
       /\ pc'[t] \in {"sig", "anchor"} => pc[t] \in {"sig", "anchor"}
    \/ num'[t] = 0 /\ latest'[t] = Zeros /\ pc'[t] = "idle"
    \/ /\ pc'[t] = "connect" /\ t \in Gpu /\ blocks' = blocks
       /\ \E a \in signed[t] : num'[t] = a.number + 1 /\ latest'[t] = a.root
    \/ /\ pc'[t] = "connect" /\ t \notin Gpu /\ blocks' = blocks
       /\ \E s \in LatestBlockState(t) :
             s.have /\ num'[t] = s.number + 1 /\ latest'[t] = s.root
    \/ /\ num'[t] = num[t] + 1 /\ latest'[t] = ChainedRoot(latest[t], acc[t])
       /\ \/ pc[t] = "merkle" /\ blocks' = blocks
          \/ pc[t] = "hset" /\ PutBlock(t)

\* ... and the anchors.
AnchorMove(t) ==
    /\ anchor'[t] = anchor[t] \/ (pc[t] = "anchor" /\ anchor'[t] = MemoryHead(t))
    /\ anchorSig'[t] = anchorSig[t] \/ (pc[t] = "sig" /\ anchorSig'[t] = MemoryHead(t))
    /\ \A h \in signed'[t] : h \in signed[t] \/ (pc[t] = "anchor" /\ h = MemoryHead(t))

Moves(t) == IdMove(t) /\ BlocksMove(t) /\ PendingMove(t) /\ HeadMove(t) /\ AnchorMove(t)

LEMMA StepMoves ==
    ASSUME TypeInv, NEW t \in Tenants, OwnStep(t)
    PROVE  Moves(t)
  <1>0. TypeOK
    BY DEF TypeInv
  <1>. USE DEF Moves, IdMove, BlocksMove, PendingMove, HeadMove, AnchorMove
  <1>g. \A label \in Labels : Goto(t, label) => pc'[t] = label /\ acc' = acc
    BY <1>0 DEF Goto, TypeOK
  <1>e. EndFlush(t) => pc'[t] = "idle"
    BY <1>0 DEF EndFlush, TypeOK
  <1>i. Inserted(t) => /\ pc'[t] \in {"sig", "idle"}
                       /\ num'[t] = num[t] + 1
                       /\ latest'[t] = ChainedRoot(latest[t], acc[t])
    <2>1. Inserted(t) => pc'[t] \in {"sig", "idle"}
      BY <1>g, <1>e DEF Inserted, Labels
    <2>. QED  BY <1>0, <2>1 DEF Inserted, TypeOK
  <1>1. CASE Export(t)
    <2>1. pc'[t] \in {"idle", "init", "connect"}
      BY <1>0, <1>1 DEF Export, TypeOK
    <2>. QED  BY <1>1, <2>1 DEF Export, redis
  <1>2. CASE InitConnectFails(t) \/ Connect(t)
    <2>1. pc'[t] \in {"connect", "incr", "idle"}
      BY <1>g, <1>e, <1>2 DEF InitConnectFails, Connect, Labels
    <2>. QED  BY <1>2, <2>1 DEF InitConnectFails, Connect, redis, history
  <1>3. CASE GpuResume(t)
    <2>1. PICK a \in AnchorRead(t), s \in LatestBlockState(t) :
            \/ /\ DecideResume(a, s) = "resume"
               /\ num' = [num EXCEPT ![t] = NextNumber(a)]
               /\ latest' = [latest EXCEPT ![t] = a.root]
               /\ Goto(t, "connect")
            \/ (Goto(t, "connect") \/ Goto(t, "idle")) /\ UNCHANGED <<num, latest>>
      BY <1>3 DEF GpuResume
    <2>2. DecideResume(a, s) = "resume" => a # NoHead
      BY DEF DecideResume, NoHead
    <2>3. a = NoHead \/ a \in signed[t]
      BY <1>0, AnchorFacts
    <2>4. pc'[t] \in {"connect", "idle"}
      BY <1>g, <2>1 DEF Labels
    <2>5. UNCHANGED <<bid, blocks, anchor, anchorSig, signed>> /\ t \in Gpu
      BY <1>3 DEF GpuResume, redis, history
    <2>6. HeadMove(t)
      <3>1. CASE /\ DecideResume(a, s) = "resume"
                 /\ num' = [num EXCEPT ![t] = NextNumber(a)]
                 /\ latest' = [latest EXCEPT ![t] = a.root]
                 /\ Goto(t, "connect")
        <4>1. num'[t] = a.number + 1 /\ latest'[t] = a.root /\ pc'[t] = "connect"
          BY <1>0, <1>g, <3>1 DEF NextNumber, TypeOK, Labels
        <4>. QED  BY <2>2, <2>3, <2>5, <3>1, <4>1
      <3>2. CASE (Goto(t, "connect") \/ Goto(t, "idle")) /\ UNCHANGED <<num, latest>>
        BY <2>4, <3>2
      <3>. QED  BY <2>1, <3>1, <3>2
    <2>. QED  BY <2>4, <2>5, <2>6
  <1>4. CASE CpuResume(t)
    <2>1. PICK s \in LatestBlockState(t) :
            IF s.have
            THEN /\ num' = [num EXCEPT ![t] = NextNumber(s)]
                 /\ latest' = [latest EXCEPT ![t] = s.root]
            ELSE UNCHANGED <<num, latest>>
      BY <1>4 DEF CpuResume
    <2>2. pc'[t] = "connect"
      BY <1>g, <1>4 DEF CpuResume, Labels
    <2>3. UNCHANGED <<bid, blocks, anchor, anchorSig, signed>> /\ t \notin Gpu
      BY <1>4 DEF CpuResume, redis, history
    <2>4. HeadMove(t)
      BY <1>0, <2>1, <2>2, <2>3 DEF NextNumber, TypeOK
    <2>. QED  BY <2>2, <2>3, <2>4
  <1>5. CASE Incr(t)
    <2>1. pc'[t] \in {"hset", "idle"} /\ (pc'[t] = "hset" => bid'[t] = counter + 1)
      BY <1>0, <1>g, <1>e, <1>5 DEF Incr, Labels, TypeOK
    <2>. QED  BY <1>5, <2>1 DEF Incr, history
  <1>6. CASE Hset(t)
    <2>1. /\ UNCHANGED <<bid, anchor, anchorSig, signed>>
          /\ pc[t] = "hset"
      BY <1>6 DEF Hset, history
    <2>2. \/ PutBlock(t) /\ Inserted(t)
          \/ PutBlock(t) /\ Goto(t, "rpush") /\ UNCHANGED <<num, latest>>
          \/ (PutBlock(t) \/ UNCHANGED blocks) /\ EndFlush(t) /\ UNCHANGED <<num, latest>>
      BY <1>6 DEF Hset
    <2>3. CASE PutBlock(t) /\ Inserted(t)
      BY <1>i, <2>1, <2>3
    <2>4. CASE PutBlock(t) /\ Goto(t, "rpush") /\ UNCHANGED <<num, latest>>
      BY <1>g, <2>1, <2>4 DEF Labels
    <2>5. CASE (PutBlock(t) \/ UNCHANGED blocks) /\ EndFlush(t) /\ UNCHANGED <<num, latest>>
      BY <1>e, <2>1, <2>5
    <2>. QED  BY <2>2, <2>3, <2>4, <2>5
  <1>7. CASE Rpush(t)
    <2>1. (pc'[t] = "merkle" /\ acc' = acc) \/ pc'[t] = "idle"
      BY <1>g, <1>e, <1>7 DEF Rpush, Labels
    <2>. QED  BY <1>7, <2>1 DEF Rpush, history
  <1>8. CASE Merkle(t)
    <2>1. UNCHANGED <<bid, blocks, anchor, anchorSig, signed>> /\ pc[t] = "merkle"
      BY <1>8 DEF Merkle, redis, history
    <2>2. CASE Inserted(t)
      BY <1>i, <2>1, <2>2
    <2>3. CASE EndFlush(t) /\ UNCHANGED <<num, latest>>
      BY <1>e, <2>1, <2>3
    <2>. QED  BY <1>8, <2>2, <2>3 DEF Merkle
  <1>9. CASE StoreAnchorSig(t)
    <2>1. pc'[t] = "anchor"
      BY <1>g, <1>9 DEF StoreAnchorSig, Labels
    <2>2. anchorSig'[t] = anchorSig[t] \/ anchorSig'[t] = MemoryHead(t)
      BY <1>0, <1>9 DEF StoreAnchorSig, TypeOK
    <2>. QED  BY <1>9, <2>1, <2>2 DEF StoreAnchorSig, history
  <1>10. CASE StoreAnchor(t)
    <2>1. pc'[t] = "idle"
      BY <1>e, <1>10 DEF StoreAnchor
    <2>2. /\ anchor'[t] = anchor[t] \/ anchor'[t] = MemoryHead(t)
          /\ \A h \in signed'[t] : h \in signed[t] \/ h = MemoryHead(t)
      BY <1>0, <1>10 DEF StoreAnchor, TypeOK
    <2>. QED  BY <1>10, <2>1, <2>2 DEF StoreAnchor
  <1>11. CASE Crash(t)
    <2>1. pc'[t] = "idle" /\ num'[t] = 0 /\ latest'[t] = Zeros
      BY <1>0, <1>11 DEF Crash, TypeOK
    <2>. QED  BY <1>11, <2>1 DEF Crash, redis, history
  <1>. QED  BY <1>1, <1>2, <1>3, <1>4, <1>5, <1>6, <1>7, <1>8, <1>9, <1>10, <1>11
            DEF OwnStep, Flush

-----------------------------------------------------------------------------
(* What is stored *)

\* The id an insert is about to use is free, above all ids of the tenant, and
\* in nobody else's hands.
IdsAreFresh ==
    /\ \A t \in Tenants : pc[t] = "hset" =>
          bid[t] \notin DOMAIN blocks /\ \A j \in Own(t) : j < bid[t]
    /\ \A t, u \in Tenants :
          (t # u /\ pc[t] = "hset" /\ pc[u] = "hset") => bid[t] # bid[u]

\* After HSET the block in Redis is the one the enclave is inserting.
PendingIsStored ==
    \A t \in Tenants : pc[t] \in {"rpush", "merkle"} =>
        bid[t] \in DOMAIN blocks /\ blocks[bid[t]] = Pending(t)

\* A head that is not all zero is the root of a stored block.
HeadIsStored ==
    \A t \in Tenants :
        /\ pc[t] \in {"sig", "anchor"} => latest[t] # Zeros
        /\ latest[t] # Zeros =>
             \E j \in Own(t) : blocks[j].root = latest[t] /\ blocks[j].number + 1 = num[t]

\* A GPU node numbers blocks by the length of the chain.
GpuNumbers ==
    \A t \in Gpu : /\ num[t] = Len(latest[t])
                   /\ \A h \in signed[t] : h.number + 1 = Len(h.root)

SignedAreStored == \A t \in Tenants : \A h \in signed[t] : Stores(t, h)

AllLinked == \A t \in Tenants : Linked(t)
AllAnchored == \A t \in Tenants : Anchored(t)

StoreInv == TypeInv /\ IdsAreFresh /\ PendingIsStored /\ HeadIsStored /\ GpuNumbers
              /\ SignedAreStored /\ AllLinked /\ AllAnchored

\* No step of a tenant removes or changes a stored block, and what it adds is
\* one block of its own, above all the others it has.
LEMMA StoreGrows ==
    ASSUME TypeInv, IdsAreFresh, NEW t \in Tenants, OwnStep(t)
    PROVE  /\ \A i \in DOMAIN blocks : i \in DOMAIN blocks' /\ blocks'[i] = blocks[i]
           /\ \A i \in DOMAIN blocks' : i \in DOMAIN blocks \/
                (pc[t] = "hset" /\ pc'[t] # "hset" /\ PutBlock(t)
                   /\ i = bid[t] /\ blocks'[i] = Pending(t))
           /\ \A u \in Tenants : Own(u) \subseteq Own(u)'
           /\ \A u \in Tenants : u # t => Own(u)' = Own(u)
  <1>1. BlocksMove(t)
    BY StepMoves DEF Moves
  <1>2. CASE blocks' = blocks
    BY <1>2 DEF Own
  <1>3. CASE pc[t] = "hset" /\ pc'[t] # "hset" /\ PutBlock(t)
    <2>1. bid[t] \notin DOMAIN blocks
      BY <1>3 DEF IdsAreFresh
    <2>2. /\ DOMAIN blocks' = DOMAIN blocks \cup {bid[t]}
          /\ blocks'[bid[t]] = Pending(t)
          /\ \A i \in DOMAIN blocks : blocks'[i] = blocks[i]
      BY <1>3, <2>1, PutBlockTyped DEF TypeInv
    <2>3. Pending(t).tenant = t
      BY DEF Pending, Block
    <2>. QED  BY <1>3, <2>1, <2>2, <2>3 DEF Own
  <1>. QED  BY <1>1, <1>2, <1>3 DEF BlocksMove

LEMMA IdsStep ==
    ASSUME TypeInv, IdsAreFresh, NEW t \in Tenants, OwnStep(t)
    PROVE  IdsAreFresh'
  <1>0. TypeOK /\ IdMove(t)
    BY StepMoves DEF Moves, TypeInv
  <1>1. \A u \in Tenants : u # t => pc'[u] = pc[u] /\ bid'[u] = bid[u]
    BY <1>0, OthersStayPut DEF StaysPut
  <1>2. counter \in Nat /\ DOMAIN blocks \subseteq 1..counter
    BY <1>0 DEF TypeOK
  <1>3. \A u \in Tenants : pc[u] = "hset" => bid[u] \in 1..counter
    BY DEF TypeInv
  <1>4. ASSUME NEW u \in Tenants, pc'[u] = "hset"
        PROVE  bid'[u] \notin DOMAIN blocks' /\ \A j \in Own(u)' : j < bid'[u]
    <2>1. CASE u = t
      <3>1. blocks' = blocks
        BY <1>0, <1>4, <2>1 DEF IdMove
      <3>2. CASE pc[t] = "hset" /\ bid'[t] = bid[t]
        BY <2>1, <3>1, <3>2 DEF IdsAreFresh, Own
      <3>3. CASE bid'[t] = counter + 1
        BY <1>2, <2>1, <3>1, <3>3 DEF Own
      <3>. QED  BY <1>0, <1>4, <2>1, <3>2, <3>3 DEF IdMove
    <2>2. CASE u # t
      <3>1. pc[u] = "hset" /\ bid'[u] = bid[u]
        BY <1>1, <1>4, <2>2
      <3>2. Own(u)' = Own(u)
        BY <2>2, StoreGrows
      <3>3. bid[u] \notin DOMAIN blocks'
        BY <2>2, <3>1, StoreGrows DEF IdsAreFresh
      <3>. QED  BY <3>1, <3>2, <3>3 DEF IdsAreFresh
    <2>. QED  BY <2>1, <2>2
  <1>5. ASSUME NEW u \in Tenants, NEW v \in Tenants, u # v,
               pc'[u] = "hset", pc'[v] = "hset", v # t
        PROVE  bid'[u] # bid'[v]
    <2>1. pc[v] = "hset" /\ bid'[v] = bid[v] /\ bid[v] \in 1..counter
      BY <1>1, <1>3, <1>5
    <2>2. CASE pc[u] = "hset" /\ bid'[u] = bid[u]
      BY <1>5, <2>1, <2>2 DEF IdsAreFresh
    <2>3. CASE bid'[u] = counter + 1
      BY <1>2, <2>1, <2>3
    <2>. QED  BY <1>0, <1>1, <1>5, <2>2, <2>3 DEF IdMove
  <1>. QED  BY <1>4, <1>5 DEF IdsAreFresh

LEMMA StoreInit == Init => StoreInv
  <1>. SUFFICES ASSUME Init PROVE StoreInv
    OBVIOUS
  <1>1. TypeInv
    BY TypeInit
  <1>2. DOMAIN blocks = {}
    BY DEF Init
  <1>3. \A t \in Tenants : pc[t] = "idle" /\ latest[t] = Zeros /\ num[t] = 0 /\ signed[t] = {}
                           /\ anchor[t] = NoHead /\ anchorSig[t] = NoHead
    BY DEF Init
  <1>4. IdsAreFresh /\ PendingIsStored /\ HeadIsStored /\ SignedAreStored
    BY <1>3 DEF IdsAreFresh, PendingIsStored, HeadIsStored, SignedAreStored
  <1>5. GpuNumbers
    BY <1>3, RootFacts, ConstantsAssumption DEF GpuNumbers
  <1>6. AllLinked
    BY <1>2 DEF AllLinked, Linked, Own
  <1>7. AllAnchored
    BY <1>3 DEF AllAnchored, Anchored, NoHead
  <1>. QED  BY <1>1, <1>4, <1>5, <1>6, <1>7 DEF StoreInv

LEMMA StoreStep ==
    ASSUME Undisturbed, StoreInv, [Next]_vars
    PROVE  StoreInv'
  <1>0. TypeInv' /\ TypeInv /\ TypeOK
    BY TypeStep DEF StoreInv, TypeInv
  <1>1. CASE UNCHANGED vars
    <2>1. IdsAreFresh'
      BY <1>1 DEF StoreInv, IdsAreFresh, Own, vars, enclave, redis
    <2>2. PendingIsStored'
      BY <1>1 DEF StoreInv, PendingIsStored, Pending, vars, enclave, redis
    <2>3. HeadIsStored'
      BY <1>1 DEF StoreInv, HeadIsStored, Own, vars, enclave, redis
    <2>4. GpuNumbers'
      BY <1>1 DEF StoreInv, GpuNumbers, vars, enclave, history
    <2>5. SignedAreStored'
      BY <1>1 DEF StoreInv, SignedAreStored, Stores, Own, vars, redis, history
    <2>6. AllLinked'
      BY <1>1 DEF StoreInv, AllLinked, Linked, Own, vars, redis
    <2>7. AllAnchored'
      BY <1>1 DEF StoreInv, AllAnchored, Anchored, Stores, Own, vars, redis
    <2>. QED  BY <1>0, <2>1, <2>2, <2>3, <2>4, <2>5, <2>6, <2>7 DEF StoreInv
  <1>2. ASSUME NEW t \in Tenants, OwnStep(t) PROVE StoreInv'
    <2>1. Moves(t) /\ \A u \in Tenants : u # t => StaysPut(u)
      BY <1>0, <1>2, StepMoves, OthersStayPut
    <2>2. IdsAreFresh'
      BY <1>0, <1>2, IdsStep DEF StoreInv
    <2>3. /\ \A i \in DOMAIN blocks : i \in DOMAIN blocks' /\ blocks'[i] = blocks[i]
          /\ \A i \in DOMAIN blocks' : i \in DOMAIN blocks \/
                (pc[t] = "hset" /\ pc'[t] # "hset" /\ PutBlock(t)
                   /\ i = bid[t] /\ blocks'[i] = Pending(t))
          /\ \A u \in Tenants : Own(u) \subseteq Own(u)'
      BY <1>0, <1>2, StoreGrows DEF StoreInv
    <2>4. \A u \in Tenants : \A h : Stores(u, h) => Stores(u, h)'
      <3>. SUFFICES ASSUME NEW u \in Tenants, NEW h, Stores(u, h) PROVE Stores(u, h)'
        OBVIOUS
      <3>1. PICK i \in Own(u) : blocks[i].number = h.number /\ blocks[i].root = h.root
        BY DEF Stores
      <3>2. i \in Own(u)' /\ blocks'[i] = blocks[i]
        BY <2>3, <3>1 DEF Own
      <3>. QED  BY <3>1, <3>2 DEF Stores
    <2>p. /\ Pending(t).number = num[t] /\ Pending(t).prev = latest[t]
          /\ Pending(t).root = ChainedRoot(latest[t], acc[t]) /\ Pending(t).tenant = t
      BY DEF Pending, Block
    <2>5. PutBlock(t) => /\ bid[t] \in DOMAIN blocks' /\ blocks'[bid[t]] = Pending(t)
                         /\ bid[t] \in Own(t)'
      BY <1>0, <2>p, PutBlockTyped DEF Own
    <2>6. PendingIsStored'
      <3>. SUFFICES ASSUME NEW u \in Tenants, pc'[u] \in {"rpush", "merkle"}
                    PROVE  bid'[u] \in DOMAIN blocks' /\ blocks'[bid'[u]] = Pending(u)'
        BY DEF PendingIsStored
      <3>1. CASE u # t
        <4>1. /\ pc[u] \in {"rpush", "merkle"}
              /\ bid'[u] = bid[u] /\ Pending(u)' = Pending(u)
          BY <2>1, <3>1 DEF StaysPut, Pending
        <4>. QED  BY <2>3, <4>1 DEF StoreInv, PendingIsStored
      <3>2. CASE u = t
        <4>1. /\ bid'[t] = bid[t] /\ Pending(t)' = Pending(t)
              /\ \/ pc[t] \in {"rpush", "merkle"} /\ blocks' = blocks
                 \/ pc[t] = "hset" /\ PutBlock(t)
          BY <2>1, <3>2 DEF Moves, PendingMove, Pending
        <4>. QED  BY <2>5, <3>2, <4>1 DEF StoreInv, PendingIsStored
      <3>. QED  BY <3>1, <3>2
    <2>7. HeadIsStored'
      <3>. DEFINE Found(u) == \E j \in Own(u)' : /\ blocks'[j].root = latest'[u]
                                                /\ blocks'[j].number + 1 = num'[u]
      <3>. SUFFICES ASSUME NEW u \in Tenants
                    PROVE  /\ pc'[u] \in {"sig", "anchor"} => latest'[u] # Zeros
                           /\ latest'[u] # Zeros => Found(u)
        BY DEF HeadIsStored
      <3>1. ASSUME num'[u] = num[u], latest'[u] = latest[u],
                   pc'[u] \in {"sig", "anchor"} => pc[u] \in {"sig", "anchor"}
            PROVE  /\ pc'[u] \in {"sig", "anchor"} => latest'[u] # Zeros
                   /\ latest'[u] # Zeros => Found(u)
        BY <2>3, <3>1 DEF StoreInv, HeadIsStored, Own
      <3>2. CASE u # t
        BY <2>1, <3>1, <3>2 DEF StaysPut
      <3>3. CASE u = t
        <4>1. CASE num'[t] = 0 /\ latest'[t] = Zeros /\ pc'[t] = "idle"
          BY <3>3, <4>1
        <4>2. CASE /\ pc'[t] = "connect" /\ t \in Gpu /\ blocks' = blocks
                   /\ \E a \in signed[t] : num'[t] = a.number + 1 /\ latest'[t] = a.root
          <5>1. PICK a \in signed[t] : num'[t] = a.number + 1 /\ latest'[t] = a.root
            BY <4>2
          <5>2. Stores(t, a)'
            BY <2>4 DEF StoreInv, SignedAreStored
          <5>. QED  BY <3>3, <4>2, <5>1, <5>2 DEF Stores
        <4>3. CASE /\ pc'[t] = "connect" /\ t \notin Gpu /\ blocks' = blocks
                   /\ \E s \in LatestBlockState(t) :
                         s.have /\ num'[t] = s.number + 1 /\ latest'[t] = s.root
          <5>1. PICK s \in LatestBlockState(t) :
                         s.have /\ num'[t] = s.number + 1 /\ latest'[t] = s.root
            BY <4>3
          <5>2. s.root # Zeros =>
                  \E i \in Own(t) : blocks[i].number = s.number /\ blocks[i].root = s.root
            BY <1>0, <5>1, LatestFacts
          <5>. QED  BY <2>3, <3>3, <4>3, <5>1, <5>2
        <4>4. CASE /\ num'[t] = num[t] + 1 /\ latest'[t] = ChainedRoot(latest[t], acc[t])
                   /\ \/ pc[t] = "merkle" /\ blocks' = blocks
                      \/ pc[t] = "hset" /\ PutBlock(t)
          <5>1. bid[t] \in Own(t)' /\ blocks'[bid[t]] = Pending(t)
            BY <2>5, <2>p, <4>4 DEF StoreInv, PendingIsStored, Own
          <5>2. latest'[t] # Zeros
            BY <1>0, <4>4, RootFacts DEF TypeOK
          <5>. QED  BY <2>p, <3>3, <4>4, <5>1, <5>2
        <4>. QED  BY <2>1, <3>1, <3>3, <4>1, <4>2, <4>3, <4>4 DEF Moves, HeadMove
      <3>. QED  BY <3>2, <3>3
    <2>8. ASSUME pc[t] \in {"sig", "anchor"}
          PROVE  \E j \in Own(t)' : /\ blocks'[j].number = MemoryHead(t).number
                                    /\ blocks'[j].root = MemoryHead(t).root
      <3>1. MemoryHead(t).number = num[t] - 1 /\ MemoryHead(t).root = latest[t]
        BY DEF MemoryHead, ChainHead
      <3>2. PICK j \in Own(t) : blocks[j].root = latest[t] /\ blocks[j].number + 1 = num[t]
        BY <2>8 DEF StoreInv, HeadIsStored
      <3>3. blocks[j].number \in Nat
        BY <1>0, <3>2 DEF TypeOK, BlockType, Own
      <3>4. j \in Own(t)' /\ blocks'[j] = blocks[j]
        BY <2>3, <3>2 DEF Own
      <3>. QED  BY <3>1, <3>2, <3>3, <3>4
    <2>9. GpuNumbers'
      <3>. SUFFICES ASSUME NEW u \in Gpu
                    PROVE  /\ num'[u] = Len(latest'[u])
                           /\ \A h \in signed'[u] : h.number + 1 = Len(h.root)
        BY DEF GpuNumbers
      <3>0. /\ u \in Tenants /\ num[u] \in Nat /\ latest[u] \in Roots /\ acc[u] \in Batches
            /\ num[u] = Len(latest[u])
            /\ \A h \in signed[u] : h.number + 1 = Len(h.root)
        BY <1>0, ConstantsAssumption DEF StoreInv, GpuNumbers, TypeOK
      <3>1. CASE u # t
        BY <2>1, <3>0, <3>1 DEF StaysPut
      <3>2. CASE u = t
        <4>1. num'[t] = Len(latest'[t])
          <5>1. \/ num'[t] = num[t] /\ latest'[t] = latest[t]
                \/ num'[t] = 0 /\ latest'[t] = Zeros
                \/ \E a \in signed[t] : num'[t] = a.number + 1 /\ latest'[t] = a.root
                \/ num'[t] = num[t] + 1 /\ latest'[t] = ChainedRoot(latest[t], acc[t])
            BY <2>1, <3>2 DEF Moves, HeadMove
          <5>2. Len(ChainedRoot(latest[t], acc[t])) = Len(latest[t]) + 1 /\ Len(Zeros) = 0
            BY <3>0, <3>2, RootFacts
          <5>. QED  BY <3>0, <3>2, <5>1, <5>2
        <4>2. ASSUME NEW h \in signed'[t] PROVE h.number + 1 = Len(h.root)
          <5>1. CASE h \in signed[t]
            BY <3>0, <3>2, <5>1
          <5>2. CASE h = MemoryHead(t)
            <6>1. h.number = num[t] - 1 /\ h.root = latest[t]
              BY <5>2 DEF MemoryHead, ChainHead
            <6>2. num[t] \in Nat /\ num[t] = Len(latest[t])
              BY <3>0, <3>2
            <6>. QED  BY <6>1, <6>2
          <5>. QED  BY <2>1, <5>1, <5>2 DEF Moves, AnchorMove
        <4>. QED  BY <3>2, <4>1, <4>2
      <3>. QED  BY <3>1, <3>2
    <2>10. SignedAreStored'
      <3>. SUFFICES ASSUME NEW u \in Tenants, NEW h \in signed'[u] PROVE Stores(u, h)'
        BY DEF SignedAreStored
      <3>1. CASE h \in signed[u]
        BY <2>4, <3>1 DEF StoreInv, SignedAreStored
      <3>2. CASE u = t /\ pc[t] = "anchor" /\ h = MemoryHead(t)
        BY <2>8, <3>2 DEF Stores
      <3>. QED  BY <2>1, <3>1, <3>2 DEF Moves, AnchorMove, StaysPut
    <2>11. AllAnchored'
      <3>. SUFFICES ASSUME NEW u \in Tenants, NEW h \in {anchor'[u], anchorSig'[u]}, h.have
                    PROVE  Stores(u, h)'
        BY DEF AllAnchored, Anchored
      <3>1. CASE h \in {anchor[u], anchorSig[u]}
        BY <2>4, <3>1 DEF StoreInv, AllAnchored, Anchored
      <3>2. CASE u = t /\ pc[t] \in {"sig", "anchor"} /\ h = MemoryHead(t)
        BY <2>8, <3>2 DEF Stores
      <3>. QED  BY <2>1, <3>1, <3>2 DEF Moves, AnchorMove, StaysPut
    <2>12. AllLinked'
      <3>. SUFFICES ASSUME NEW u \in Tenants, NEW i \in Own(u)'
                    PROVE  /\ blocks'[i].prev # Zeros =>
                                \E j \in Own(u)' :
                                   /\ j < i
                                   /\ blocks'[j].root = blocks'[i].prev
                                   /\ blocks'[j].number + 1 = blocks'[i].number
                           /\ u \in Gpu => blocks'[i].number = Len(blocks'[i].prev)
        BY DEF AllLinked, Linked
      <3>1. CASE i \in DOMAIN blocks
        <4>1. blocks'[i] = blocks[i] /\ i \in Own(u)
          BY <2>3, <3>1 DEF Own
        <4>2. ASSUME blocks[i].prev # Zeros
              PROVE  \E j \in Own(u)' : /\ j < i
                                        /\ blocks'[j].root = blocks[i].prev
                                        /\ blocks'[j].number + 1 = blocks[i].number
          <5>1. PICK j \in Own(u) : /\ j < i
                                    /\ blocks[j].root = blocks[i].prev
                                    /\ blocks[j].number + 1 = blocks[i].number
            BY <4>1, <4>2 DEF StoreInv, AllLinked, Linked
          <5>2. j \in Own(u)' /\ blocks'[j] = blocks[j]
            BY <2>3, <5>1 DEF Own
          <5>. QED  BY <5>1, <5>2
        <4>3. u \in Gpu => blocks[i].number = Len(blocks[i].prev)
          BY <4>1 DEF StoreInv, AllLinked, Linked
        <4>. QED  BY <4>1, <4>2, <4>3
      <3>2. CASE pc[t] = "hset" /\ i = bid[t] /\ blocks'[i] = Pending(t)
        <4>0. u = t
          BY <2>p, <3>2 DEF Own
        <4>1. ASSUME latest[t] # Zeros
              PROVE  \E j \in Own(t)' : /\ j < i
                                        /\ blocks'[j].root = latest[t]
                                        /\ blocks'[j].number + 1 = num[t]
          <5>1. PICK j \in Own(t) : blocks[j].root = latest[t] /\ blocks[j].number + 1 = num[t]
            BY <4>1 DEF StoreInv, HeadIsStored
          <5>2. j < i
            BY <3>2, <5>1 DEF StoreInv, IdsAreFresh
          <5>3. j \in Own(t)' /\ blocks'[j] = blocks[j]
            BY <2>3, <5>1 DEF Own
          <5>. QED  BY <5>1, <5>2, <5>3
        <4>2. t \in Gpu => num[t] = Len(latest[t])
          BY DEF StoreInv, GpuNumbers
        <4>. QED  BY <2>p, <3>2, <4>0, <4>1, <4>2
      <3>3. i \in DOMAIN blocks'
        BY DEF Own
      <3>. QED  BY <2>3, <3>1, <3>2, <3>3
    <2>. QED  BY <1>0, <2>2, <2>6, <2>7, <2>9, <2>10, <2>11, <2>12 DEF StoreInv
  <1>. QED  BY <1>1, <1>2, UndisturbedStep

\* As long as nobody else changes Redis, and whatever commands fail and enclaves
\* stop, a stored block that is not the first of a chain links to an older block
\* of its tenant with the number before its own, and an anchor line is never
\* ahead of the stored blocks.
THEOREM BlocksAreLinked == ASSUME Undisturbed PROVE Spec => []LinkedStore
  <1>1. StoreInv /\ [Next]_vars => StoreInv'
    BY StoreStep
  <1>2. StoreInv => LinkedStore
    BY DEF StoreInv, AllLinked, AllAnchored, LinkedStore
  <1>. QED  BY StoreInit, <1>1, <1>2, PTL DEF Spec

-----------------------------------------------------------------------------
(* No record is stored twice *)

\* The records of a stored block were produced, and a batch that is not stored
\* yet has none of them.
StoredRecords ==
    \A t \in Tenants : \A i \in Own(t) :
        /\ \A r \in blocks[i].batch : r < produced[t]
        /\ pc[t] \in {"idle", "init", "connect", "incr", "hset"} =>
              \A r \in acc[t] : r \notin blocks[i].batch

NoSharedRecord ==
    \A i, j \in DOMAIN blocks :
        (i # j /\ blocks[i].tenant = blocks[j].tenant)
            => blocks[i].batch \cap blocks[j].batch = {}

RecordInv == VouchInv /\ IdsAreFresh /\ StoredRecords /\ NoSharedRecord

\* How a step moves the batch of its tenant.
LEMMA BatchMoves ==
    ASSUME TypeInv, NEW t \in Tenants, OwnStep(t),
           pc'[t] \in {"idle", "init", "connect", "incr", "hset"}
    PROVE  \/ acc'[t] = {}
           \/ /\ pc[t] \in {"idle", "init", "connect", "incr", "hset"}
              /\ acc'[t] = acc[t] \/ acc'[t] = acc[t] \cup {produced[t]}
              /\ blocks' = blocks
  <1>0. TypeOK
    BY DEF TypeInv
  <1>g. \A label \in Labels : Goto(t, label) => pc'[t] = label /\ acc' = acc
    BY <1>0 DEF Goto, TypeOK
  <1>e. EndFlush(t) => acc'[t] = {}
    BY <1>0 DEF EndFlush, TypeOK
  <1>i. Inserted(t) => acc'[t] = {} \/ pc'[t] = "sig"
    BY <1>g, <1>e DEF Inserted, Labels
  <1>1. CASE Export(t)
    <2>1. acc'[t] = acc[t] \/ acc'[t] = acc[t] \cup {produced[t]}
      BY <1>0, <1>1 DEF Export, TypeOK
    <2>. QED  BY <1>1, <2>1 DEF Export, redis
  <1>2. CASE InitConnectFails(t) \/ GpuResume(t) \/ CpuResume(t) \/ Connect(t) \/ Incr(t)
    <2>1. acc' = acc \/ acc'[t] = {}
      BY <1>e, <1>2 DEF InitConnectFails, GpuResume, CpuResume, Connect, Incr, Goto
    <2>2. blocks' = blocks /\ pc[t] \in {"init", "connect", "incr"}
      BY <1>2 DEF InitConnectFails, GpuResume, CpuResume, Connect, Incr, redis
    <2>. QED  BY <2>1, <2>2
  <1>3. CASE Hset(t) \/ Rpush(t) \/ Merkle(t)
    <2>1. Goto(t, "rpush") \/ Goto(t, "merkle") \/ EndFlush(t) \/ Inserted(t)
      BY <1>3 DEF Hset, Rpush, Merkle
    <2>. QED  BY <1>g, <1>e, <1>i, <2>1 DEF Labels
  <1>4. CASE StoreAnchorSig(t) \/ StoreAnchor(t)
    BY <1>g, <1>e, <1>4 DEF StoreAnchorSig, StoreAnchor, Labels
  <1>5. CASE Crash(t)
    BY <1>0, <1>5 DEF Crash, TypeOK
  <1>. QED  BY <1>1, <1>2, <1>3, <1>4, <1>5 DEF OwnStep, Flush

LEMMA RecordInit == Init => RecordInv
  <1>. SUFFICES ASSUME Init PROVE RecordInv
    OBVIOUS
  <1>1. VouchInv /\ IdsAreFresh
    BY VouchInit, StoreInit DEF StoreInv
  <1>2. DOMAIN blocks = {}
    BY DEF Init
  <1>. QED  BY <1>1, <1>2 DEF RecordInv, StoredRecords, NoSharedRecord, Own

LEMMA RecordStep ==
    ASSUME Undisturbed, RecordInv, [Next]_vars
    PROVE  RecordInv'
  <1>0. VouchInv /\ VouchInv' /\ TypeInv /\ TypeOK
    BY VouchStep DEF RecordInv, VouchInv, TypeInv
  <1>1. CASE UNCHANGED vars
    <2>1. IdsAreFresh'
      BY <1>1 DEF RecordInv, IdsAreFresh, Own, vars, enclave, redis
    <2>2. StoredRecords'
      BY <1>1 DEF RecordInv, StoredRecords, Own, vars, enclave, redis, history
    <2>3. NoSharedRecord'
      BY <1>1 DEF RecordInv, NoSharedRecord, vars, redis
    <2>. QED  BY <1>0, <2>1, <2>2, <2>3 DEF RecordInv
  <1>2. ASSUME NEW t \in Tenants, OwnStep(t) PROVE RecordInv'
    <2>1. IdsAreFresh'
      BY <1>0, <1>2, IdsStep DEF RecordInv
    <2>2. /\ \A i \in DOMAIN blocks : i \in DOMAIN blocks' /\ blocks'[i] = blocks[i]
          /\ \A i \in DOMAIN blocks' : i \in DOMAIN blocks \/
                (pc[t] = "hset" /\ pc'[t] # "hset" /\ PutBlock(t)
                   /\ i = bid[t] /\ blocks'[i] = Pending(t))
          /\ \A u \in Tenants : u # t => Own(u)' = Own(u)
      BY <1>0, <1>2, StoreGrows DEF RecordInv
    <2>p. Pending(t).batch = acc[t] /\ Pending(t).tenant = t
      BY DEF Pending, Block
    <2>3. \A u \in Tenants : u # t => StaysPut(u)
      BY <1>0, <1>2, OthersStayPut
    <2>4. \A u \in Tenants : /\ produced[u] \in Nat /\ produced'[u] \in Nat
                             /\ produced'[u] >= produced[u]
      BY <1>0, StepOfTenant DEF VouchInv, TypeInv, TypeOK, TenantStep, BatchStep
    <2>5. \A i \in DOMAIN blocks : blocks[i].batch \subseteq Nat
      BY <1>0 DEF TypeOK, BlockType, Batches
    <2>6. acc[t] \subseteq Nat /\ \A r \in acc[t] : r < produced[t]
      BY <1>0 DEF VouchInv, TypeOK, Batches
    <2>7. StoredRecords'
      <3>. SUFFICES ASSUME NEW u \in Tenants, NEW i \in Own(u)'
                    PROVE  /\ \A r \in blocks'[i].batch : r < produced'[u]
                           /\ pc'[u] \in {"idle", "init", "connect", "incr", "hset"} =>
                                 \A r \in acc'[u] : r \notin blocks'[i].batch
        BY DEF StoredRecords
      <3>0. i \in DOMAIN blocks' /\ blocks'[i].tenant = u
        BY DEF Own
      <3>1. CASE i \in DOMAIN blocks
        <4>1. blocks'[i] = blocks[i] /\ i \in Own(u)
          BY <2>2, <3>0, <3>1 DEF Own
        <4>2. \A r \in blocks[i].batch : r \in Nat /\ r < produced[u]
          BY <2>5, <3>1, <4>1 DEF RecordInv, StoredRecords
        <4>3. \A r \in blocks'[i].batch : r < produced'[u]
          BY <2>4, <4>1, <4>2
        <4>4. ASSUME pc'[u] \in {"idle", "init", "connect", "incr", "hset"},
                     NEW r \in acc'[u]
              PROVE  r \notin blocks[i].batch
          <5>1. CASE u # t
            BY <2>3, <4>1, <4>4, <5>1 DEF StaysPut, RecordInv, StoredRecords
          <5>2. CASE u = t
            <6>1. /\ pc[t] \in {"idle", "init", "connect", "incr", "hset"}
                  /\ r \in acc[t] \/ r = produced[t]
              BY <1>0, <1>2, <4>4, <5>2, BatchMoves
            <6>. QED  BY <2>4, <4>1, <4>2, <5>2, <6>1 DEF RecordInv, StoredRecords
          <5>. QED  BY <5>1, <5>2
        <4>. QED  BY <4>1, <4>3, <4>4
      <3>2. CASE /\ i \notin DOMAIN blocks
                 /\ pc[t] = "hset" /\ blocks'[i] = Pending(t)
        <4>1. u = t /\ blocks'[i].batch = acc[t]
          BY <2>p, <3>0, <3>2
        <4>2. \A r \in acc[t] : r < produced'[t]
          BY <2>4, <2>6
        <4>3. pc'[t] \in {"idle", "init", "connect", "incr", "hset"} => acc'[t] = {}
          <5>1. blocks' # blocks
            BY <3>0, <3>2
          <5>. QED  BY <1>0, <1>2, <5>1, BatchMoves
        <4>. QED  BY <4>1, <4>2, <4>3
      <3>. QED  BY <2>2, <3>0, <3>1, <3>2
    <2>8. NoSharedRecord'
      <3>. SUFFICES ASSUME NEW i \in DOMAIN blocks', NEW j \in DOMAIN blocks', i # j,
                           blocks'[i].tenant = blocks'[j].tenant
                    PROVE  blocks'[i].batch \cap blocks'[j].batch = {}
        BY DEF NoSharedRecord
      <3>1. CASE i \in DOMAIN blocks /\ j \in DOMAIN blocks
        BY <2>2, <3>1 DEF RecordInv, NoSharedRecord
      <3>2. ASSUME NEW k \in DOMAIN blocks, pc[t] = "hset", blocks[k].tenant = t
            PROVE  blocks[k].batch \cap acc[t] = {}
        <4>1. k \in Own(t)
          BY <3>2 DEF Own
        <4>. QED  BY <3>2, <4>1 DEF RecordInv, StoredRecords
      <3>3. CASE i \notin DOMAIN blocks
        BY <2>2, <2>p, <3>2, <3>3
      <3>4. CASE j \notin DOMAIN blocks
        BY <2>2, <2>p, <3>2, <3>4
      <3>. QED  BY <3>1, <3>3, <3>4
    <2>. QED  BY <1>0, <2>1, <2>7, <2>8 DEF RecordInv
  <1>. QED  BY <1>1, <1>2, UndisturbedStep

\* As long as nobody else changes Redis, no record is stored in two blocks, even
\* when insert_block reports a failure after Redis applied the command.
THEOREM RecordsStoredOnce == ASSUME Undisturbed PROVE Spec => []AtMostOnce
  <1>1. RecordInv /\ [Next]_vars => RecordInv'
    BY RecordStep
  <1>2. RecordInv => AtMostOnce
    BY DEF RecordInv, NoSharedRecord, AtMostOnce
  <1>. QED  BY RecordInit, <1>1, <1>2, PTL DEF Spec

-----------------------------------------------------------------------------
(* Resuming *)

\* As long as no error reply hides blocks from it, whatever else fails and
\* whatever Redis returns, a GPU enclave resumes only on a block whose head it
\* signed and that has the largest number stored.
THEOREM ResumesOnLast ==
    ASSUME "reply" \notin Faults
    PROVE  Spec => ResumesOnLastBlock
  <1>1. ASSUME TypeInv, [Next]_vars, NEW t \in Gpu, ~inited[t], inited'[t],
               <<num, latest>>' # <<num, latest>>
        PROVE  \E i \in Own(t) :
                 /\ blocks[i].root = latest'[t]
                 /\ blocks[i].number + 1 = num'[t]
                 /\ ChainHead(blocks[i].number, blocks[i].root) \in signed[t]
                 /\ \A k \in Own(t) : blocks[k].number <= blocks[i].number
    <2>0. TypeOK /\ t \in Tenants
      BY <1>1, ConstantsAssumption DEF TypeInv
    <2>1. GpuResume(t)
      <3>1. inited' # inited
        BY <1>1
      <3>2. \A u \in Tenants : Crash(u) => ~inited'[t]
        BY <1>1, <2>0 DEF Crash, TypeOK
      <3>3. \E u \in Tenants : GpuResume(u) \/ CpuResume(u)
        BY <1>1, <3>1, <3>2
           DEF Next, Flush, Export, InitConnectFails, Connect, Incr, Hset, Rpush,
               Merkle, StoreAnchorSig, StoreAnchor, Loss, Rewrite, vars, enclave
      <3>4. PICK u \in Tenants : GpuResume(u) \/ CpuResume(u)
        BY <3>3
      <3>5. inited' \in {inited, [inited EXCEPT ![u] = TRUE]}
        BY <3>4 DEF GpuResume, CpuResume
      <3>6. u = t
        BY <1>1, <2>0, <3>5 DEF TypeOK
      <3>. QED  BY <1>1, <3>4, <3>6 DEF CpuResume
    <2>2. PICK a \in AnchorRead(t), s \in LatestBlockState(t) :
            /\ DecideResume(a, s) = "resume"
            /\ num' = [num EXCEPT ![t] = NextNumber(a)]
            /\ latest' = [latest EXCEPT ![t] = a.root]
      BY <1>1, <2>1 DEF GpuResume
    <2>3. a.have /\ s.have /\ a.number = s.number /\ a.root = s.root
      BY <2>0, <2>2, AnchorFacts, LatestFacts DEF DecideResume, HeadType
    <2>4. s \in LatestOf(Own(t))
      BY <1>1, <2>3 DEF LatestBlockState, NoHead
    <2>4a. a \in signed[t]
      BY <2>2, <2>3 DEF AnchorRead, NoHead
    <2>5. Own(t) # {}
      BY <2>3, <2>4 DEF LatestOf, NoHead
    <2>6. PICK i \in Own(t) :
            /\ \A k \in Own(t) : blocks[k].number <= blocks[i].number
            /\ s = ChainHead(blocks[i].number, blocks[i].root)
      BY <2>4, <2>5 DEF LatestOf
    <2>7. num'[t] = a.number + 1 /\ latest'[t] = a.root
      BY <2>0, <2>2 DEF NextNumber, TypeOK
    <2>8. a = ChainHead(a.number, a.root)
      BY <2>0, <2>3, <2>4a DEF TypeOK, HeadType, ChainHead
    <2>. QED  BY <2>3, <2>4a, <2>6, <2>7, <2>8 DEF ChainHead
  <1>2. TypeInv /\ [Next]_vars =>
          [\A t \in Gpu :
              (~inited[t] /\ inited'[t] /\ <<num, latest>>' # <<num, latest>>)
                 => \E i \in Own(t) :
                      /\ blocks[i].root = latest'[t]
                      /\ blocks[i].number + 1 = num'[t]
                      /\ ChainHead(blocks[i].number, blocks[i].root) \in signed[t]
                      /\ "reply" \in Faults
                         \/ \A k \in Own(t) :
                               blocks[k].number <= blocks[i].number]_vars
    BY <1>1
  <1>. QED  BY TypeInit, TypeStep, <1>2, PTL DEF Spec, ResumesOnLastBlock

-----------------------------------------------------------------------------
(* The last block *)

LEMMA LeastNatural ==
    ASSUME NEW S \in SUBSET Nat, S # {}
    PROVE  \E m \in S : \A k \in S : m <= k
  <1>. DEFINE Less == {p \in Nat \X Nat : p[1] < p[2]}
  <1>1. Less = OpToRel(<, Nat)
    BY DEF OpToRel
  <1>2. \E m \in S : \A k \in S : ~ (<<k, m>> \in Less)
    <2>. HIDE DEF Less
    <2>. QED  BY <1>1, NatLessThanWellFounded, WFMin
  <1>3. PICK m \in S : \A k \in S : ~ (<<k, m>> \in Less)
    BY <1>2
  <1>4. ASSUME NEW k \in S PROVE m <= k
    <2>1. m \in Nat /\ k \in Nat /\ (k < m => <<k, m>> \in Less)
      OBVIOUS
    <2>. QED  BY <1>3, <2>1
  <1>. QED  BY <1>4

OnlyStops == Faults \subseteq {"crash"}

\* Block m is the last one of tenant t.
IsLast(t, m) == m \in Own(t) /\ \A k \in Own(t) : k <= m

LEMMA LastExists ==
    ASSUME TypeOK, NEW t \in Tenants, Own(t) # {}
    PROVE  \E m : IsLast(t, m)
  <1>. DEFINE Below == {counter - i : i \in Own(t)}
  <1>1. counter \in Nat /\ Own(t) \subseteq 1..counter
    BY DEF TypeOK, Own
  <1>2. Below \in SUBSET Nat /\ Below # {}
    BY <1>1
  <1>3. PICK d \in Below : \A k \in Below : d <= k
    <2>. HIDE DEF Below
    <2>. QED  BY <1>2, LeastNatural
  <1>4. PICK m \in Own(t) : d = counter - m
    OBVIOUS
  <1>5. ASSUME NEW k \in Own(t) PROVE k <= m
    <2>1. counter - k \in Below
      OBVIOUS
    <2>2. d <= counter - k
      BY <1>3, <2>1
    <2>. HIDE DEF Below
    <2>. QED  BY <1>1, <1>4, <2>2
  <1>. QED  BY <1>5 DEF IsLast

\* StoredLog is the root of the last block.
StoredLogIsLast ==
    \A t \in Tenants :
        /\ Own(t) = {} => StoredLog[t] = Zeros
        /\ Own(t) # {} => \E m : IsLast(t, m)
        /\ \A m : IsLast(t, m) => StoredLog[t] = blocks[m].root
        /\ StoredLog[t] \in Roots

LEMMA StoredLogFacts == TypeOK => StoredLogIsLast
  <1>. SUFFICES ASSUME TypeOK, NEW t \in Tenants
                PROVE  /\ Own(t) = {} => StoredLog[t] = Zeros
                       /\ Own(t) # {} => \E m : IsLast(t, m)
                       /\ \A m : IsLast(t, m) => StoredLog[t] = blocks[m].root
                       /\ StoredLog[t] \in Roots
    BY DEF StoredLogIsLast
  <1>1. Own(t) = {} => StoredLog[t] = Zeros
    BY DEF StoredLog
  <1>2. ASSUME NEW m, IsLast(t, m)
        PROVE  StoredLog[t] = blocks[m].root
    <2>1. LastBlock(t) = m
      <3>1. Own(t) \subseteq Nat
        BY DEF TypeOK, Own
      <3>2. LastBlock(t) \in Own(t) /\ \A k \in Own(t) : k <= LastBlock(t)
        BY <1>2 DEF LastBlock, IsLast
      <3>. QED  BY <1>2, <3>1, <3>2 DEF IsLast
    <2>. QED  BY <1>2, <2>1 DEF StoredLog, IsLast
  <1>3. StoredLog[t] \in Roots
    <2>1. CASE Own(t) = {}
      BY <1>1, <2>1, RootFacts
    <2>2. CASE Own(t) # {}
      <3>1. PICK m : IsLast(t, m)
        BY <2>2, LastExists
      <3>2. blocks[m].root \in Roots
        BY <3>1 DEF TypeOK, IsLast, Own, BlockType
      <3>. QED  BY <1>2, <3>1, <3>2
    <2>. QED  BY <2>1, <2>2
  <1>. QED  BY <1>1, <1>2, <1>3, LastExists

\* The records a root commits to.
Records(root) == UNION {root[k] : k \in 1..Len(root)}

LEMMA RecordsFacts ==
    /\ Records(Zeros) = {}
    /\ \A r \in Roots, b \in Batches : Records(ChainedRoot(r, b)) = Records(r) \cup b
    /\ \A t \in Tenants : Log!Logged(t) = Records(StoredLog[t])
  <1>1. Records(Zeros) = {}
    BY RootFacts DEF Records
  <1>2. ASSUME NEW r \in Roots, NEW b \in Batches
        PROVE  Records(ChainedRoot(r, b)) = Records(r) \cup b
    <2>1. /\ Len(r) \in Nat /\ Len(ChainedRoot(r, b)) = Len(r) + 1
          /\ \A k \in 1..Len(r) : ChainedRoot(r, b)[k] = r[k]
          /\ ChainedRoot(r, b)[Len(r) + 1] = b
      BY RootFacts
    <2>2. 1..(Len(r) + 1) = 1..Len(r) \cup {Len(r) + 1}
      BY <2>1
    <2>3. \A x : (\E k \in 1..Len(ChainedRoot(r, b)) : x \in ChainedRoot(r, b)[k])
                  <=> (\E k \in 1..Len(r) : x \in r[k]) \/ x \in b
      BY <2>1, <2>2
    <2>. QED  BY <2>3 DEF Records
  <1>3. \A t \in Tenants : Log!Logged(t) = Records(StoredLog[t])
    BY DEF Log!Logged, Records
  <1>. QED  BY <1>1, <1>2, <1>3

-----------------------------------------------------------------------------
(* The invariant *)

\* A block commits to one batch more than its predecessor, and the roots of a
\* tenant's blocks grow with the ids.
Formed(t) ==
    \A i \in Own(t) : /\ blocks[i].root = ChainedRoot(blocks[i].prev, blocks[i].batch)
                      /\ blocks[i].number = Len(blocks[i].prev)

Grows(t) ==
    \A i, j \in Own(t) : i < j => Len(blocks[i].root) < Len(blocks[j].root)

\* What an enclave knows: the head in its memory is the end of the log, or the
\* block before the one that it is storing.
Remembers(t) ==
    /\ num[t] = Len(latest[t])
    /\ IF inited[t]
       THEN /\ pc[t] # "init"
            /\ pc[t] \notin {"rpush", "merkle"} => latest[t] = StoredLog[t]
       ELSE pc[t] \in {"idle", "init"} /\ latest[t] = Zeros
    /\ pc[t] \in {"rpush", "merkle"} =>
          IsLast(t, bid[t]) /\ blocks[bid[t]] = Pending(t)
    /\ pc[t] = "merkle" => bid[t] \in full
    /\ pc[t] \in {"sig", "anchor"} =>
          Own(t) # {} /\ \A m \in Own(t) : IsLast(t, m) => m \in full

\* A signed head names a block whose records are all stored.
SignedBlocks(t) ==
    \A h \in signed[t] :
        h.have /\ \E i \in Own(t) : /\ blocks[i].number = h.number
                                    /\ blocks[i].root = h.root
                                    /\ i \in full

\* Records are numbered as they are produced, and those that wait for their
\* block are not in the log.
FreshRecords(t) ==
    /\ produced[t] <= MaxRecords
    /\ \A r \in acc[t] \cup Log!Logged(t) : r \in Nat /\ r < produced[t]
    /\ pc[t] \in {"idle", "init", "connect", "incr", "hset"} =>
          acc[t] \cap Log!Logged(t) = {}

ChainInv(t) == Formed(t) /\ Grows(t) /\ AuditChain(t) /\ Remembers(t)
                 /\ SignedBlocks(t) /\ FreshRecords(t)

LogInv == TypeInv /\ IdsAreFresh /\ \A t \in Tenants : ChainInv(t)

-----------------------------------------------------------------------------
(* The steps of a tenant when its enclave may only stop *)

KeepsHead(t)  == num'[t] = num[t] /\ latest'[t] = latest[t] /\ inited'[t] = inited[t]
KeepsBatch(t) == acc'[t] = acc[t] /\ produced'[t] = produced[t]
KeepsStore(t) == blocks' = blocks /\ full' = full /\ signed'[t] = signed[t]

Accumulates(t) ==
    /\ pc[t] = "idle"
    /\ pc'[t] \in {"idle", IF inited[t] THEN "connect" ELSE "init"}
    /\ KeepsHead(t) /\ KeepsStore(t)
    /\ \/ KeepsBatch(t)
       \/ /\ produced[t] < MaxRecords
          /\ produced'[t] = produced[t] + 1
          /\ acc'[t] = acc[t] \cup {produced[t]}

Resumes(t) ==
    /\ pc[t] = "init"
    /\ KeepsBatch(t) /\ KeepsStore(t)
    /\ \/ pc'[t] = "idle" /\ KeepsHead(t)
       \/ /\ pc'[t] = "connect" /\ inited'[t]
          /\ \/ /\ Own(t) = {}
                /\ num'[t] = num[t] /\ latest'[t] = latest[t]
             \/ \E i \in Own(t) :
                   /\ \A k \in Own(t) : blocks[k].number <= blocks[i].number
                   /\ num'[t] = blocks[i].number + 1
                   /\ latest'[t] = blocks[i].root

\* Steps of a flush that move neither head nor blocks.
Advances(t) ==
    /\ KeepsHead(t) /\ KeepsBatch(t)
    /\ \/ pc[t] = "connect" /\ pc'[t] = "incr" /\ KeepsStore(t)
       \/ pc[t] = "incr" /\ pc'[t] = "hset" /\ KeepsStore(t)
       \/ pc[t] = "sig" /\ pc'[t] = "anchor" /\ KeepsStore(t)
       \/ /\ pc[t] = "rpush" /\ pc'[t] = "merkle" /\ bid'[t] = bid[t]
          /\ blocks' = blocks /\ full' = full \cup {bid[t]} /\ signed'[t] = signed[t]

MovesHead(t) ==
    /\ num'[t] = num[t] + 1
    /\ latest'[t] = ChainedRoot(latest[t], acc[t])
    /\ inited'[t] = inited[t]
    /\ produced'[t] = produced[t]
    /\ \/ pc'[t] = "sig" /\ acc'[t] = acc[t]
       \/ pc'[t] = "idle" /\ acc'[t] = {}

Puts(t) ==
    /\ pc[t] = "hset"
    /\ PutBlock(t)
    /\ bid'[t] = bid[t] /\ signed'[t] = signed[t]
    /\ \/ MovesHead(t) /\ full' = full \cup {bid[t]}
       \/ KeepsHead(t) /\ KeepsBatch(t) /\ full' = full /\ pc'[t] = "rpush"

Finishes(t) == pc[t] = "merkle" /\ MovesHead(t) /\ KeepsStore(t)

Signs(t) ==
    /\ pc[t] = "anchor" /\ pc'[t] = "idle"
    /\ KeepsHead(t)
    /\ acc'[t] = {} /\ produced'[t] = produced[t]
    /\ blocks' = blocks /\ full' = full
    /\ signed'[t] = signed[t] \cup {MemoryHead(t)}

Stops(t) ==
    /\ pc'[t] = "idle" /\ ~inited'[t]
    /\ num'[t] = 0 /\ latest'[t] = Zeros
    /\ acc'[t] = {} /\ produced'[t] = produced[t]
    /\ KeepsStore(t)

LEMMA LatestWhenStopping ==
    ASSUME OnlyStops, NEW t \in Tenants, NEW s \in LatestBlockState(t)
    PROVE  IF s.have
           THEN \E i \in Own(t) : /\ \A k \in Own(t) : blocks[k].number <= blocks[i].number
                                  /\ s = ChainHead(blocks[i].number, blocks[i].root)
           ELSE Own(t) = {}
  <1>1. s \in LatestOf(Own(t))
    BY DEF OnlyStops, LatestBlockState
  <1>2. CASE Own(t) = {}
    BY <1>1, <1>2 DEF LatestOf, NoHead
  <1>3. CASE Own(t) # {}
    <2>1. PICK i \in Own(t) : /\ \A k \in Own(t) : blocks[k].number <= blocks[i].number
                              /\ s = ChainHead(blocks[i].number, blocks[i].root)
      BY <1>1, <1>3 DEF LatestOf
    <2>2. s.have
      BY <2>1 DEF ChainHead
    <2>. QED  BY <2>1, <2>2
  <1>. QED  BY <1>2, <1>3

LEMMA StoppingStep ==
    ASSUME OnlyStops, TypeInv, NEW t \in Tenants, OwnStep(t),
           pc[t] = "init" => ~inited[t]
    PROVE  Accumulates(t) \/ Resumes(t) \/ Advances(t) \/ Puts(t) \/ Finishes(t)
             \/ Signs(t) \/ Stops(t)
  <1>0. TypeOK
    BY DEF TypeInv
  <1>f. "connect" \notin Faults /\ "io" \notin Faults /\ "reply" \notin Faults
        /\ {"io", "reply"} \cap Faults = {}
    BY DEF OnlyStops
  <1>g. \A label \in Labels : Goto(t, label) => pc'[t] = label /\ acc' = acc
    BY <1>0 DEF Goto, TypeOK
  <1>e. EndFlush(t) => pc'[t] = "idle" /\ acc'[t] = {}
    BY <1>0 DEF EndFlush, TypeOK
  <1>i. ASSUME Inserted(t), inited' = inited, produced' = produced
        PROVE  MovesHead(t)
    <2>1. (pc'[t] = "sig" /\ acc'[t] = acc[t]) \/ (pc'[t] = "idle" /\ acc'[t] = {})
      BY <1>g, <1>e, <1>i DEF Inserted, Labels
    <2>2. num'[t] = num[t] + 1 /\ latest'[t] = ChainedRoot(latest[t], acc[t])
      BY <1>0, <1>i DEF Inserted, TypeOK
    <2>. QED  BY <1>i, <2>1, <2>2 DEF MovesHead
  <1>1. CASE Export(t)
    <2>1. pc'[t] \in {"idle", IF inited[t] THEN "connect" ELSE "init"} /\ pc[t] = "idle"
      BY <1>0, <1>1 DEF Export, TypeOK
    <2>2. KeepsHead(t) /\ KeepsStore(t)
      BY <1>1 DEF Export, KeepsHead, KeepsStore, redis
    <2>3. \/ KeepsBatch(t)
          \/ /\ produced[t] < MaxRecords
             /\ produced'[t] = produced[t] + 1
             /\ acc'[t] = acc[t] \cup {produced[t]}
      BY <1>0, <1>1 DEF Export, KeepsBatch, TypeOK
    <2>. QED  BY <2>1, <2>2, <2>3 DEF Accumulates
  <1>2. CASE InitConnectFails(t)
    BY <1>f, <1>2 DEF InitConnectFails
  <1>3. CASE GpuResume(t)
    <2>1. PICK a \in AnchorRead(t), s \in LatestBlockState(t) :
            \/ /\ DecideResume(a, s) = "resume"
               /\ num' = [num EXCEPT ![t] = NextNumber(a)]
               /\ latest' = [latest EXCEPT ![t] = a.root]
               /\ inited' = [inited EXCEPT ![t] = TRUE]
               /\ Goto(t, "connect")
            \/ /\ DecideResume(a, s) = "fresh"
               /\ inited' = [inited EXCEPT ![t] = TRUE]
               /\ Goto(t, "connect")
               /\ UNCHANGED <<num, latest>>
            \/ Goto(t, "idle") /\ UNCHANGED <<num, latest, inited>>
      BY <1>3 DEF GpuResume
    <2>2. pc[t] = "init" /\ KeepsStore(t) /\ KeepsBatch(t)
      BY <1>3 DEF GpuResume, KeepsStore, KeepsBatch, Goto, redis, history
    <2>3. CASE /\ DecideResume(a, s) = "resume"
               /\ num' = [num EXCEPT ![t] = NextNumber(a)]
               /\ latest' = [latest EXCEPT ![t] = a.root]
               /\ inited' = [inited EXCEPT ![t] = TRUE]
               /\ Goto(t, "connect")
      <3>1. s.have /\ a.number = s.number /\ a.root = s.root
        BY <2>3 DEF DecideResume
      <3>2. PICK i \in Own(t) : /\ \A k \in Own(t) : blocks[k].number <= blocks[i].number
                                /\ s = ChainHead(blocks[i].number, blocks[i].root)
        BY <3>1, LatestWhenStopping
      <3>3. num'[t] = blocks[i].number + 1 /\ latest'[t] = blocks[i].root
        BY <1>0, <2>3, <3>1, <3>2 DEF NextNumber, ChainHead, TypeOK
      <3>4. pc'[t] = "connect" /\ inited'[t]
        BY <1>0, <1>g, <2>3 DEF Labels, TypeOK
      <3>. QED  BY <2>2, <3>2, <3>3, <3>4 DEF Resumes
    <2>4. CASE /\ DecideResume(a, s) = "fresh"
               /\ inited' = [inited EXCEPT ![t] = TRUE]
               /\ Goto(t, "connect")
               /\ UNCHANGED <<num, latest>>
      <3>1. ~s.have
        BY <2>4 DEF DecideResume
      <3>2. Own(t) = {}
        BY <3>1, LatestWhenStopping
      <3>3. pc'[t] = "connect" /\ inited'[t]
        BY <1>0, <1>g, <2>4 DEF Labels, TypeOK
      <3>. QED  BY <2>2, <2>4, <3>2, <3>3 DEF Resumes
    <2>5. CASE Goto(t, "idle") /\ UNCHANGED <<num, latest, inited>>
      BY <1>g, <2>2, <2>5 DEF Resumes, KeepsHead, Labels
    <2>. QED  BY <2>1, <2>3, <2>4, <2>5
  <1>4. CASE CpuResume(t)
    <2>1. PICK s \in LatestBlockState(t) :
            IF s.have
            THEN /\ num' = [num EXCEPT ![t] = NextNumber(s)]
                 /\ latest' = [latest EXCEPT ![t] = s.root]
            ELSE UNCHANGED <<num, latest>>
      BY <1>4 DEF CpuResume
    <2>2. pc[t] = "init" /\ KeepsStore(t) /\ KeepsBatch(t)
      BY <1>4 DEF CpuResume, KeepsStore, KeepsBatch, Goto, redis, history
    <2>3. pc'[t] = "connect" /\ inited'[t]
      BY <1>0, <1>g, <1>4 DEF CpuResume, Labels, TypeOK
    <2>4. CASE s.have
      <3>1. PICK i \in Own(t) : /\ \A k \in Own(t) : blocks[k].number <= blocks[i].number
                                /\ s = ChainHead(blocks[i].number, blocks[i].root)
        BY <2>4, LatestWhenStopping
      <3>2. num'[t] = blocks[i].number + 1 /\ latest'[t] = blocks[i].root
        BY <1>0, <2>1, <2>4, <3>1 DEF NextNumber, ChainHead, TypeOK
      <3>. QED  BY <2>2, <2>3, <3>1, <3>2 DEF Resumes
    <2>5. CASE ~s.have
      <3>1. Own(t) = {}
        BY <2>5, LatestWhenStopping
      <3>. QED  BY <2>1, <2>2, <2>3, <2>5, <3>1 DEF Resumes
    <2>. QED  BY <2>4, <2>5
  <1>5. CASE Connect(t)
    <2>1. pc'[t] = "incr" /\ acc' = acc /\ pc[t] = "connect"
      BY <1>f, <1>g, <1>5 DEF Connect, Labels
    <2>. QED  BY <1>5, <2>1 DEF Connect, Advances, KeepsHead, KeepsBatch, KeepsStore, redis, history
  <1>6. CASE Incr(t)
    <2>1. pc'[t] = "hset" /\ acc' = acc /\ pc[t] = "incr"
      BY <1>f, <1>g, <1>6 DEF Incr, Labels
    <2>. QED  BY <1>6, <2>1 DEF Incr, Advances, KeepsHead, KeepsBatch, KeepsStore, history
  <1>7. CASE Hset(t)
    <2>1. /\ UNCHANGED <<inited, bid, signed, produced>>
          /\ pc[t] = "hset" /\ PutBlock(t)
          /\ \/ full' = full \cup {bid[t]} /\ Inserted(t)
             \/ Goto(t, "rpush") /\ UNCHANGED <<num, latest, full>>
      BY <1>f, <1>7 DEF Hset, history
    <2>2. CASE full' = full \cup {bid[t]} /\ Inserted(t)
      BY <1>i, <2>1, <2>2 DEF Puts
    <2>3. CASE Goto(t, "rpush") /\ UNCHANGED <<num, latest, full>>
      BY <1>g, <2>1, <2>3 DEF Puts, KeepsHead, KeepsBatch, Labels
    <2>. QED  BY <2>1, <2>2, <2>3
  <1>8. CASE Rpush(t)
    <2>1. full' = full \cup {bid[t]} /\ pc'[t] = "merkle" /\ acc' = acc /\ pc[t] = "rpush"
      BY <1>f, <1>g, <1>8 DEF Rpush, Labels
    <2>. QED  BY <1>8, <2>1 DEF Rpush, Advances, KeepsHead, KeepsBatch, history
  <1>9. CASE Merkle(t)
    <2>1. /\ Inserted(t) /\ pc[t] = "merkle" /\ UNCHANGED <<inited, redis, history>>
      BY <1>f, <1>9 DEF Merkle
    <2>2. MovesHead(t)
      BY <1>i, <2>1 DEF history
    <2>. QED  BY <2>1, <2>2 DEF Finishes, KeepsStore, redis, history
  <1>10. CASE StoreAnchorSig(t)
    <2>1. pc'[t] = "anchor" /\ acc' = acc /\ pc[t] = "sig"
      BY <1>g, <1>10 DEF StoreAnchorSig, Labels
    <2>. QED  BY <1>10, <2>1
              DEF StoreAnchorSig, Advances, KeepsHead, KeepsBatch, KeepsStore, history
  <1>11. CASE StoreAnchor(t)
    <2>1. signed' = [signed EXCEPT ![t] = @ \cup {MemoryHead(t)}]
      BY <1>f, <1>11 DEF StoreAnchor
    <2>2. signed'[t] = signed[t] \cup {MemoryHead(t)}
      BY <1>0, <2>1 DEF TypeOK
    <2>. QED  BY <1>e, <1>11, <2>2 DEF StoreAnchor, Signs, KeepsHead
  <1>12. CASE Crash(t)
    BY <1>0, <1>12 DEF Crash, Stops, KeepsStore, redis, history, TypeOK
  <1>. QED  BY <1>1, <1>2, <1>3, <1>4, <1>5, <1>6, <1>7, <1>8, <1>9, <1>10, <1>11, <1>12
            DEF OwnStep, Flush

-----------------------------------------------------------------------------
(* The chain *)

Chained(t) == Formed(t) /\ Grows(t) /\ AuditChain(t)

\* A new block goes to the end of the chain.
LEMMA ChainExtended ==
    ASSUME TypeInv, TypeInv', IdsAreFresh, NEW t \in Tenants,
           pc[t] = "hset", PutBlock(t), bid'[t] = bid[t], Chained(t),
           num[t] = Len(latest[t]), latest[t] = StoredLog[t]
    PROVE  /\ Chained(t)'
           /\ IsLast(t, bid[t])'
           /\ blocks'[bid[t]] = Pending(t)
           /\ StoredLog'[t] = ChainedRoot(latest[t], acc[t])
  <1>. DEFINE b == bid[t]
  <1>1. /\ b \in 1..counter /\ b \notin DOMAIN blocks /\ \A j \in Own(t) : j < b
        /\ latest[t] \in Roots /\ acc[t] \in Batches /\ num[t] \in Nat
        /\ Own(t) \subseteq Nat
    BY DEF TypeInv, TypeOK, IdsAreFresh, Own
  <1>2. /\ DOMAIN blocks' = DOMAIN blocks \cup {b}
        /\ blocks'[b] = Pending(t)
        /\ \A i \in DOMAIN blocks : blocks'[i] = blocks[i]
    BY <1>1, PutBlockTyped DEF TypeInv
  <1>3. /\ Pending(t).tenant = t /\ Pending(t).number = num[t]
        /\ Pending(t).prev = latest[t] /\ Pending(t).batch = acc[t]
        /\ Pending(t).root = ChainedRoot(latest[t], acc[t])
    BY DEF Pending, Block
  <1>4. Own(t)' = Own(t) \cup {b} /\ \A i \in Own(t) : blocks'[i] = blocks[i]
    BY <1>2, <1>3 DEF Own
  <1>5. IsLast(t, b)'
    BY <1>1, <1>4 DEF IsLast
  <1>6. StoredLog'[t] = ChainedRoot(latest[t], acc[t])
    <2>1. StoredLogIsLast'
      BY StoredLogFacts, PTL DEF TypeInv
    <2>2. StoredLog'[t] = blocks'[bid'[t]].root
      BY <1>5, <2>1 DEF StoredLogIsLast
    <2>. QED  BY <1>2, <1>3, <2>2
  <1>7. Formed(t)'
    BY <1>2, <1>3, <1>4 DEF Formed, Chained
  <1>8. \A m \in Own(t) : IsLast(t, m) => blocks[m].root = latest[t]
    BY StoredLogFacts DEF StoredLogIsLast, TypeInv
  <1>9. \A i \in Own(t) : Len(blocks[i].root) <= Len(latest[t])
    <2>. TAKE i \in Own(t)
    <2>1. PICK m : IsLast(t, m)
      BY StoredLogFacts DEF StoredLogIsLast, TypeInv
    <2>2. m \in Own(t) /\ i <= m /\ i \in Nat /\ m \in Nat
      BY <1>1, <2>1 DEF IsLast
    <2>3. blocks[i].root \in Roots /\ blocks[m].root \in Roots
      BY <2>2 DEF TypeInv, TypeOK, Own, BlockType
    <2>4. Len(blocks[i].root) \in Nat /\ Len(blocks[m].root) \in Nat
      BY <2>3, RootFacts
    <2>5. i = m \/ Len(blocks[i].root) < Len(blocks[m].root)
      BY <2>2 DEF Chained, Grows
    <2>. QED  BY <1>8, <2>1, <2>2, <2>4, <2>5
  <1>10. Grows(t)'
    <2>. SUFFICES ASSUME NEW i \in Own(t)', NEW j \in Own(t)', i < j
                  PROVE  Len(blocks'[i].root) < Len(blocks'[j].root)
      BY DEF Grows
    <2>1. i \in Own(t)
      BY <1>1, <1>4
    <2>2. CASE j \in Own(t)
      BY <1>4, <2>1, <2>2 DEF Chained, Grows
    <2>3. CASE j = b
      <3>1. Len(blocks[i].root) <= Len(latest[t])
        BY <1>9, <2>1
      <3>2. blocks[i].root \in Roots
        BY <2>1 DEF TypeInv, TypeOK, Own, BlockType
      <3>3. /\ Len(latest[t]) \in Nat /\ Len(blocks[i].root) \in Nat
            /\ Len(ChainedRoot(latest[t], acc[t])) = Len(latest[t]) + 1
        BY <1>1, <3>2, RootFacts
      <3>4. blocks'[j].root = ChainedRoot(latest[t], acc[t]) /\ blocks'[i] = blocks[i]
        BY <1>2, <1>3, <1>4, <2>1, <2>3
      <3>. QED  BY <3>1, <3>3, <3>4
    <2>. QED  BY <1>4, <2>2, <2>3
  <1>11. AuditChain(t)'
    <2>. SUFFICES ASSUME NEW i \in Own(t)', NEW j \in Own(t)',
                         i < j /\ ~ \E k \in Own(t)' : i < k /\ k < j
                  PROVE  /\ blocks'[j].prev = blocks'[i].root
                         /\ blocks'[j].root = ChainedRoot(blocks'[j].prev, blocks'[j].batch)
      BY DEF AuditChain
    <2>1. blocks'[j].root = ChainedRoot(blocks'[j].prev, blocks'[j].batch)
      BY <1>7 DEF Formed
    <2>2. i \in Own(t)
      BY <1>1, <1>4
    <2>3. CASE j \in Own(t)
      <3>1. ~ \E k \in Own(t) : i < k /\ k < j
        BY <1>4
      <3>2. blocks[j].prev = blocks[i].root
        BY <2>2, <2>3, <3>1 DEF Chained, AuditChain
      <3>. QED  BY <1>4, <2>1, <2>2, <2>3, <3>2
    <2>4. CASE j = b
      <3>1. IsLast(t, i)
        BY <1>1, <1>4, <2>2, <2>4 DEF IsLast
      <3>2. blocks[i].root = latest[t]
        BY <1>8, <2>2, <3>1
      <3>. QED  BY <1>2, <1>3, <1>4, <2>1, <2>2, <2>4, <3>2
    <2>. QED  BY <1>4, <2>3, <2>4
  <1>. QED  BY <1>2, <1>5, <1>6, <1>7, <1>10, <1>11 DEF Chained

\* The block with the largest number is the last one.
LEMMA LargestIsLast ==
    ASSUME TypeOK, NEW t \in Tenants, Formed(t), Grows(t), NEW i \in Own(t),
           \A k \in Own(t) : blocks[k].number <= blocks[i].number
    PROVE  IsLast(t, i) /\ Len(blocks[i].root) = blocks[i].number + 1
  <1>1. ASSUME NEW k \in Own(t)
        PROVE  /\ k \in Nat
               /\ blocks[k].number \in Nat
               /\ Len(blocks[k].root) = blocks[k].number + 1
    <2>1. k \in Nat /\ blocks[k].prev \in Roots /\ blocks[k].batch \in Batches
          /\ blocks[k].number \in Nat
      BY DEF TypeOK, Own, BlockType
    <2>2. blocks[k].root = ChainedRoot(blocks[k].prev, blocks[k].batch)
          /\ blocks[k].number = Len(blocks[k].prev)
      BY DEF Formed
    <2>3. Len(ChainedRoot(blocks[k].prev, blocks[k].batch)) = Len(blocks[k].prev) + 1
      BY <2>1, RootFacts
    <2>. QED  BY <2>1, <2>2, <2>3
  <1>2. ASSUME NEW k \in Own(t) PROVE k <= i
    <2>1. ~(i < k)
      BY <1>1 DEF Grows
    <2>. QED  BY <1>1, <2>1
  <1>. QED  BY <1>1, <1>2 DEF IsLast

LEMMA BlocksKept ==
    ASSUME blocks' = blocks, NEW u \in Tenants
    PROVE  /\ Own(u)' = Own(u)
           /\ StoredLog'[u] = StoredLog[u]
           /\ Chained(u) => Chained(u)'
           /\ Log!Logged(u)' = Log!Logged(u)
           /\ \A m : IsLast(u, m)' <=> IsLast(u, m)
  <1>1. Own(u)' = Own(u)
    BY DEF Own
  <1>2. StoredLog'[u] = StoredLog[u]
    BY <1>1 DEF StoredLog, LastBlock
  <1>3. Chained(u) => Chained(u)'
    BY <1>1 DEF Chained, Formed, Grows, AuditChain
  <1>. QED  BY <1>1, <1>2, <1>3 DEF IsLast, Log!Logged

\* A step of another tenant's enclave changes nothing that the invariant says
\* of tenant u.
LEMMA OthersKeepLog ==
    ASSUME OnlyStops, LogInv, TypeInv', NEW t \in Tenants, OwnStep(t),
           NEW u \in Tenants, u # t
    PROVE  ChainInv(u)' /\ Own(u)' = Own(u) /\ StoredLog'[u] = StoredLog[u]
  <1>1. StaysPut(u) /\ inited'[u] = inited[u]
    <2>1. inited'[u] = inited[u]
      BY DEF OwnStep, Flush, Export, InitConnectFails, GpuResume, CpuResume, Connect,
             Incr, Hset, Rpush, Merkle, StoreAnchorSig, StoreAnchor, Crash,
             LogInv, TypeInv, TypeOK
    <2>. QED  BY <2>1, OthersStayPut DEF LogInv, TypeInv
  <1>2. /\ Own(u)' = Own(u)
        /\ \A i \in Own(u) : blocks'[i] = blocks[i]
    BY StoreGrows DEF LogInv, Own
  <1>3. full \subseteq full'
    BY DEF OwnStep, Flush, Export, InitConnectFails, GpuResume, CpuResume, Connect,
           Incr, Hset, Rpush, Merkle, StoreAnchorSig, StoreAnchor, Crash, redis
  <1>4. StoredLog'[u] = StoredLog[u] /\ Log!Logged(u)' = Log!Logged(u)
    <2>1. Own(u)' # {} => LastBlock(u)' \in Own(u)
      <3>1. \A m : IsLast(u, m) => LastBlock(u) \in Own(u)
        BY DEF LastBlock, IsLast
      <3>2. LastBlock(u)' = LastBlock(u)
        BY <1>2 DEF LastBlock
      <3>. QED  BY <1>2, <3>1, <3>2, StoredLogFacts DEF StoredLogIsLast, LogInv, TypeInv
    <2>2. LastBlock(u)' = LastBlock(u)
      BY <1>2 DEF LastBlock
    <2>3. StoredLog'[u] = StoredLog[u]
      BY <1>2, <2>1, <2>2 DEF StoredLog
    <2>. QED  BY <2>3 DEF Log!Logged
  <1>5. ChainInv(u)
    BY DEF LogInv
  <1>6. Formed(u)' /\ Grows(u)' /\ AuditChain(u)'
    BY <1>2, <1>5 DEF ChainInv, Formed, Grows, AuditChain
  <1>7. Remembers(u)'
    <2>1. /\ pc'[u] = pc[u] /\ num'[u] = num[u] /\ latest'[u] = latest[u]
          /\ acc'[u] = acc[u] /\ bid'[u] = bid[u] /\ inited'[u] = inited[u]
      BY <1>1 DEF StaysPut
    <2>2. \A m : IsLast(u, m)' <=> IsLast(u, m)
      BY <1>2 DEF IsLast
    <2>3. IsLast(u, bid[u])' <=> IsLast(u, bid[u])
      BY <1>2, <2>1 DEF IsLast
    <2>4. Pending(u)' = Pending(u)
      BY <2>1 DEF Pending
    <2>5. pc[u] \in {"rpush", "merkle"} =>
            IsLast(u, bid[u])' /\ blocks'[bid'[u]] = Pending(u)'
      BY <1>2, <1>5, <2>1, <2>3, <2>4 DEF ChainInv, Remembers, IsLast
    <2>6. pc[u] \in {"sig", "anchor"} =>
            Own(u)' # {} /\ \A m \in Own(u)' : IsLast(u, m)' => m \in full'
      BY <1>2, <1>3, <1>5, <2>2 DEF ChainInv, Remembers
    <2>. QED  BY <1>3, <1>4, <1>5, <2>1, <2>5, <2>6 DEF ChainInv, Remembers
  <1>8. SignedBlocks(u)'
    <2>1. signed'[u] = signed[u]
      BY <1>1 DEF StaysPut
    <2>. QED  BY <1>2, <1>3, <1>5, <2>1 DEF ChainInv, SignedBlocks
  <1>9. FreshRecords(u)'
    <2>1. pc'[u] = pc[u] /\ acc'[u] = acc[u] /\ produced'[u] = produced[u]
      BY <1>1 DEF StaysPut
    <2>. QED  BY <1>4, <1>5, <2>1 DEF ChainInv, FreshRecords
  <1>. QED  BY <1>2, <1>4, <1>6, <1>7, <1>8, <1>9 DEF ChainInv

\* What a step of tenant t's own enclave does to its log.
Appends(t) ==
    /\ pc[t] = "hset"
    /\ StoredLog'[t] = ChainedRoot(StoredLog[t], acc[t])

LEMMA OwnKeepsLog ==
    ASSUME OnlyStops, LogInv, TypeInv', NEW t \in Tenants, OwnStep(t)
    PROVE  ChainInv(t)' /\ (StoredLog'[t] = StoredLog[t] \/ Appends(t))
  <1>0. /\ ChainInv(t) /\ Chained(t) /\ TypeOK /\ TypeOK'
        /\ pc[t] = "init" => ~inited[t]
        /\ num[t] \in Nat /\ latest[t] \in Roots /\ acc[t] \in Batches
        /\ StoredLog[t] \in Roots
        /\ produced[t] \in Nat /\ MaxRecords \in Nat
    BY StoredLogFacts, ConstantsAssumption
       DEF LogInv, ChainInv, Chained, Remembers, TypeInv, TypeOK, StoredLogIsLast
  <1>r. /\ Log!Logged(t) = Records(StoredLog[t])
        /\ Log!Logged(t)' = Records(StoredLog'[t])
    <2>1. \A u \in Tenants : Log!Logged(u) = Records(StoredLog[u])
      BY RecordsFacts
    <2>2. \A u \in Tenants : Log!Logged(u)' = Records(StoredLog'[u])
      BY DEF Log!Logged, Records
    <2>. QED  BY <2>1, <2>2
  <1>k. ASSUME blocks' = blocks
        PROVE  /\ Own(t)' = Own(t) /\ StoredLog'[t] = StoredLog[t] /\ Chained(t)'
               /\ Log!Logged(t)' = Log!Logged(t)
               /\ \A m : IsLast(t, m)' <=> IsLast(t, m)
    BY <1>0, <1>k, BlocksKept
  <1>s. ASSUME blocks' = blocks, full \subseteq full', signed'[t] = signed[t]
        PROVE  SignedBlocks(t)'
    BY <1>0, <1>k, <1>s DEF ChainInv, SignedBlocks
  <1>1. CASE Accumulates(t)
    <2>1. Remembers(t)'
      BY <1>0, <1>1, <1>k DEF Accumulates, ChainInv, Remembers, KeepsHead, KeepsStore
    <2>2. FreshRecords(t)'
      <3>1. \A r \in Log!Logged(t) : r \in Nat /\ r < produced[t]
        BY <1>0 DEF ChainInv, FreshRecords
      <3>2. pc[t] = "idle" /\ Log!Logged(t)' = Log!Logged(t)
        BY <1>1, <1>k DEF Accumulates, KeepsStore
      <3>3. CASE KeepsBatch(t)
        BY <1>0, <3>1, <3>2, <3>3 DEF ChainInv, FreshRecords, KeepsBatch
      <3>4. CASE /\ produced[t] < MaxRecords
                 /\ produced'[t] = produced[t] + 1
                 /\ acc'[t] = acc[t] \cup {produced[t]}
        BY <1>0, <3>1, <3>2, <3>4 DEF ChainInv, FreshRecords
      <3>. QED  BY <1>1, <3>3, <3>4 DEF Accumulates
    <2>. QED  BY <1>1, <1>k, <1>s, <2>1, <2>2 DEF Accumulates, KeepsStore, ChainInv, Chained
  <1>2. CASE Resumes(t)
    <2>1. Remembers(t)'
      <3>1. CASE pc'[t] = "idle" /\ KeepsHead(t)
        BY <1>0, <1>2, <1>k, <3>1 DEF Resumes, ChainInv, Remembers, KeepsHead, KeepsStore
      <3>2. CASE /\ pc'[t] = "connect" /\ inited'[t] /\ Own(t) = {}
                 /\ num'[t] = num[t] /\ latest'[t] = latest[t]
        <4>1. latest[t] = Zeros /\ num[t] = Len(latest[t])
          BY <1>0, <1>2 DEF Resumes, ChainInv, Remembers
        <4>2. StoredLog[t] = Zeros
          BY <1>0, <3>2, StoredLogFacts DEF StoredLogIsLast
        <4>. QED  BY <1>2, <1>k, <3>2, <4>1, <4>2 DEF Resumes, Remembers, KeepsStore
      <3>3. ASSUME pc'[t] = "connect", inited'[t],
                   NEW i \in Own(t), \A k \in Own(t) : blocks[k].number <= blocks[i].number,
                   num'[t] = blocks[i].number + 1, latest'[t] = blocks[i].root
            PROVE  Remembers(t)'
        <4>1. IsLast(t, i) /\ Len(blocks[i].root) = blocks[i].number + 1
          BY <1>0, <3>3, LargestIsLast DEF Chained
        <4>2. StoredLog[t] = blocks[i].root
          BY <1>0, <4>1, StoredLogFacts DEF StoredLogIsLast
        <4>. QED  BY <1>2, <1>k, <3>3, <4>1, <4>2 DEF Resumes, Remembers, KeepsStore
      <3>. QED  BY <1>2, <3>1, <3>2, <3>3 DEF Resumes
    <2>2. FreshRecords(t)'
      BY <1>0, <1>2, <1>k DEF Resumes, ChainInv, FreshRecords, KeepsBatch, KeepsStore
    <2>. QED  BY <1>2, <1>k, <1>s, <2>1, <2>2 DEF Resumes, KeepsStore, ChainInv, Chained
  <1>3. CASE Advances(t)
    <2>0. blocks' = blocks /\ full \subseteq full' /\ signed'[t] = signed[t]
      BY <1>3 DEF Advances, KeepsStore
    <2>1. Remembers(t)'
      <3>0. /\ num'[t] = Len(latest'[t]) /\ inited'[t] = inited[t] /\ inited[t]
            /\ latest'[t] = latest[t] /\ acc'[t] = acc[t] /\ num'[t] = num[t]
        BY <1>0, <1>3 DEF Advances, KeepsHead, KeepsBatch, ChainInv, Remembers
      <3>1. CASE pc[t] = "rpush" /\ pc'[t] = "merkle" /\ bid'[t] = bid[t]
                 /\ full' = full \cup {bid[t]}
        <4>1. IsLast(t, bid[t]) /\ blocks[bid[t]] = Pending(t)
          BY <1>0, <3>1 DEF ChainInv, Remembers
        <4>2. IsLast(t, bid[t])' /\ blocks'[bid'[t]] = Pending(t)'
          BY <1>k, <2>0, <3>0, <3>1, <4>1 DEF IsLast, Pending
        <4>. QED  BY <3>0, <3>1, <4>2 DEF Remembers
      <3>2. CASE pc[t] = "sig" /\ pc'[t] = "anchor"
        BY <1>0, <1>k, <2>0, <3>0, <3>2 DEF ChainInv, Remembers
      <3>3. CASE pc[t] \in {"connect", "incr"} /\ pc'[t] \in {"incr", "hset"}
        BY <1>0, <1>k, <2>0, <3>0, <3>3 DEF ChainInv, Remembers
      <3>. QED  BY <1>3, <3>1, <3>2, <3>3 DEF Advances
    <2>2. FreshRecords(t)'
      BY <1>0, <1>3, <1>k, <2>0 DEF Advances, ChainInv, FreshRecords, KeepsBatch
    <2>. QED  BY <1>k, <1>s, <2>0, <2>1, <2>2 DEF ChainInv, Chained
  <1>4. CASE Puts(t)
    <2>0. /\ num[t] = Len(latest[t]) /\ latest[t] = StoredLog[t] /\ inited[t]
          /\ pc[t] = "hset" /\ PutBlock(t) /\ bid'[t] = bid[t] /\ signed'[t] = signed[t]
          /\ full \subseteq full'
      BY <1>0, <1>4 DEF Puts, ChainInv, Remembers
    <2>1. /\ Chained(t)' /\ IsLast(t, bid[t])' /\ blocks'[bid[t]] = Pending(t)
          /\ StoredLog'[t] = ChainedRoot(latest[t], acc[t])
      BY <1>0, <2>0, ChainExtended DEF LogInv
    <2>2. Own(t) \subseteq Own(t)' /\ \A i \in Own(t) : blocks'[i] = blocks[i]
      BY StoreGrows DEF LogInv, Own
    <2>3. SignedBlocks(t)'
      BY <1>0, <2>0, <2>2 DEF ChainInv, SignedBlocks
    <2>4. Log!Logged(t)' = Log!Logged(t) \cup acc[t]
      BY <1>0, <1>r, <2>0, <2>1, RecordsFacts
    <2>5. CASE MovesHead(t) /\ full' = full \cup {bid[t]}
      <3>1. latest'[t] = StoredLog'[t] /\ num'[t] = Len(latest'[t])
        BY <1>0, <2>0, <2>1, <2>5, RootFacts, SMTT(30) DEF MovesHead
      <3>2. \A m \in Own(t)' : IsLast(t, m)' => m \in full'
        <4>1. \A m \in Own(t)' : IsLast(t, m)' => m = bid[t]
          <5>1. Own(t)' \subseteq Nat
            BY <1>0 DEF TypeOK, Own
          <5>. QED  BY <2>0, <2>1, <5>1 DEF IsLast
        <4>. QED  BY <2>5, <4>1
      <3>3. Remembers(t)'
        BY <2>0, <2>1, <2>5, <3>1, <3>2 DEF MovesHead, Remembers, IsLast
      <3>4. FreshRecords(t)'
        BY <1>0, <2>4, <2>5 DEF MovesHead, ChainInv, FreshRecords
      <3>. QED  BY <2>0, <2>1, <2>3, <3>3, <3>4 DEF ChainInv, Chained, Appends
    <2>6. CASE KeepsHead(t) /\ KeepsBatch(t) /\ full' = full /\ pc'[t] = "rpush"
      <3>1. Pending(t)' = Pending(t)
        BY <2>6 DEF KeepsHead, KeepsBatch, Pending
      <3>2. Remembers(t)'
        BY <2>0, <2>1, <2>6, <3>1 DEF KeepsHead, Remembers
      <3>3. FreshRecords(t)'
        BY <1>0, <2>4, <2>6 DEF KeepsBatch, ChainInv, FreshRecords
      <3>. QED  BY <2>0, <2>1, <2>3, <3>2, <3>3 DEF ChainInv, Chained, Appends
    <2>. QED  BY <1>4, <2>5, <2>6 DEF Puts
  <1>5. CASE Finishes(t)
    <2>0. /\ num[t] = Len(latest[t]) /\ inited[t] /\ bid[t] \in full
          /\ IsLast(t, bid[t]) /\ blocks[bid[t]] = Pending(t)
          /\ blocks' = blocks /\ full' = full /\ signed'[t] = signed[t]
      BY <1>0, <1>5 DEF Finishes, KeepsStore, ChainInv, Remembers
    <2>1. StoredLog[t] = ChainedRoot(latest[t], acc[t])
      BY <1>0, <2>0, StoredLogFacts DEF StoredLogIsLast, Pending, Block
    <2>2. latest'[t] = StoredLog'[t] /\ num'[t] = Len(latest'[t])
      BY <1>0, <1>5, <1>k, <2>0, <2>1, RootFacts DEF Finishes, MovesHead
    <2>3. \A m \in Own(t)' : IsLast(t, m)' => m \in full'
      <3>1. Own(t) \subseteq Nat
        BY <1>0 DEF TypeOK, Own
      <3>2. \A m \in Own(t) : IsLast(t, m) => m = bid[t]
        BY <2>0, <3>1 DEF IsLast
      <3>. QED  BY <1>k, <2>0, <3>2
    <2>4. Remembers(t)'
      BY <1>5, <1>k, <2>0, <2>2, <2>3 DEF Finishes, MovesHead, Remembers, IsLast
    <2>5. FreshRecords(t)'
      BY <1>0, <1>5, <1>k, <2>0 DEF Finishes, MovesHead, ChainInv, FreshRecords
    <2>. QED  BY <1>k, <1>s, <2>0, <2>4, <2>5 DEF ChainInv, Chained
  <1>6. CASE Signs(t)
    <2>0. /\ num[t] = Len(latest[t]) /\ inited[t] /\ latest[t] = StoredLog[t]
          /\ Own(t) # {} /\ \A m \in Own(t) : IsLast(t, m) => m \in full
          /\ blocks' = blocks /\ full' = full
      BY <1>0, <1>6 DEF Signs, ChainInv, Remembers
    <2>1. PICK m : IsLast(t, m) /\ StoredLog[t] = blocks[m].root
      BY <1>0, <2>0, StoredLogFacts DEF StoredLogIsLast
    <2>2. m \in Own(t) /\ m \in full
      BY <2>0, <2>1 DEF IsLast
    <2>3. blocks[m].number = num[t] - 1
      <3>1. /\ blocks[m].prev \in Roots /\ blocks[m].batch \in Batches
            /\ blocks[m].number \in Nat
        BY <1>0, <2>2 DEF TypeOK, Own, BlockType
      <3>2. /\ blocks[m].root = ChainedRoot(blocks[m].prev, blocks[m].batch)
            /\ blocks[m].number = Len(blocks[m].prev)
        BY <1>0, <2>2 DEF Chained, Formed
      <3>3. Len(blocks[m].root) = blocks[m].number + 1
        BY <3>1, <3>2, RootFacts
      <3>. QED  BY <2>0, <2>1, <3>1, <3>3
    <2>4. SignedBlocks(t)'
      <3>1. /\ MemoryHead(t).have /\ MemoryHead(t).number = blocks[m].number
            /\ MemoryHead(t).root = blocks[m].root
        BY <2>0, <2>1, <2>3 DEF MemoryHead, ChainHead
      <3>2. \A h \in signed'[t] : h \in signed[t] \/ h = MemoryHead(t)
        BY <1>6 DEF Signs
      <3>. QED  BY <1>0, <1>k, <2>0, <2>2, <3>1, <3>2 DEF ChainInv, SignedBlocks
    <2>5. Remembers(t)'
      BY <1>6, <1>k, <2>0 DEF Signs, KeepsHead, Remembers
    <2>6. FreshRecords(t)'
      BY <1>0, <1>6, <1>k, <2>0 DEF Signs, ChainInv, FreshRecords
    <2>. QED  BY <1>k, <2>0, <2>4, <2>5, <2>6 DEF ChainInv, Chained
  <1>7. CASE Stops(t)
    <2>1. Remembers(t)'
      BY <1>7, RootFacts DEF Stops, Remembers
    <2>2. FreshRecords(t)'
      BY <1>0, <1>7, <1>k DEF Stops, KeepsStore, ChainInv, FreshRecords
    <2>. QED  BY <1>7, <1>k, <1>s, <2>1, <2>2 DEF Stops, KeepsStore, ChainInv, Chained
  <1>. QED  BY <1>0, <1>1, <1>2, <1>3, <1>4, <1>5, <1>6, <1>7, StoppingStep DEF LogInv

LEMMA LogInit == Init => LogInv
  <1>. SUFFICES ASSUME Init PROVE LogInv
    OBVIOUS
  <1>1. TypeInv /\ IdsAreFresh
    BY StoreInit DEF StoreInv
  <1>2. ASSUME NEW t \in Tenants PROVE ChainInv(t)
    <2>1. /\ pc[t] = "idle" /\ acc[t] = {} /\ num[t] = 0 /\ latest[t] = Zeros
          /\ ~inited[t] /\ produced[t] = 0 /\ signed[t] = {}
      BY DEF Init
    <2>2. Own(t) = {}
      BY DEF Init, Own
    <2>3. StoredLog[t] = Zeros
      BY <1>1, <2>2, StoredLogFacts DEF TypeInv, StoredLogIsLast
    <2>4. Log!Logged(t) = {}
      BY <2>3, RecordsFacts
    <2>5. Formed(t) /\ Grows(t) /\ AuditChain(t) /\ SignedBlocks(t)
      BY <2>1, <2>2 DEF Formed, Grows, AuditChain, SignedBlocks
    <2>6. Remembers(t)
      BY <2>1, RootFacts DEF Remembers
    <2>7. FreshRecords(t)
      BY <2>1, <2>4, ConstantsAssumption DEF FreshRecords
    <2>. QED  BY <2>5, <2>6, <2>7 DEF ChainInv
  <1>. QED  BY <1>1, <1>2 DEF LogInv

\* Every step extends at most one tenant's log.
ExtendsOneLog ==
    \/ \A u \in Tenants : StoredLog'[u] = StoredLog[u]
    \/ \E t \in Tenants : /\ Appends(t)
                          /\ \A u \in Tenants \ {t} : StoredLog'[u] = StoredLog[u]

LEMMA LogStep ==
    ASSUME OnlyStops, LogInv, [Next]_vars
    PROVE  LogInv' /\ ExtendsOneLog
  <1>0. TypeInv' /\ Undisturbed
    BY TypeStep DEF LogInv, OnlyStops, Undisturbed
  <1>1. ASSUME NEW t \in Tenants, OwnStep(t)
        PROVE  LogInv' /\ ExtendsOneLog
    <2>1. IdsAreFresh'
      BY <1>1, IdsStep DEF LogInv
    <2>2. ChainInv(t)' /\ (StoredLog'[t] = StoredLog[t] \/ Appends(t))
      BY <1>0, <1>1, OwnKeepsLog
    <2>3. \A u \in Tenants \ {t} : ChainInv(u)' /\ StoredLog'[u] = StoredLog[u]
      BY <1>0, <1>1, OthersKeepLog
    <2>. QED  BY <1>0, <2>1, <2>2, <2>3 DEF LogInv, ExtendsOneLog
  <1>2. CASE UNCHANGED vars
    <2>1. \A u \in Tenants : StoredLog'[u] = StoredLog[u] /\ ChainInv(u)'
      <3>. SUFFICES ASSUME NEW u \in Tenants
                    PROVE  StoredLog'[u] = StoredLog[u] /\ ChainInv(u)'
        OBVIOUS
      <3>0. /\ blocks' = blocks /\ full' = full /\ pc' = pc /\ acc' = acc /\ num' = num
            /\ latest' = latest /\ inited' = inited /\ bid' = bid
            /\ produced' = produced /\ signed' = signed
        BY <1>2 DEF vars, enclave, redis, history
      <3>1. /\ Own(u)' = Own(u) /\ StoredLog'[u] = StoredLog[u]
            /\ Log!Logged(u)' = Log!Logged(u)
            /\ \A m : IsLast(u, m)' <=> IsLast(u, m)
        BY <3>0, BlocksKept
      <3>2. ChainInv(u)
        BY DEF LogInv
      <3>3. Formed(u)' /\ Grows(u)' /\ AuditChain(u)'
        BY <3>0, <3>1, <3>2 DEF ChainInv, Formed, Grows, AuditChain
      <3>4. IsLast(u, bid[u])' <=> IsLast(u, bid[u])
        BY <3>0, <3>1 DEF IsLast
      <3>5. Remembers(u)'
        BY <3>0, <3>1, <3>2, <3>4 DEF ChainInv, Remembers, Pending
      <3>6. SignedBlocks(u)' /\ FreshRecords(u)'
        BY <3>0, <3>1, <3>2 DEF ChainInv, SignedBlocks, FreshRecords
      <3>. QED  BY <3>1, <3>3, <3>5, <3>6 DEF ChainInv
    <2>2. IdsAreFresh'
      BY <1>2 DEF LogInv, IdsAreFresh, Own, vars, enclave, redis
    <2>. QED  BY <1>0, <2>1, <2>2 DEF LogInv, ExtendsOneLog
  <1>. QED  BY <1>0, <1>1, <1>2, UndisturbedStep

-----------------------------------------------------------------------------
(* The theorems *)

\* Wherever enclaves stop and start again, the audit script finds no broken
\* link in any tenant's chain.
THEOREM StopsPassTheAudit == ASSUME OnlyStops PROVE Spec => []AuditAccepts
  <1>1. LogInv /\ [Next]_vars => LogInv'
    BY LogStep
  <1>2. LogInv => AuditAccepts
    BY DEF LogInv, ChainInv, AuditAccepts
  <1>. QED  BY LogInit, <1>1, <1>2, PTL DEF Spec

\* Wherever enclaves stop and start again, none signs two heads with the same
\* block number.
THEOREM OneHeadPerNumber == ASSUME OnlyStops PROVE Spec => []SealedOnce
  <1>1. LogInv /\ [Next]_vars => LogInv'
    BY LogStep
  <1>2. ASSUME LogInv, NEW t \in Tenants, NEW g \in signed[t], NEW h \in signed[t],
               g.number = h.number
        PROVE  g = h
    <2>0. TypeOK /\ Formed(t) /\ Grows(t) /\ SignedBlocks(t)
      BY <1>2 DEF LogInv, ChainInv, TypeInv
    <2>1. PICK i \in Own(t) : blocks[i].number = g.number /\ blocks[i].root = g.root
      BY <2>0 DEF SignedBlocks
    <2>2. PICK j \in Own(t) : blocks[j].number = h.number /\ blocks[j].root = h.root
      BY <2>0 DEF SignedBlocks
    <2>3. ASSUME NEW k \in Own(t)
          PROVE  k \in Nat /\ Len(blocks[k].root) = blocks[k].number + 1
                 /\ blocks[k].number \in Nat
      <3>1. k \in Nat /\ blocks[k].prev \in Roots /\ blocks[k].batch \in Batches
            /\ blocks[k].number \in Nat
        BY <2>0 DEF TypeOK, Own, BlockType
      <3>2. blocks[k].root = ChainedRoot(blocks[k].prev, blocks[k].batch)
            /\ blocks[k].number = Len(blocks[k].prev)
        BY <2>0 DEF Formed
      <3>. QED  BY <3>1, <3>2, RootFacts, SMTT(30)
    <2>4. i = j
      <3>1. ~(i < j) /\ ~(j < i)
        BY <1>2, <2>0, <2>1, <2>2, <2>3 DEF Grows
      <3>. QED  BY <2>3, <3>1
    <2>5. g.root = h.root /\ g.have = TRUE /\ h.have = TRUE
      <3>1. g.have /\ h.have
        BY <2>0 DEF SignedBlocks
      <3>2. g.have \in BOOLEAN /\ h.have \in BOOLEAN
        BY <2>0 DEF TypeOK, HeadType
      <3>. QED  BY <2>1, <2>2, <2>4, <3>1, <3>2
    <2>6. g \in HeadType /\ h \in HeadType
      BY <2>0 DEF TypeOK
    <2>. QED  BY <1>2, <2>5, <2>6 DEF HeadType
  <1>3. LogInv => SealedOnce
    BY <1>2 DEF SealedOnce
  <1>. QED  BY LogInit, <1>1, <1>3, PTL DEF Spec

\* A head is signed only for a stored block all of whose records are in Redis,
\* wherever enclaves stop and start again.
THEOREM SignedBlocksAreComplete == ASSUME OnlyStops PROVE Spec => []SignedIsComplete
  <1>1. LogInv /\ [Next]_vars => LogInv'
    BY LogStep
  <1>2. LogInv => SignedIsComplete
    BY DEF LogInv, ChainInv, SignedBlocks, SignedIsComplete
  <1>. QED  BY LogInit, <1>1, <1>2, PTL DEF Spec

\* When enclaves only stop and start again, what they store implements a log
\* for each tenant that grows at its end and repeats no record.
THEOREM StoresALog == ASSUME OnlyStops PROVE Spec => ImplementsLog
  <1>1. LogInv /\ [Next]_vars => LogInv'
    BY LogStep
  <1>2. Init => Log!LogInit
    <2>. SUFFICES ASSUME Init PROVE Log!LogInit
      OBVIOUS
    <2>1. \A t \in Tenants : Own(t) = {}
      BY DEF Init, Own
    <2>. QED  BY <2>1 DEF Log!LogInit, StoredLog, Zeros
  <1>3. ASSUME LogInv, [Next]_vars
        PROVE  [Log!LogNext]_StoredLog
    <2>0. /\ StoredLog = [u \in Tenants |-> StoredLog[u]]
          /\ StoredLog' = [u \in Tenants |-> StoredLog'[u]]
      BY DEF StoredLog
    <2>1. ExtendsOneLog
      BY <1>3, LogStep
    <2>2. CASE \A u \in Tenants : StoredLog'[u] = StoredLog[u]
      <3>1. StoredLog' = StoredLog
        <4>. HIDE DEF StoredLog
        <4>. QED  BY <2>0, <2>2
      <3>. QED  BY <3>1
    <2>3. ASSUME NEW t \in Tenants, Appends(t),
                 \A u \in Tenants \ {t} : StoredLog'[u] = StoredLog[u]
          PROVE  Log!LogNext
      <3>1. StoredLog' = [StoredLog EXCEPT ![t] = Append(@, acc[t])]
        <4>. HIDE DEF StoredLog
        <4>1. StoredLog'[t] = Append(StoredLog[t], acc[t])
          BY <2>3 DEF Appends, ChainedRoot
        <4>. QED  BY <2>0, <2>3, <4>1
      <3>2. acc[t] \in SUBSET ((0..MaxRecords) \ Log!Logged(t))
        <4>1. FreshRecords(t) /\ produced[t] \in Nat
          BY <1>3 DEF LogInv, ChainInv, TypeInv, TypeOK
        <4>2. acc[t] \cap Log!Logged(t) = {}
          BY <2>3, <4>1 DEF Appends, FreshRecords
        <4>3. \A r \in acc[t] : r \in 0..MaxRecords
          BY <4>1, ConstantsAssumption DEF FreshRecords
        <4>. QED  BY <4>2, <4>3
      <3>3. Log!Extend(t)
        BY <3>1, <3>2 DEF Log!Extend
      <3>. QED  BY <3>3 DEF Log!LogNext
    <2>. QED  BY <2>1, <2>2, <2>3 DEF ExtendsOneLog
  <1>. QED  BY LogInit, <1>1, <1>2, <1>3, PTL DEF Spec, ImplementsLog, Log!LogSpec

\* When an enclave stops between storing a block and storing the anchor for
\* it, no block is ever added to that chain again.
THEOREM LagIsFinal == ASSUME OnlyStops PROVE Spec => LaggingIsFinal
  <1>1. LogInv /\ [Next]_vars => LogInv'
    BY LogStep
  <1>2. ASSUME LogInv, [Next]_vars, NEW u \in Tenants, Lagging(u)
        PROVE  Lagging(u)' /\ Own(u)' = Own(u)
    <2>0. /\ TypeOK /\ ChainInv(u) /\ Undisturbed
          /\ u \in Gpu /\ Own(u) # {} /\ ~inited[u]
          /\ \A i : IsLast(u, i) => blocks[i].root # anchor[u].root
      BY <1>2 DEF LogInv, TypeInv, Lagging, IsLast, OnlyStops, Undisturbed
    <2>1. pc[u] \in {"idle", "init"}
      BY <2>0 DEF ChainInv, Remembers
    <2>2. ASSUME Own(u)' = Own(u), \A i \in Own(u) : blocks'[i] = blocks[i],
                 anchor'[u] = anchor[u], ~inited'[u]
          PROVE  Lagging(u)' /\ Own(u)' = Own(u)
      BY <2>0, <2>2 DEF Lagging, IsLast
    <2>3. CASE UNCHANGED vars
      BY <2>0, <2>2, <2>3 DEF vars, enclave, redis, Own
    <2>4. ASSUME NEW t \in Tenants, OwnStep(t), t # u
          PROVE  Lagging(u)' /\ Own(u)' = Own(u)
      <3>1. anchor'[u] = anchor[u]
        BY <2>0, <2>4, OthersStayPut DEF StaysPut
      <3>2. inited'[u] = inited[u]
        BY <2>0, <2>4
           DEF OwnStep, Flush, Export, InitConnectFails, GpuResume, CpuResume, Connect,
               Incr, Hset, Rpush, Merkle, StoreAnchorSig, StoreAnchor, Crash, TypeOK
      <3>3. Own(u)' = Own(u) /\ \A i \in Own(u) : blocks'[i] = blocks[i]
        BY <1>2, <2>4, StoreGrows DEF LogInv, Own
      <3>. QED  BY <2>0, <2>2, <3>1, <3>2, <3>3
    <2>5. CASE OwnStep(u)
      <3>1. Export(u) \/ GpuResume(u) \/ Crash(u)
        BY <2>0, <2>1, <2>5
           DEF OwnStep, Flush, InitConnectFails, CpuResume, Connect, Incr, Hset, Rpush,
               Merkle, StoreAnchorSig, StoreAnchor, OnlyStops
      <3>2. blocks' = blocks /\ anchor' = anchor
        BY <3>1 DEF Export, GpuResume, Crash, redis
      <3>3. ~inited'[u]
        <4>1. CASE Export(u) \/ Crash(u)
          BY <2>0, <4>1 DEF Export, Crash, TypeOK
        <4>2. CASE GpuResume(u)
          <5>1. PICK a \in AnchorRead(u), s \in LatestBlockState(u) :
                  DecideResume(a, s) \in {"resume", "fresh"} \/ inited' = inited
            BY <4>2 DEF GpuResume
          <5>2. IF s.have
                THEN \E i \in Own(u) : /\ \A k \in Own(u) : blocks[k].number <= blocks[i].number
                                       /\ s = ChainHead(blocks[i].number, blocks[i].root)
                ELSE Own(u) = {}
            BY LatestWhenStopping
          <5>3. PICK i \in Own(u) : /\ \A k \in Own(u) : blocks[k].number <= blocks[i].number
                                    /\ s = ChainHead(blocks[i].number, blocks[i].root)
            BY <2>0, <5>2
          <5>4. IsLast(u, i)
            BY <2>0, <5>3, LargestIsLast DEF ChainInv
          <5>5. s.have /\ s.root # anchor[u].root
            BY <2>0, <5>3, <5>4 DEF ChainHead
          <5>6. a.have => a = anchor[u]
            BY DEF AnchorRead, NoHead, OnlyStops
          <5>7. DecideResume(a, s) = "refuse"
            BY <5>5, <5>6 DEF DecideResume
          <5>. QED  BY <2>0, <5>1, <5>7
        <4>. QED  BY <3>1, <4>1, <4>2
      <3>4. Own(u)' = Own(u)
        BY <3>2 DEF Own
      <3>. QED  BY <2>2, <3>2, <3>3, <3>4
    <2>. QED  BY <1>2, <2>0, <2>3, <2>4, <2>5, UndisturbedStep
  <1>3. LogInv /\ [Next]_vars =>
          [\A t \in Tenants : Lagging(t) => Lagging(t)' /\ Own(t)' = Own(t)]_vars
    BY <1>2
  <1>. QED  BY LogInit, <1>1, <1>3, PTL DEF Spec, LaggingIsFinal

=============================================================================
