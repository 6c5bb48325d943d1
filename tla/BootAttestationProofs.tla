------------------------ MODULE BootAttestationProofs ------------------------
(***************************************************************************)
(* Proofs about boot attestation: for every site, every combination of     *)
(* failures, any numbers of attempts and any bounds, an admission is fresh *)
(* and registered, a nonce backs one admission, and a node that runs       *)
(* registered software only raises no alarm.                               *)
(***************************************************************************)
EXTENDS BootAttestation, FunctionTheorems, SequenceTheorems, WellFoundedInduction, TLAPS

-----------------------------------------------------------------------------
(* Sequences of checks *)

\* A nonempty set of naturals has a least element.
LEMMA LeastNatural ==
    ASSUME NEW S \in SUBSET Nat, S # {}
    PROVE  \E m \in S : \A k \in S : m <= k
  <1>. DEFINE Less == {p \in Nat \X Nat : p[1] < p[2]}
  <1>1. Less = OpToRel(<, Nat)
    BY DEF OpToRel
  <1>2. \E m \in S : \A k \in S : ~ (<<k, m>> \in Less)
    <2>. HIDE DEF Less
    <2>. QED  BY <1>1, NatLessThanWellFounded, WFMin
  <1>3. PICK m \in S : \A k \in S : ~ (<<k, m>> \in Less)
    BY <1>2
  <1>4. ASSUME NEW k \in S PROVE m <= k
    <2>1. m \in Nat /\ k \in Nat /\ (k < m => <<k, m>> \in Less)
      OBVIOUS
    <2>. QED  BY <1>3, <2>1
  <1>. QED  BY <1>4

Checks == Seq(BOOLEAN \X (Int \ {0}))

\* FirstOf is the status of the first check that applies, or 0.
LEMMA FirstOfFacts ==
    ASSUME NEW s \in Checks
    PROVE  \/ FirstOf(s) = 0 /\ \A i \in 1..Len(s) : ~s[i][1]
           \/ \E k \in 1..Len(s) : /\ s[k][1]
                                   /\ \A j \in 1..Len(s) : j < k => ~s[j][1]
                                   /\ FirstOf(s) = s[k][2]
                                   /\ FirstOf(s) # 0
  <1>. DEFINE Failing == {i \in 1..Len(s) : s[i][1]}
              first == CHOOSE i \in Failing : \A j \in Failing : i <= j
  <1>1. FirstOf(s) = IF Failing = {} THEN 0 ELSE s[first][2]
    BY DEF FirstOf
  <1>2. CASE Failing = {}
    BY <1>1, <1>2
  <1>3. CASE Failing # {}
    <2>1. Failing \in SUBSET Nat /\ Failing \subseteq 1..Len(s)
      BY DEF Checks
    <2>2. \E m \in Failing : \A k \in Failing : m <= k
      <3>. HIDE DEF Failing
      <3>. QED  BY <1>3, <2>1, LeastNatural
    <2>3. first \in Failing /\ \A k \in Failing : first <= k
      <3>. HIDE DEF Failing
      <3>. QED  BY <2>2
    <2>4. s[first][1] /\ first \in 1..Len(s)
      <3>. HIDE DEF first
      <3>. QED BY <2>3
    <2>5. \A j \in 1..Len(s) : j < first => ~s[j][1]
      <3>. HIDE DEF first
      <3>. QED BY <2>3, <2>1
    <2>6. s[first][2] # 0
      <3>. HIDE DEF first
      <3>1. s[first] \in BOOLEAN \X (Int \ {0})
        BY <2>4 DEF Checks
      <3>. QED  BY <3>1
    <2>. QED  BY <1>1, <1>3, <2>4, <2>5, <2>6
  <1>. QED  BY <1>2, <1>3

\* FirstOf on two checks ...
LEMMA FirstOfTwo ==
    ASSUME NEW a \in BOOLEAN, NEW b \in BOOLEAN, NEW x \in Int \ {0}, NEW y \in Int \ {0}
    PROVE  /\ << <<a, x>>, <<b, y>> >> \in Checks
           /\ FirstOf(<< <<a, x>>, <<b, y>> >>) = IF a THEN x ELSE IF b THEN y ELSE 0
  <1>. DEFINE s == << <<a, x>>, <<b, y>> >>
  <1>1. s \in Checks
    BY DEF Checks
  <1>2. Len(s) = 2 /\ (s[1][1] <=> a) /\ s[1][2] = x /\ (s[2][1] <=> b) /\ s[2][2] = y
    OBVIOUS
  <1>. HIDE DEF s
  <1>3. \/ FirstOf(s) = 0 /\ \A i \in 1..2 : ~s[i][1]
        \/ \E k \in 1..2 : /\ s[k][1]
                           /\ \A j \in 1..2 : j < k => ~s[j][1]
                           /\ FirstOf(s) = s[k][2]
    BY <1>1, <1>2, FirstOfFacts
  <1>4. FirstOf(s) = IF a THEN x ELSE IF b THEN y ELSE 0
    BY <1>2, <1>3
  <1>. QED  BY <1>1, <1>4 DEF s

\* ... and on two lists of checks, one after the other.
LEMMA FirstOfJoined ==
    ASSUME NEW s \in Checks, NEW t \in Checks
    PROVE  /\ s \o t \in Checks
           /\ FirstOf(s \o t) = IF FirstOf(s) # 0 THEN FirstOf(s) ELSE FirstOf(t)
  <1>1. s \o t \in Checks /\ Len(s \o t) = Len(s) + Len(t) /\ Len(s) \in Nat /\ Len(t) \in Nat
    BY DEF Checks
  <1>2. \A i \in 1..Len(s) : (s \o t)[i] = s[i] /\ i \in 1..Len(s \o t)
    BY <1>1 DEF Checks
  <1>3. \A i \in 1..Len(t) : (s \o t)[Len(s) + i] = t[i] /\ Len(s) + i \in 1..Len(s \o t)
    BY <1>1 DEF Checks
  <1>4. \A k \in 1..Len(s \o t) :
          k > Len(s) => (s \o t)[k] = t[k - Len(s)] /\ k - Len(s) \in 1..Len(t)
    BY <1>1 DEF Checks
  <1>. DEFINE st == s \o t
  <1>. HIDE DEF st
  <1>5. CASE \A i \in 1..Len(s) : ~s[i][1]
    <2>1. FirstOf(s) = 0
      BY <1>5, FirstOfFacts
    <2>2. CASE \A i \in 1..Len(t) : ~t[i][1]
      <3>1. FirstOf(t) = 0
        BY <2>2, FirstOfFacts
      <3>2. \A k \in 1..Len(st) : ~st[k][1]
        BY <1>1, <1>2, <1>4, <1>5, <2>2 DEF st
      <3>3. FirstOf(st) = 0
        BY <1>1, <3>2, FirstOfFacts DEF st
      <3>. QED BY <1>1, <2>1, <3>1, <3>3 DEF st
    <2>3. CASE ~ \A i \in 1..Len(t) : ~t[i][1]
      <3>1. PICK k \in 1..Len(t) : /\ t[k][1]
                                   /\ \A j \in 1..Len(t) : j < k => ~t[j][1]
                                   /\ FirstOf(t) = t[k][2]
        BY <2>3, FirstOfFacts
      <3>2. st[Len(s) + k][1] /\ st[Len(s) + k][2] = FirstOf(t) /\ Len(s) + k \in 1..Len(st)
        BY <1>3, <3>1 DEF st
      <3>3. \A j \in 1..Len(st) : j < Len(s) + k => ~st[j][1]
        BY <1>1, <1>2, <1>4, <1>5, <3>1 DEF st
      <3>4. PICK l \in 1..Len(st) : /\ st[l][1]
                                    /\ \A j \in 1..Len(st) : j < l => ~st[j][1]
                                    /\ FirstOf(st) = st[l][2]
        BY <1>1, <3>2, FirstOfFacts DEF st
      <3>5. l = Len(s) + k
        <4>1. l \in Nat /\ Len(s) + k \in Nat
          BY <1>1 DEF st
        <4>2. ~(l < Len(s) + k) /\ ~(Len(s) + k < l)
          BY <3>2, <3>3, <3>4
        <4>. QED  BY <4>1, <4>2
      <3>. QED BY <1>1, <2>1, <3>2, <3>4, <3>5 DEF st
    <2>. QED BY <2>2, <2>3
  <1>6. CASE ~ \A i \in 1..Len(s) : ~s[i][1]
    <2>1. PICK k \in 1..Len(s) : /\ s[k][1]
                                 /\ \A j \in 1..Len(s) : j < k => ~s[j][1]
                                 /\ FirstOf(s) = s[k][2] /\ FirstOf(s) # 0
      BY <1>6, FirstOfFacts
    <2>2. st[k][1] /\ st[k][2] = FirstOf(s) /\ k \in 1..Len(st)
      BY <1>2, <2>1 DEF st
    <2>3. \A j \in 1..Len(st) : j < k => ~st[j][1]
      BY <1>1, <1>2, <2>1 DEF st
    <2>4. PICK l \in 1..Len(st) : /\ st[l][1]
                                  /\ \A j \in 1..Len(st) : j < l => ~st[j][1]
                                  /\ FirstOf(st) = st[l][2]
      BY <1>1, <2>2, FirstOfFacts DEF st
    <2>5. l = k
      BY <1>1, <2>1, <2>2, <2>3, <2>4 DEF st
    <2>. QED BY <1>1, <2>1, <2>2, <2>4, <2>5 DEF st
  <1>. QED BY <1>5, <1>6

-----------------------------------------------------------------------------
(* What an enclave answers, check by check *)

\* What the AK section of a handler comes to.
LEMMA AkStatus ==
    ASSUME NEW n, NEW m, NEW reply
    PROVE  /\ AkChecks(n, m, reply) \in Checks
           /\ FirstOf(AkChecks(n, m, reply)) =
                IF reply["ak_pub"] = "error" THEN -124
                ELSE IF AkKnown(n, reply) /\ m.quote = NoQuote THEN -122
                ELSE IF AkKnown(n, reply) /\ slot[n] = NoNonce THEN -121
                ELSE IF AkKnown(n, reply) /\ ~QuoteOk(m, slot[n]) THEN -123
                ELSE 0
  <1>. DEFINE s == AkChecks(n, m, reply)
  <1>1. s \in Checks
    <2>. DEFINE a == reply["ak_pub"] = "error"
                b == AkKnown(n, reply) /\ m.quote = NoQuote
                c == AkKnown(n, reply) /\ slot[n] = NoNonce
                d == AkKnown(n, reply) /\ ~QuoteOk(m, slot[n])
    <2>1. s = << <<a, -124>>, <<b, -122>>, <<c, -121>>, <<d, -123>> >>
      BY DEF AkChecks
    <2>2. a \in BOOLEAN /\ b \in BOOLEAN /\ c \in BOOLEAN /\ d \in BOOLEAN
      OBVIOUS
    <2>. HIDE DEF s, a, b, c, d
    <2>. QED  BY <2>1, <2>2 DEF Checks
  <1>2. /\ Len(s) = 4
        /\ s[1][1] <=> reply["ak_pub"] = "error"
        /\ s[2][1] <=> AkKnown(n, reply) /\ m.quote = NoQuote
        /\ s[3][1] <=> AkKnown(n, reply) /\ slot[n] = NoNonce
        /\ s[4][1] <=> AkKnown(n, reply) /\ ~QuoteOk(m, slot[n])
    BY DEF AkChecks
  <1>3. s[1][2] = -124 /\ s[2][2] = -122 /\ s[3][2] = -121 /\ s[4][2] = -123
    BY DEF AkChecks
  <1>. HIDE DEF s
  <1>4. \/ FirstOf(s) = 0 /\ \A i \in 1..4 : ~s[i][1]
        \/ \E k \in 1..4 : /\ s[k][1]
                           /\ \A j \in 1..4 : j < k => ~s[j][1]
                           /\ FirstOf(s) = s[k][2]
    BY <1>1, <1>2, FirstOfFacts
  <1>5. FirstOf(s) = IF s[1][1] THEN -124 ELSE IF s[2][1] THEN -122
                     ELSE IF s[3][1] THEN -121 ELSE IF s[4][1] THEN -123 ELSE 0
    BY <1>3, <1>4
  <1>6. FirstOf(s) =
                IF reply["ak_pub"] = "error" THEN -124
                ELSE IF AkKnown(n, reply) /\ m.quote = NoQuote THEN -122
                ELSE IF AkKnown(n, reply) /\ slot[n] = NoNonce THEN -121
                ELSE IF AkKnown(n, reply) /\ ~QuoteOk(m, slot[n]) THEN -123
                ELSE 0
    BY <1>2, <1>5
  <1>. QED  BY <1>1, <1>6 DEF s

\* What admit_boot comes to.
LEMMA AdmitStatus ==
    ASSUME NEW n, NEW m, NEW reply
    PROVE  LET hash == LastHash(n, AttestedPart(m), "collector") IN
           /\ AdmitBoot(n, m, reply) \in Checks
           /\ FirstOf(AdmitBoot(n, m, reply)) =
                IF m.pcr10 = << >> THEN -2
                ELSE IF ~Reconciles(m) THEN -9
                ELSE IF reply["scaphandre"] # "value" THEN -5
                ELSE IF hash = "none" THEN -4
                ELSE IF hash # "good" THEN -6
                ELSE IF m.platform = "pcr0" THEN -7
                ELSE IF m.platform = "pcr7" THEN -8
                ELSE 0
  <1>. DEFINE s == AdmitBoot(n, m, reply)
              hash == LastHash(n, AttestedPart(m), "collector")
  <1>1. s \in Checks
    <2>. DEFINE a == m.pcr10 = << >>
                b == ~Reconciles(m)
                c == reply["scaphandre"] # "value"
                d == hash = "none"
                e == hash # "good"
                f == m.platform = "pcr0"
                g == m.platform = "pcr7"
    <2>1. s = << <<a, -2>>, <<b, -9>>, <<c, -5>>, <<d, -4>>, <<e, -6>>, <<f, -7>>, <<g, -8>> >>
      BY DEF AdmitBoot
    <2>2. /\ a \in BOOLEAN /\ b \in BOOLEAN /\ c \in BOOLEAN /\ d \in BOOLEAN
          /\ e \in BOOLEAN /\ f \in BOOLEAN /\ g \in BOOLEAN
      OBVIOUS
    <2>. HIDE DEF s, a, b, c, d, e, f, g
    <2>. QED  BY <2>1, <2>2 DEF Checks
  <1>2. /\ Len(s) = 7
        /\ s[1][1] <=> m.pcr10 = << >>
        /\ s[2][1] <=> ~Reconciles(m)
        /\ s[3][1] <=> reply["scaphandre"] # "value"
        /\ s[4][1] <=> hash = "none"
        /\ s[5][1] <=> hash # "good"
        /\ s[6][1] <=> m.platform = "pcr0"
        /\ s[7][1] <=> m.platform = "pcr7"
    BY DEF AdmitBoot
  <1>3. /\ s[1][2] = -2 /\ s[2][2] = -9 /\ s[3][2] = -5 /\ s[4][2] = -4 /\ s[5][2] = -6
        /\ s[6][2] = -7 /\ s[7][2] = -8
    BY DEF AdmitBoot
  <1>. HIDE DEF s, hash
  <1>4. \/ FirstOf(s) = 0 /\ \A i \in 1..7 : ~s[i][1]
        \/ \E k \in 1..7 : /\ s[k][1]
                           /\ \A j \in 1..7 : j < k => ~s[j][1]
                           /\ FirstOf(s) = s[k][2]
    BY <1>1, <1>2, FirstOfFacts
  <1>5. FirstOf(s) = IF s[1][1] THEN -2 ELSE IF s[2][1] THEN -9
                     ELSE IF s[3][1] THEN -5 ELSE IF s[4][1] THEN -4
                     ELSE IF s[5][1] THEN -6 ELSE IF s[6][1] THEN -7
                     ELSE IF s[7][1] THEN -8 ELSE 0
    BY <1>3, <1>4
  <1>6. FirstOf(s) =
                IF m.pcr10 = << >> THEN -2
                ELSE IF ~Reconciles(m) THEN -9
                ELSE IF reply["scaphandre"] # "value" THEN -5
                ELSE IF hash = "none" THEN -4
                ELSE IF hash # "good" THEN -6
                ELSE IF m.platform = "pcr0" THEN -7
                ELSE IF m.platform = "pcr7" THEN -8
                ELSE 0
    BY <1>2, <1>5
  <1>. QED  BY <1>1, <1>6 DEF s, hash

\* FirstOf on one check.
LEMMA FirstOfOne ==
    ASSUME NEW a \in BOOLEAN, NEW x \in Int \ {0}
    PROVE  /\ << <<a, x>> >> \in Checks
           /\ FirstOf(<< <<a, x>> >>) = IF a THEN x ELSE 0
  <1>. DEFINE s == << <<a, x>> >>
  <1>1. s \in Checks
    BY DEF Checks
  <1>2. Len(s) = 1 /\ (s[1][1] <=> a) /\ s[1][2] = x
    OBVIOUS
  <1>. HIDE DEF s
  <1>3. FirstOf(s) = IF a THEN x ELSE 0
    BY <1>1, <1>2, FirstOfFacts, SMTT(30)
  <1>. QED  BY <1>1, <1>3 DEF s

Unregistered(n, m, file, reply) ==
    reply[file] = "value" /\ LastHash(n, AttestedPart(m), file) \notin {"none", "good"}

HostAsked(reply) == "parent" \in site /\ reply["parent_host"] = "value"
Unattested(reply) == ~attested \/ reply["host_attested"] = "blank"

\* handle_verify_boot of the guest's enclave, in the order of its checks ...
LEMMA GuestStatus ==
    ASSUME NEW m, NEW reply, attested \in BOOLEAN
    PROVE  LET hash == LastHash("guest", AttestedPart(m), "collector") IN
           Status("guest", m, reply) =
             IF FirstOf(AkChecks("guest", m, reply)) # 0
               THEN FirstOf(AkChecks("guest", m, reply))
             ELSE IF HostAsked(reply) /\ reply["host_attested"] = "error" THEN -126
             ELSE IF HostAsked(reply) /\ Unattested(reply) THEN -125
             ELSE IF Unregistered("guest", m, "driver", reply) THEN -11
             ELSE FirstOf(AdmitBoot("guest", m, reply))
  <1>. DEFINE ak == AkChecks("guest", m, reply)
              host == HostChecks(reply)
              stack == <<StackCheck("guest", m, "driver", -11, reply)>>
              admit == AdmitBoot("guest", m, reply)
  <1>1. ak \in Checks /\ admit \in Checks
    BY AkStatus, AdmitStatus
  <1>2. /\ host \in Checks
        /\ FirstOf(host) = IF HostAsked(reply) /\ reply["host_attested"] = "error" THEN -126
                           ELSE IF HostAsked(reply) /\ Unattested(reply) THEN -125 ELSE 0
    <2>. DEFINE a == HostAsked(reply) /\ reply["host_attested"] = "error"
                b == HostAsked(reply) /\ Unattested(reply)
    <2>1. host = << <<a, -126>>, <<b, -125>> >>
      BY DEF HostChecks, HostAsked, Unattested
    <2>2. a \in BOOLEAN /\ b \in BOOLEAN
      OBVIOUS
    <2>3. host \in Checks /\ FirstOf(host) = IF a THEN -126 ELSE IF b THEN -125 ELSE 0
      <3>. HIDE DEF host, a, b
      <3>. QED  BY <2>1, <2>2, FirstOfTwo
    <2>. QED  BY <2>3
  <1>3. /\ stack \in Checks
        /\ FirstOf(stack) = IF Unregistered("guest", m, "driver", reply) THEN -11 ELSE 0
    <2>. DEFINE a == Unregistered("guest", m, "driver", reply)
    <2>1. stack = << <<a, -11>> >>
      BY DEF StackCheck, Unregistered
    <2>2. a \in BOOLEAN
      BY DEF Unregistered
    <2>. HIDE DEF stack, a
    <2>3. stack \in Checks /\ FirstOf(stack) = IF a THEN -11 ELSE 0
      BY <2>1, <2>2, FirstOfOne
    <2>. QED  BY <2>3 DEF a
  <1>4. Status("guest", m, reply) = FirstOf(((ak \o host) \o stack) \o admit)
    BY DEF Status
  <1>. HIDE DEF ak, host, stack, admit
  <1>5. /\ ak \o host \in Checks
        /\ FirstOf(ak \o host) = IF FirstOf(ak) # 0 THEN FirstOf(ak) ELSE FirstOf(host)
    BY <1>1, <1>2, FirstOfJoined
  <1>6. /\ (ak \o host) \o stack \in Checks
        /\ FirstOf((ak \o host) \o stack) =
             IF FirstOf(ak \o host) # 0 THEN FirstOf(ak \o host) ELSE FirstOf(stack)
    BY <1>3, <1>5, FirstOfJoined
  <1>7. FirstOf(((ak \o host) \o stack) \o admit) =
             IF FirstOf((ak \o host) \o stack) # 0
             THEN FirstOf((ak \o host) \o stack) ELSE FirstOf(admit)
    BY <1>1, <1>6, FirstOfJoined
  <1>8. Status("guest", m, reply) =
             IF FirstOf(ak) # 0 THEN FirstOf(ak)
             ELSE IF HostAsked(reply) /\ reply["host_attested"] = "error" THEN -126
             ELSE IF HostAsked(reply) /\ Unattested(reply) THEN -125
             ELSE IF Unregistered("guest", m, "driver", reply) THEN -11
             ELSE FirstOf(admit)
    BY <1>2, <1>3, <1>4, <1>5, <1>6, <1>7
  <1>. QED  BY <1>8 DEF ak, admit

\* ... and handle_verify of the host's.
LEMMA HostStatus ==
    ASSUME NEW m, NEW reply
    PROVE  LET hash == LastHash("host", AttestedPart(m), "collector") IN
           Status("host", m, reply) =
             IF m.pcr10 = << >> THEN -2
             ELSE IF FirstOf(AkChecks("host", m, reply)) # 0
               THEN FirstOf(AkChecks("host", m, reply))
             ELSE IF reply["scaphandre"] # "value" THEN -5
             ELSE IF hash = "none" THEN -4
             ELSE IF FirstOf(AdmitBoot("host", m, reply)) # 0
               THEN FirstOf(AdmitBoot("host", m, reply))
             ELSE IF Unregistered("host", m, "driver", reply) THEN -11
             ELSE IF Unregistered("host", m, "hypervisor", reply) THEN -12
             ELSE 0
  <1>. DEFINE hash == LastHash("host", AttestedPart(m), "collector")
              empty == << <<m.pcr10 = << >>, -2>> >>
              ak == AkChecks("host", m, reply)
              found == << <<reply["scaphandre"] # "value", -5>>, <<hash = "none", -4>> >>
              admit == AdmitBoot("host", m, reply)
              stack == <<StackCheck("host", m, "driver", -11, reply),
                         StackCheck("host", m, "hypervisor", -12, reply)>>
  <1>1. ak \in Checks /\ admit \in Checks
    BY AkStatus, AdmitStatus
  <1>2. empty \in Checks /\ FirstOf(empty) = IF m.pcr10 = << >> THEN -2 ELSE 0
    <2>. DEFINE a == m.pcr10 = << >>
    <2>1. empty = << <<a, -2>> >> /\ a \in BOOLEAN
      OBVIOUS
    <2>. HIDE DEF empty, a
    <2>2. empty \in Checks /\ FirstOf(empty) = IF a THEN -2 ELSE 0
      BY <2>1, FirstOfOne
    <2>. QED  BY <2>2 DEF a
  <1>3. /\ found \in Checks
        /\ FirstOf(found) = IF reply["scaphandre"] # "value" THEN -5 ELSE IF hash = "none" THEN -4 ELSE 0
    <2>. DEFINE a == reply["scaphandre"] # "value"
                b == hash = "none"
    <2>1. found = << <<a, -5>>, <<b, -4>> >> /\ a \in BOOLEAN /\ b \in BOOLEAN
      OBVIOUS
    <2>. HIDE DEF found, a, b
    <2>2. found \in Checks /\ FirstOf(found) = IF a THEN -5 ELSE IF b THEN -4 ELSE 0
      BY <2>1, FirstOfTwo
    <2>. QED  BY <2>2 DEF a, b
  <1>4. /\ stack \in Checks
        /\ FirstOf(stack) = IF Unregistered("host", m, "driver", reply) THEN -11
                            ELSE IF Unregistered("host", m, "hypervisor", reply) THEN -12 ELSE 0
    <2>1. stack = << <<Unregistered("host", m, "driver", reply), -11>>,
                     <<Unregistered("host", m, "hypervisor", reply), -12>> >>
      BY DEF StackCheck, Unregistered
    <2>2. /\ Unregistered("host", m, "driver", reply) \in BOOLEAN
          /\ Unregistered("host", m, "hypervisor", reply) \in BOOLEAN
      BY DEF Unregistered
    <2>. QED  BY <2>1, <2>2, FirstOfTwo
  <1>5. Status("host", m, reply) = FirstOf((((empty \o ak) \o found) \o admit) \o stack)
    BY DEF Status
  <1>. HIDE DEF hash, empty, ak, found, admit, stack
  <1>6. /\ empty \o ak \in Checks
        /\ FirstOf(empty \o ak) = IF FirstOf(empty) # 0 THEN FirstOf(empty) ELSE FirstOf(ak)
    BY <1>1, <1>2, FirstOfJoined
  <1>7. /\ (empty \o ak) \o found \in Checks
        /\ FirstOf((empty \o ak) \o found) =
             IF FirstOf(empty \o ak) # 0 THEN FirstOf(empty \o ak) ELSE FirstOf(found)
    BY <1>3, <1>6, FirstOfJoined
  <1>8. /\ ((empty \o ak) \o found) \o admit \in Checks
        /\ FirstOf(((empty \o ak) \o found) \o admit) =
             IF FirstOf((empty \o ak) \o found) # 0
             THEN FirstOf((empty \o ak) \o found) ELSE FirstOf(admit)
    BY <1>1, <1>7, FirstOfJoined
  <1>9. FirstOf((((empty \o ak) \o found) \o admit) \o stack) =
             IF FirstOf(((empty \o ak) \o found) \o admit) # 0
             THEN FirstOf(((empty \o ak) \o found) \o admit) ELSE FirstOf(stack)
    BY <1>4, <1>8, FirstOfJoined
  <1>10. Status("host", m, reply) =
             IF m.pcr10 = << >> THEN -2
             ELSE IF FirstOf(ak) # 0 THEN FirstOf(ak)
             ELSE IF reply["scaphandre"] # "value" THEN -5
             ELSE IF hash = "none" THEN -4
             ELSE IF FirstOf(admit) # 0 THEN FirstOf(admit)
             ELSE IF Unregistered("host", m, "driver", reply) THEN -11
             ELSE IF Unregistered("host", m, "hypervisor", reply) THEN -12
             ELSE 0
    BY <1>2, <1>3, <1>4, <1>5, <1>6, <1>7, <1>8, <1>9
  <1>. QED  BY <1>10 DEF hash, ak, admit

-----------------------------------------------------------------------------
(* Logs, PCR 10 and their prefixes *)

Pcr10s   == Seq(Entries \cup {Violation})
Logs     == Seq(Entries)
Quotes   == [nonce : Nat, platform : Platforms \cup {"zero"}, pcr10 : Pcr10s]
Requests == [platform : Platforms \cup {"zero"}, pcr10 : Pcr10s, log : Logs,
             quote : Quotes]

Prefix(p, q) == Len(p) <= Len(q) /\ \A i \in 1..Len(p) : p[i] = q[i]

\* A nonempty set of indexes has a greatest element.
LEMMA GreatestIndex ==
    ASSUME NEW N \in Nat, NEW S \in SUBSET (1..N), S # {}
    PROVE  \E m \in S : \A k \in S : k <= m
  <1>. DEFINE Below == {N - i : i \in S}
  <1>1. Below \in SUBSET Nat /\ Below # {}
    <2>1. \A i \in S : i \in 1..N /\ N - i \in Nat
      OBVIOUS
    <2>2. PICK i \in S : TRUE
      OBVIOUS
    <2>. QED  BY <2>1, <2>2
  <1>2. PICK d \in Below : \A k \in Below : d <= k
    <2>. HIDE DEF Below
    <2>. QED  BY <1>1, LeastNatural
  <1>3. PICK m \in S : d = N - m
    OBVIOUS
  <1>4. ASSUME NEW k \in S PROVE k <= m
    <2>1. N - k \in Below
      OBVIOUS
    <2>2. d <= N - k
      BY <1>2, <2>1
    <2>. HIDE DEF Below
    <2>. QED  BY <1>3, <2>2
  <1>. QED  BY <1>4

\* An entry that is no violation is known by its digest.
LEMMA EntryFacts ==
    /\ \A e \in Entries : Digest(e) \in Entries \cup {Violation}
    /\ \A e \in Entries, f \in Files, h \in {"good", "bad"} :
          Digest(e) = Entry(f, h) <=> e = Entry(f, h)
    /\ \A f \in Files, h \in Hashes : /\ Entry(f, h) \in Entries
                                      /\ Entry(f, h).file = f /\ Entry(f, h).hash = h
    /\ \A e \in Entries : e = Entry(e.file, e.hash) /\ e.file \in Files /\ e.hash \in Hashes
  BY DEF Entries, Entry, Digest, Violation, Files, Hashes

\* What a log and the beginnings of a log extend PCR 10 with.
LEMMA DigestsFacts ==
    ASSUME NEW l \in Logs
    PROVE  /\ Digests(l) \in Pcr10s /\ Len(Digests(l)) = Len(l)
           /\ \A i \in 1..Len(l) : Digests(l)[i] = Digest(l[i])
           /\ \A k \in 0..Len(l) :
                /\ SubSeq(l, 1, k) \in Logs /\ Len(SubSeq(l, 1, k)) = k
                /\ \A i \in 1..k : SubSeq(l, 1, k)[i] = l[i]
                /\ Digests(SubSeq(l, 1, k)) \in Pcr10s
                /\ Len(Digests(SubSeq(l, 1, k))) = k
                /\ \A i \in 1..k : Digests(SubSeq(l, 1, k))[i] = Digest(l[i])
  <1>1. ASSUME NEW s \in Logs
        PROVE  /\ Digests(s) \in Pcr10s /\ Len(Digests(s)) = Len(s)
               /\ \A i \in 1..Len(s) : Digests(s)[i] = Digest(s[i])
    <2>1. Len(s) \in Nat /\ \A i \in 1..Len(s) : s[i] \in Entries
      BY DEF Logs
    <2>2. \A i \in 1..Len(s) : Digest(s[i]) \in Entries \cup {Violation}
      BY <2>1, EntryFacts
    <2>3. Digests(s) = [i \in 1..Len(s) |-> Digest(s[i])]
      BY DEF Digests
    <2>4. Digests(s) \in Seq(Entries \cup {Violation})
      BY <2>1, <2>2, <2>3
    <2>. QED  BY <2>1, <2>3, <2>4 DEF Pcr10s
  <1>2. ASSUME NEW k \in 0..Len(l)
        PROVE  /\ SubSeq(l, 1, k) \in Logs /\ Len(SubSeq(l, 1, k)) = k
               /\ \A i \in 1..k : SubSeq(l, 1, k)[i] = l[i]
    BY DEF Logs
  <1>3. ASSUME NEW k \in 0..Len(l)
        PROVE  /\ Digests(SubSeq(l, 1, k)) \in Pcr10s
               /\ Len(Digests(SubSeq(l, 1, k))) = k
               /\ \A i \in 1..k : Digests(SubSeq(l, 1, k))[i] = Digest(l[i])
    BY <1>1, <1>2
  <1>. QED  BY <1>1, <1>2, <1>3

\* LastHash counts an entry as one for this file.
Counted(n, e, file) == e.file = file /\ (n = "host" => e.hash # "violation")

LastHashShown(n, l, file) ==
    \/ LastHash(n, l, file) = "none" /\ \A i \in 1..Len(l) : ~Counted(n, l[i], file)
    \/ \E k \in 1..Len(l) : /\ Counted(n, l[k], file)
                            /\ LastHash(n, l, file) = l[k].hash
                            /\ \A j \in 1..Len(l) : Counted(n, l[j], file) => j <= k

\* LastHash is the hash of the last entry that counts for a file.
LEMMA LastHashFacts ==
    ASSUME NEW n, NEW l \in Logs, NEW file
    PROVE  LastHashShown(n, l, file)
  <1>. DEFINE Found == {i \in 1..Len(l) : Counted(n, l[i], file)}
              last == CHOOSE i \in Found : \A j \in Found : j <= i
  <1>1. LastHash(n, l, file) = IF Found = {} THEN "none" ELSE l[last].hash
    BY DEF LastHash, Counted
  <1>2. CASE Found = {}
    BY <1>1, <1>2 DEF LastHashShown
  <1>3. CASE Found # {}
    <2>1. Len(l) \in Nat /\ Found \in SUBSET (1..Len(l))
      BY DEF Logs
    <2>2. last \in Found /\ \A j \in Found : j <= last
      <3>1. \E i \in Found : \A j \in Found : j <= i
        <4>. HIDE DEF Found
        <4>. QED  BY <1>3, <2>1, GreatestIndex
      <3>. HIDE DEF Found
      <3>. QED  BY <3>1
    <2>. HIDE DEF last
    <2>. QED  BY <1>1, <1>3, <2>2 DEF LastHashShown
  <1>. QED  BY <1>2, <1>3

\* Being a prefix is reflexive and transitive, and a prefix is a part.
LEMMA PrefixFacts ==
    /\ \A p \in Pcr10s : Prefix(p, p)
    /\ \A p, q, r \in Pcr10s : Prefix(p, q) /\ Prefix(q, r) => Prefix(p, r)
    /\ \A p, q \in Pcr10s : Prefix(p, q) => p = SubSeq(q, 1, Len(p))
  <1>1. \A p \in Pcr10s : Prefix(p, p)
    BY DEF Prefix, Pcr10s
  <1>2. \A p, q, r \in Pcr10s : Prefix(p, q) /\ Prefix(q, r) => Prefix(p, r)
    BY DEF Prefix, Pcr10s
  <1>3. ASSUME NEW p \in Pcr10s, NEW q \in Pcr10s, Prefix(p, q)
        PROVE  p = SubSeq(q, 1, Len(p))
    <2>1. Len(p) \in Nat /\ Len(q) \in Nat /\ Len(p) <= Len(q)
      BY <1>3 DEF Prefix, Pcr10s
    <2>2. /\ SubSeq(q, 1, Len(p)) \in Pcr10s /\ Len(SubSeq(q, 1, Len(p))) = Len(p)
          /\ \A i \in 1..Len(p) : SubSeq(q, 1, Len(p))[i] = q[i]
      BY <2>1 DEF Pcr10s
    <2>. QED  BY <1>3, <2>1, <2>2, SeqEqual DEF Prefix, Pcr10s
  <1>. QED  BY <1>1, <1>2, <1>3

\* A log that reconciles covers PCR 10 entry by entry; one that PCR 10 is a
\* prefix of does reconcile.
LEMMA ReconcilesFacts ==
    ASSUME NEW m \in Requests
    PROVE  /\ Reconciles(m) =>
                /\ AttestedPart(m) \in Logs
                /\ Len(AttestedPart(m)) = Len(m.pcr10)
                /\ m.pcr10 # << >> /\ Len(m.pcr10) <= Len(m.log)
                /\ \A i \in 1..Len(m.pcr10) :
                      AttestedPart(m)[i] = m.log[i] /\ m.pcr10[i] = Digest(m.log[i])
           /\ ~Reconciles(m) => AttestedPart(m) = << >>
           /\ m.pcr10 # << >> /\ Prefix(m.pcr10, Digests(m.log)) => Reconciles(m)
  <1>0. m.log \in Logs /\ m.pcr10 \in Pcr10s /\ Len(m.log) \in Nat /\ Len(m.pcr10) \in Nat
    BY DEF Requests, Logs, Pcr10s
  <1>1. ASSUME Reconciles(m)
        PROVE  /\ AttestedPart(m) \in Logs
               /\ Len(AttestedPart(m)) = Len(m.pcr10)
               /\ m.pcr10 # << >> /\ Len(m.pcr10) <= Len(m.log)
               /\ \A i \in 1..Len(m.pcr10) :
                     AttestedPart(m)[i] = m.log[i] /\ m.pcr10[i] = Digest(m.log[i])
    <2>1. /\ m.pcr10 # << >> /\ Len(m.pcr10) \in 0..Len(m.log)
          /\ m.pcr10 = Digests(SubSeq(m.log, 1, Len(m.pcr10)))
          /\ AttestedPart(m) = SubSeq(m.log, 1, Len(m.pcr10))
      BY <1>0, <1>1 DEF Reconciles, AttestedPart
    <2>. QED  BY <1>0, <2>1, DigestsFacts
  <1>2. ASSUME m.pcr10 # << >>, Prefix(m.pcr10, Digests(m.log))
        PROVE  Reconciles(m)
    <2>1. Len(m.pcr10) \in 0..Len(m.log)
      BY <1>0, <1>2, DigestsFacts DEF Prefix
    <2>2. /\ Digests(SubSeq(m.log, 1, Len(m.pcr10))) \in Pcr10s
          /\ Len(Digests(SubSeq(m.log, 1, Len(m.pcr10)))) = Len(m.pcr10)
          /\ \A i \in 1..Len(m.pcr10) :
                Digests(SubSeq(m.log, 1, Len(m.pcr10)))[i] = Digest(m.log[i])
      BY <1>0, <2>1, DigestsFacts
    <2>3. \A i \in 1..Len(m.pcr10) : m.pcr10[i] = Digest(m.log[i])
      BY <1>0, <1>2, <2>1, DigestsFacts DEF Prefix
    <2>4. m.pcr10 = Digests(SubSeq(m.log, 1, Len(m.pcr10)))
      BY <1>0, <2>2, <2>3, SeqEqual DEF Pcr10s
    <2>. QED  BY <1>2, <2>1, <2>4 DEF Reconciles
  <1>. QED  BY <1>1, <1>2 DEF AttestedPart

-----------------------------------------------------------------------------
(* What an admission and an alarm mean *)

\* Status 0 needs every check to pass: the quote holds the enclave's nonce, the
\* log reconciles, and the hashes are registered.
LEMMA AdmittedFacts ==
    ASSUME NEW n \in Nodes, NEW m, NEW reply, attested \in BOOLEAN,
           Status(n, m, reply) = 0
    PROVE  /\ reply["ak_pub"] # "error"
           /\ AkKnown(n, reply) => /\ m.quote # NoQuote /\ slot[n] # NoNonce
                                   /\ QuoteOk(m, slot[n]) /\ TakesNonce(n, m, reply)
           /\ m.pcr10 # << >> /\ Reconciles(m)
           /\ LastHash(n, AttestedPart(m), "collector") = "good"
           /\ m.platform \notin {"pcr0", "pcr7"}
           /\ ~Unregistered(n, m, "driver", reply)
           /\ n = "host" => ~Unregistered(n, m, "hypervisor", reply)
           /\ n = "guest" => (HostAsked(reply) => ~Unattested(reply))
  <1>1. FirstOf(AkChecks(n, m, reply)) = 0 /\ FirstOf(AdmitBoot(n, m, reply)) = 0
    BY GuestStatus, HostStatus DEF Nodes
  <1>2. /\ reply["ak_pub"] # "error"
        /\ AkKnown(n, reply) => m.quote # NoQuote /\ slot[n] # NoNonce /\ QuoteOk(m, slot[n])
    BY <1>1, AkStatus
  <1>3. /\ m.pcr10 # << >> /\ Reconciles(m)
        /\ LastHash(n, AttestedPart(m), "collector") = "good"
        /\ m.platform \notin {"pcr0", "pcr7"}
    BY <1>1, AdmitStatus
  <1>4. AkKnown(n, reply) => TakesNonce(n, m, reply)
    BY <1>2, <1>3 DEF TakesNonce
  <1>5. CASE n = "guest"
    BY <1>2, <1>3, <1>4, <1>5, GuestStatus
  <1>6. CASE n = "host"
    BY <1>2, <1>3, <1>4, <1>6, HostStatus
  <1>. QED  BY <1>5, <1>6 DEF Nodes

\* An empty log has no hash of any file.
LEMMA NothingFound == \A n, file : LastHash(n, << >>, file) = "none"
  BY DEF LastHash

\* A request that gives a reason for alarm, whatever its log covers.
Suspect(n, m, reply) ==
    \/ m.pcr10 = << >>
    \/ LastHash(n, AttestedPart(m), "collector") \notin {"none", "good"}
    \/ m.platform \in {"pcr0", "pcr7"}
    \/ Unregistered(n, m, "driver", reply) \/ Unregistered(n, m, "hypervisor", reply)
    \/ m.quote # NoQuote /\ (slot[n] = NoNonce \/ ~QuoteOk(m, slot[n]))

\* The status for a log without the collector, and the one for a log that does
\* not replay, which the host's handler never comes to.
Missing(n, m) == /\ LastHash(n, AttestedPart(m), "collector") = "none"
                 /\ n = "guest" => Reconciles(m)
Diverges(n, m) == n = "guest" /\ ~Reconciles(m)

\* A status that stands for tampering has its reason in the request.
LEMMA AlarmFacts ==
    ASSUME NEW n \in Nodes, NEW m, NEW reply, attested \in BOOLEAN
    PROVE  /\ Status(n, m, reply) \in Alarms =>
                \/ Suspect(n, m, reply)
                \/ Status(n, m, reply) = -4 /\ Missing(n, m)
                \/ Status(n, m, reply) = -9 /\ Diverges(n, m)
           /\ Status(n, m, reply) \in Int
  <1>. DEFINE ak == FirstOf(AkChecks(n, m, reply))
              admit == FirstOf(AdmitBoot(n, m, reply))
              hash == LastHash(n, AttestedPart(m), "collector")
  <1>1. /\ ak \in {0, -124, -122, -121, -123}
        /\ ak \in {-121, -123} =>
              m.quote # NoQuote /\ (slot[n] = NoNonce \/ ~QuoteOk(m, slot[n]))
    BY AkStatus
  <1>2. /\ admit \in {0, -2, -9, -5, -4, -6, -7, -8}
        /\ admit = -2 => m.pcr10 = << >>
        /\ admit = -9 => ~Reconciles(m)
        /\ admit = -4 => Reconciles(m) /\ hash = "none"
        /\ admit = -6 => hash \notin {"none", "good"}
        /\ admit \in {-7, -8} => m.platform \in {"pcr0", "pcr7"}
    BY AdmitStatus
  <1>3. CASE n = "guest"
    <2>1. \/ Status(n, m, reply) = ak
          \/ Status(n, m, reply) \in {-126, -125}
          \/ Status(n, m, reply) = -11 /\ Unregistered(n, m, "driver", reply)
          \/ Status(n, m, reply) = admit
      BY <1>3, GuestStatus
    <2>. HIDE DEF ak, admit, hash
    <2>2. CASE Status(n, m, reply) = ak
      BY <1>1, <2>2 DEF Alarms, Suspect
    <2>3. CASE Status(n, m, reply) = admit
      BY <1>2, <1>3, <2>3 DEF Alarms, Suspect, Missing, Diverges, hash
    <2>. QED  BY <2>1, <2>2, <2>3 DEF Alarms, Suspect
  <1>4. CASE n = "host"
    <2>0. ~Reconciles(m) => hash = "none"
      BY <1>4, NothingFound DEF AttestedPart
    <2>1. \/ Status(n, m, reply) = -2 /\ m.pcr10 = << >>
          \/ Status(n, m, reply) = ak
          \/ Status(n, m, reply) \in {0, -5}
          \/ Status(n, m, reply) = -4 /\ hash = "none"
          \/ Status(n, m, reply) = admit /\ hash # "none"
          \/ Status(n, m, reply) = -11 /\ Unregistered(n, m, "driver", reply)
          \/ Status(n, m, reply) = -12 /\ Unregistered(n, m, "hypervisor", reply)
      BY <1>4, HostStatus
    <2>. HIDE DEF ak, admit
    <2>2. CASE Status(n, m, reply) = ak
      BY <1>1, <2>2 DEF Alarms, Suspect
    <2>3. CASE Status(n, m, reply) = admit /\ hash # "none"
      BY <1>2, <2>0, <2>3 DEF Alarms, Suspect
    <2>4. CASE Status(n, m, reply) = -4 /\ hash = "none"
      BY <1>4, <2>4 DEF Missing
    <2>. QED  BY <2>1, <2>2, <2>3, <2>4 DEF Alarms, Suspect
  <1>. QED  BY <1>3, <1>4 DEF Nodes

\* What a request shows whose log was found to carry registered hashes.
LEMMA RegisteredIsShown ==
    ASSUME NEW n \in Nodes, NEW m \in Requests, Reconciles(m), NEW f \in Files
    PROVE  /\ LastHash(n, AttestedPart(m), f) = "good" =>
                \E i \in 1..Len(m.pcr10) : m.pcr10[i] = Entry(f, "good")
           /\ LastHash(n, AttestedPart(m), f) \in {"none", "good"} =>
                \A i \in 1..Len(m.pcr10) : m.pcr10[i] = Entry(f, "bad") =>
                    \E j \in i..Len(m.pcr10) : m.pcr10[j] = Entry(f, "good")
  <1>. DEFINE l == AttestedPart(m)
  <1>0. /\ l \in Logs /\ Len(l) = Len(m.pcr10) /\ Len(l) \in Nat
        /\ \A i \in 1..Len(l) : l[i] \in Entries /\ m.pcr10[i] = Digest(l[i])
    <2>1. l \in Logs
      BY ReconcilesFacts
    <2>2. Len(l) \in Nat /\ \A i \in 1..Len(l) : l[i] \in Entries
      BY <2>1 DEF Logs
    <2>. QED  BY <2>1, <2>2, ReconcilesFacts
  <1>. HIDE DEF l
  <1>1. \A i \in 1..Len(l), h \in {"good", "bad"} :
          m.pcr10[i] = Entry(f, h) <=> l[i].file = f /\ l[i].hash = h
    <2>. SUFFICES ASSUME NEW i \in 1..Len(l), NEW h \in {"good", "bad"}
                  PROVE  m.pcr10[i] = Entry(f, h) <=> l[i].file = f /\ l[i].hash = h
      OBVIOUS
    <2>1. m.pcr10[i] = Entry(f, h) <=> l[i] = Entry(f, h)
      BY <1>0, EntryFacts
    <2>2. l[i] = Entry(f, h) <=> l[i].file = f /\ l[i].hash = h
      BY <1>0, EntryFacts DEF Hashes
    <2>. QED  BY <2>1, <2>2
  <1>2. LastHashShown(n, l, f)
    BY <1>0, LastHashFacts
  <1>3. \A i \in 1..Len(l) : l[i].hash # "none"
    BY <1>0, EntryFacts DEF Hashes
  <1>4. ASSUME LastHash(n, l, f) = "good"
        PROVE  \E i \in 1..Len(l) : m.pcr10[i] = Entry(f, "good")
    BY <1>1, <1>2, <1>4 DEF LastHashShown, Counted
  <1>5. ASSUME LastHash(n, l, f) \in {"none", "good"}, NEW i \in 1..Len(l),
               m.pcr10[i] = Entry(f, "bad")
        PROVE  \E j \in i..Len(l) : m.pcr10[j] = Entry(f, "good")
    <2>1. l[i].file = f /\ l[i].hash = "bad"
      BY <1>1, <1>5
    <2>2. PICK k \in 1..Len(l) : l[k].file = f /\ LastHash(n, l, f) = l[k].hash /\ i <= k
      BY <1>2, <2>1 DEF LastHashShown, Counted
    <2>3. l[k].hash = "good"
      BY <1>3, <1>5, <2>2
    <2>4. k \in i..Len(l)
      BY <1>0, <2>2
    <2>. QED  BY <1>1, <2>2, <2>3, <2>4
  <1>. QED  BY <1>0, <1>4, <1>5 DEF l

-----------------------------------------------------------------------------
(* Types of what a collector does *)

Kernels    == [log : Logs, extended : Nat, platform : Platforms]
AllStages  == Stages("host") \cup Stages("guest")
Collectors == [pc : AllStages, quoter : {"exporter", "runner"}, tries : Nat,
               draft : Quotes, msg : Requests]
Answered   == [request : Requests, status : Int, quoted : BOOLEAN, boot : Nat,
               pcr10 : Pcr10s]
Issues     == [node : Nodes, boot : Nat, length : Nat]

TypeInv ==
    /\ site \subseteq Features /\ faults \subseteq FaultKinds
    /\ site \cup faults \in Cases
    /\ kernel \in [Nodes -> Kernels]
    /\ \A n \in Nodes : \/ kernel[n].extended = Len(kernel[n].log)
                        \/ kernel[n].extended + 1 = Len(kernel[n].log)
    /\ snapshot \in [Nodes -> Logs]
    /\ collector \in [Nodes -> Collectors]
    /\ slot \in [Nodes -> Nat]
    /\ attested \in BOOLEAN /\ hostOk \in BOOLEAN
    /\ answer \in [Nodes -> Answered]
    /\ boot \in [Nodes -> Nat]
    /\ issued \in Seq(Issues)
    /\ sent \in [Nodes -> SUBSET Requests]
    /\ backed \in Seq(Nat)

\* A collector is at a stage of its own program and below its limits.
StageOk(n, c) ==
    /\ c.pc \in Stages(n)
    /\ c.pc \in {"draft", "quote"} => c.tries < QuoteTries
    /\ c.pc \in {"pcrs", "log", "again"} => c.tries < SnapshotTries

StagesOk == \A n \in Nodes : StageOk(n, collector[n])

\* Types of the records that the actions write.
LEMMA RecordsTyped ==
    /\ << >> \in Logs /\ << >> \in Pcr10s
    /\ NoQuote \in Quotes
    /\ NoRequest \in Requests
    /\ Idle \in Collectors
    /\ NoAnswer \in Answered
    /\ \A k \in Nat, p \in Platforms \cup {"zero"}, q \in Pcr10s : Quote(k, p, q) \in Quotes
    /\ \A p \in Platforms \cup {"zero"}, q \in Pcr10s, l \in Logs, s \in Quotes :
          Request(p, q, l, s) \in Requests
    /\ \A pc \in AllStages, q \in {"exporter", "runner"} : Collector(pc, q) \in Collectors
    /\ \A n \in Nodes : Stages(n) \subseteq AllStages
  <1>1. << >> \in Logs /\ << >> \in Pcr10s
    BY DEF Logs, Pcr10s
  <1>2. \A k \in Nat, p \in Platforms \cup {"zero"}, q \in Pcr10s : Quote(k, p, q) \in Quotes
    BY DEF Quote, Quotes
  <1>3. \A p \in Platforms \cup {"zero"}, q \in Pcr10s, l \in Logs, s \in Quotes :
          Request(p, q, l, s) \in Requests
    BY DEF Request, Requests
  <1>4. NoQuote \in Quotes
    BY <1>1, <1>2 DEF NoQuote, NoNonce
  <1>5. NoRequest \in Requests
    BY <1>1, <1>3, <1>4 DEF NoRequest
  <1>6. \A pc \in AllStages, q \in {"exporter", "runner"} : Collector(pc, q) \in Collectors
    BY <1>4, <1>5 DEF Collector, Collectors
  <1>7. \A n \in Nodes : Stages(n) \subseteq AllStages
    BY DEF AllStages, Nodes
  <1>8. Idle \in Collectors
    BY <1>6 DEF Idle, AllStages, Stages
  <1>9. NoAnswer \in Answered
    BY <1>1, <1>5 DEF NoAnswer, Answered
  <1>. QED  BY <1>1, <1>2, <1>3, <1>4, <1>5, <1>6, <1>7, <1>8, <1>9

KernelShown(n) ==
    /\ kernel[n].log \in Logs /\ kernel[n].platform \in Platforms
    /\ kernel[n].extended \in 0..Len(kernel[n].log)
    /\ Pcr10(n) \in Pcr10s /\ Len(Pcr10(n)) = kernel[n].extended
    /\ \A i \in 1..kernel[n].extended : Pcr10(n)[i] = Digest(kernel[n].log[i])
    /\ Prefix(Pcr10(n), Digests(kernel[n].log))

\* PCR 10 holds the digests of the first entries of the log.
LEMMA KernelFacts == TypeInv => \A n \in Nodes : KernelShown(n)
  <1>. SUFFICES ASSUME TypeInv, NEW n \in Nodes PROVE KernelShown(n)
    OBVIOUS
  <1>1. /\ kernel[n].log \in Logs /\ kernel[n].platform \in Platforms
        /\ kernel[n].extended \in 0..Len(kernel[n].log)
    <2>1. kernel[n] \in Kernels /\ (\/ kernel[n].extended = Len(kernel[n].log)
                                   \/ kernel[n].extended + 1 = Len(kernel[n].log))
      BY DEF TypeInv
    <2>2. kernel[n].log \in Logs /\ kernel[n].extended \in Nat /\ kernel[n].platform \in Platforms
      BY <2>1 DEF Kernels
    <2>3. Len(kernel[n].log) \in Nat
      BY <2>2 DEF Logs
    <2>. QED  BY <2>1, <2>2, <2>3
  <1>2. /\ Pcr10(n) \in Pcr10s /\ Len(Pcr10(n)) = kernel[n].extended
        /\ \A i \in 1..kernel[n].extended : Pcr10(n)[i] = Digest(kernel[n].log[i])
    BY <1>1, DigestsFacts DEF Pcr10
  <1>3. Prefix(Pcr10(n), Digests(kernel[n].log))
    BY <1>1, <1>2, DigestsFacts DEF Prefix
  <1>. QED  BY <1>1, <1>2, <1>3 DEF KernelShown

TypesAndStages == TypeInv /\ StagesOk

\* The initial states are typed.
LEMMA TypeInit == Init => TypesAndStages
  <1>. SUFFICES ASSUME Init PROVE TypesAndStages
    OBVIOUS
  <1>1. site \subseteq Features /\ faults \subseteq FaultKinds /\ site \cup faults \in Cases
    <2>1. PICK case \in Cases : site = case \cap Features /\ faults = case \cap FaultKinds
      BY DEF Init
    <2>2. case \subseteq Features \cup FaultKinds
      BY BootAssumption
    <2>3. site \cup faults = case
      BY <2>1, <2>2
    <2>. QED  BY <2>1, <2>3
  <1>2. kernel \in [Nodes -> Kernels] /\ \A n \in Nodes : kernel[n].extended = Len(kernel[n].log)
    <2>1. PICK p \in BootedWith :
            kernel = [n \in Nodes |-> [log |-> << >>, extended |-> 0, platform |-> p]]
      BY DEF Init
    <2>2. p \in Platforms
      BY DEF BootedWith, Platforms
    <2>. QED  BY <2>1, <2>2, RecordsTyped DEF Kernels
  <1>3. /\ slot \in [Nodes -> Nat] /\ attested \in BOOLEAN /\ hostOk \in BOOLEAN
        /\ boot \in [Nodes -> Nat] /\ sent \in [Nodes -> SUBSET Requests]
    BY DEF Init, NoNonce
  <1>3a. issued \in Seq(Issues) /\ backed \in Seq(Nat)
    BY DEF Init
  <1>3b. snapshot \in [Nodes -> Logs]
    BY RecordsTyped DEF Init
  <1>3c. collector \in [Nodes -> Collectors]
    BY RecordsTyped DEF Init
  <1>3d. answer \in [Nodes -> Answered]
    BY RecordsTyped DEF Init
  <1>4. StagesOk
    BY DEF Init, StagesOk, StageOk, Idle, Collector, Stages
  <1>. QED  BY <1>1, <1>2, <1>3, <1>3a, <1>3b, <1>3c, <1>3d, <1>4 DEF TypesAndStages, TypeInv

\* The stages of the collectors of both nodes.
LEMMA StageNames ==
    /\ \A n \in Nodes : {"down", "nonce", "draft", "quote", "reread", "pcrs", "log",
                         "send", "up"} \subseteq Stages(n) /\ Stages(n) \subseteq AllStages
    /\ "publish" \in Stages("host") /\ "again" \in Stages("guest")
    /\ QuoteTries \in Nat \ {0} /\ SnapshotTries \in Nat \ {0}
  BY BootAssumption DEF Stages, AllStages, Nodes

\* The collector of n moves, typed, and no other one does.
MovesTyped(n) ==
    /\ collector' \in [Nodes -> Collectors]
    /\ StageOk(n, collector'[n])
    /\ \A x \in Nodes \ {n} : collector'[x] = collector[x]

\* Handing over to the runner is typed ...
LEMMA HandTyped ==
    ASSUME TypesAndStages, NEW n \in Nodes, NEW msg \in Requests, HandToRunner(n, msg)
    PROVE  MovesTyped(n)
  <1>1. RunnerStage(n) \in {"nonce", "send"} /\ RunnerStage(n) \in AllStages
    BY StageNames DEF RunnerStage
  <1>2. collector \in [Nodes -> Collectors] /\ RunnerStage(n) \in Stages(n)
    BY <1>1, StageNames DEF TypesAndStages, TypeInv
  <1>. DEFINE stage == RunnerStage(n)
  <1>3. collector' = [collector EXCEPT ![n].pc = stage, ![n].quoter = "runner",
                                       ![n].tries = 0, ![n].msg = msg]
    BY DEF HandToRunner
  <1>. HIDE DEF stage
  <1>4. stage \in AllStages
    BY <1>1 DEF stage
  <1>5. collector' \in [Nodes -> Collectors]
    BY <1>2, <1>3, <1>4, ZenonT(60) DEF Collectors
  <1>6. collector'[n].pc = stage /\ \A x \in Nodes \ {n} : collector'[x] = collector[x]
    BY <1>2, <1>3 DEF Collectors
  <1>. QED  BY <1>1, <1>2, <1>5, <1>6 DEF MovesTyped, StageOk, stage

\* ... and so is giving up ...
LEMMA IdleTyped ==
    ASSUME TypesAndStages, NEW n \in Nodes, collector' = [collector EXCEPT ![n] = Idle]
    PROVE  MovesTyped(n)
  <1>1. Idle \in Collectors /\ Idle.pc = "down"
    BY RecordsTyped DEF Idle, Collector
  <1>. QED  BY <1>1, StageNames DEF TypesAndStages, TypeInv, MovesTyped, StageOk

\* ... and going on without a quote.
LEMMA UnquotedTyped ==
    ASSUME TypesAndStages, NEW n \in Nodes, Unquoted(n)
    PROVE  MovesTyped(n)
  <1>1. collector \in [Nodes -> Collectors] /\ NoQuote \in Quotes
        /\ "pcrs" \in AllStages /\ "send" \in AllStages
        /\ "pcrs" \in Stages(n) /\ "send" \in Stages(n)
    BY StageNames, RecordsTyped DEF TypesAndStages, TypeInv
  <1>. DEFINE stage == IF collector[n].quoter = "exporter" THEN "pcrs" ELSE "send"
  <1>2. /\ stage \in {"pcrs", "send"}
        /\ collector' = [collector EXCEPT ![n].pc = stage, ![n].tries = 0, ![n].draft = NoQuote]
    BY DEF Unquoted
  <1>. HIDE DEF stage
  <1>3. collector' \in [Nodes -> Collectors]
    BY <1>1, <1>2, ZenonT(60) DEF Collectors
  <1>4. /\ collector'[n].pc = stage /\ collector'[n].tries = 0
        /\ \A x \in Nodes \ {n} : collector'[x] = collector[x]
    BY <1>1, <1>2 DEF Collectors
  <1>. QED  BY <1>1, <1>2, <1>3, <1>4, StageNames DEF MovesTyped, StageOk

\* What a collector does between its start and its request.
Works(n) ==
    \/ ReadCopy(n) \/ ReadCopiedLog(n) \/ ReadPcrs(n) \/ ReadLog(n) \/ ReadAgain(n)
    \/ ReadFails(n) \/ DraftQuote(n) \/ SignQuote(n) \/ QuoteFails(n) \/ RereadLog(n)
    \/ Stop(n)

\* Each step between start and request is typed.
LEMMA WorksTyped ==
    ASSUME TypesAndStages, NEW n \in Nodes, Works(n)
    PROVE  MovesTyped(n)
  <1>0. /\ collector \in [Nodes -> Collectors] /\ collector[n] \in Collectors
        /\ StageOk(n, collector[n])
        /\ kernel[n].platform \in Platforms /\ kernel[n].log \in Logs /\ Pcr10(n) \in Pcr10s
        /\ snapshot[n] \in Logs /\ Digests(snapshot[n]) \in Pcr10s
        /\ collector[n].msg \in Requests /\ collector[n].tries \in Nat
        /\ collector[n].draft \in Quotes
    BY KernelFacts, DigestsFacts DEF KernelShown, TypesAndStages, TypeInv, StagesOk, Collectors
  <1>s. \A pc \in {"pcrs", "log", "draft", "quote", "reread", "send"} :
           pc \in AllStages /\ pc \in Stages(n)
    BY StageNames
  <1>1. CASE ReadCopy(n)
    <2>1. Request(kernel[n].platform, Digests(snapshot[n]), snapshot[n], NoQuote) \in Requests
      BY <1>0, RecordsTyped
    <2>. QED  BY <1>1, <2>1, HandTyped, IdleTyped DEF ReadCopy
  <1>2. CASE ReadCopiedLog(n)
    <2>1. Request(kernel[n].platform, Pcr10(n), snapshot[n], NoQuote) \in Requests
      BY <1>0, RecordsTyped
    <2>. QED  BY <1>2, <2>1, HandTyped DEF ReadCopiedLog
  <1>3. CASE ReadPcrs(n)
    <2>1. collector' \in [Nodes -> Collectors]
      BY <1>0, <1>s, <1>3 DEF ReadPcrs, Collectors, Requests
    <2>2. /\ collector'[n].pc = "log" /\ collector'[n].tries = collector[n].tries
          /\ collector[n].pc = "pcrs"
          /\ \A x \in Nodes \ {n} : collector'[x] = collector[x]
      BY <1>0, <1>3 DEF ReadPcrs, At, Collectors, Requests
    <2>. QED  BY <1>0, <1>s, <2>1, <2>2 DEF MovesTyped, StageOk
  <1>4. CASE ReadLog(n)
    <2>1. [collector[n].msg EXCEPT !.log = kernel[n].log] \in Requests
      BY <1>0 DEF Requests
    <2>2. CASE n = "host"
      BY <1>4, <2>1, <2>2, HandTyped DEF ReadLog
    <2>3. CASE n # "host"
      <3>1. "again" \in AllStages /\ "again" \in Stages(n)
        BY <2>3, StageNames DEF Nodes
      <3>2. collector' = [collector EXCEPT ![n].pc = "again",
                                     ![n].msg = [collector[n].msg EXCEPT !.log = kernel[n].log]]
        BY <1>4, <2>3 DEF ReadLog
      <3>3. collector' \in [Nodes -> Collectors]
        BY <1>0, <2>1, <3>1, <3>2 DEF Collectors
      <3>4. /\ collector'[n].pc = "again" /\ collector'[n].tries = collector[n].tries
            /\ \A x \in Nodes \ {n} : collector'[x] = collector[x]
        BY <1>0, <3>2 DEF Collectors
      <3>5. collector[n].pc = "log"
        BY <1>4 DEF ReadLog, At
      <3>. QED  BY <1>0, <3>1, <3>3, <3>4, <3>5 DEF MovesTyped, StageOk
    <2>. QED  BY <2>2, <2>3
  <1>5. CASE ReadAgain(n)
    <2>1. CASE collector[n].msg.pcr10 = Pcr10(n)
      BY <1>0, <1>5, <2>1, HandTyped DEF ReadAgain
    <2>2. CASE /\ collector[n].tries + 1 < SnapshotTries
               /\ collector' = [collector EXCEPT ![n].pc = "pcrs", ![n].tries = @ + 1]
      <3>1. collector' \in [Nodes -> Collectors]
        BY <1>0, <1>s, <2>2 DEF Collectors
      <3>2. /\ collector'[n].pc = "pcrs" /\ collector'[n].tries = collector[n].tries + 1
            /\ \A x \in Nodes \ {n} : collector'[x] = collector[x]
        BY <1>0, <2>2 DEF Collectors
      <3>. QED  BY <1>0, <1>s, <2>2, <3>1, <3>2 DEF MovesTyped, StageOk
    <2>3. CASE collector' = [collector EXCEPT ![n] = Idle]
      BY <2>3, IdleTyped
    <2>. QED  BY <1>5, <2>1, <2>2, <2>3 DEF ReadAgain
  <1>6. CASE ReadFails(n)
    <2>1. CASE At(n, "pcrs") /\ collector' = [collector EXCEPT ![n].pc = "log"]
      <3>1. collector' \in [Nodes -> Collectors]
        BY <1>0, <1>s, <2>1 DEF Collectors
      <3>2. /\ collector'[n].pc = "log" /\ collector'[n].tries = collector[n].tries
            /\ collector[n].pc = "pcrs"
            /\ \A x \in Nodes \ {n} : collector'[x] = collector[x]
        BY <1>0, <2>1 DEF Collectors, At
      <3>. QED  BY <1>0, <1>s, <3>1, <3>2 DEF MovesTyped, StageOk
    <2>. QED  BY <1>6, <2>1, IdleTyped DEF ReadFails
  <1>7. CASE DraftQuote(n)
    <2>1. collector' \in [Nodes -> Collectors]
      BY <1>0, <1>s, <1>7 DEF DraftQuote, Collectors, Quotes
    <2>2. /\ collector'[n].pc = "quote" /\ collector'[n].tries = collector[n].tries
          /\ collector[n].pc = "draft"
          /\ \A x \in Nodes \ {n} : collector'[x] = collector[x]
      BY <1>0, <1>7 DEF DraftQuote, At, Collectors, Quotes
    <2>. QED  BY <1>0, <1>s, <2>1, <2>2 DEF MovesTyped, StageOk
  <1>8. CASE SignQuote(n)
    <2>0. DEFINE draft == collector[n].draft
                 signed == Quote(draft.nonce, kernel[n].platform, Pcr10(n))
    <2>1. collector[n].pc = "quote" /\ signed \in Quotes /\ NoQuote \in Quotes
      <3>1. draft.nonce \in Nat
        BY <1>0 DEF Quotes
      <3>. QED  BY <1>0, <1>8, <3>1, RecordsTyped DEF SignQuote, At
    <2>2. CASE MatchesDraft(n, signed)
      <3>1. collector' = [collector EXCEPT ![n].pc = "reread",
                                           ![n].msg.platform = draft.platform,
                                           ![n].msg.pcr10 = draft.pcr10,
                                           ![n].msg.quote = signed,
                                           ![n].draft = NoQuote]
        BY <1>8, <2>2 DEF SignQuote
      <3>2. draft.platform \in Platforms \cup {"zero"} /\ draft.pcr10 \in Pcr10s
        BY <1>0 DEF Quotes
      <3>. HIDE DEF signed, draft
      <3>3. collector' \in [Nodes -> Collectors]
        BY <1>0, <1>s, <2>1, <3>1, <3>2, ZenonT(60) DEF Collectors, Requests
      <3>4. /\ collector'[n].pc = "reread"
            /\ \A x \in Nodes \ {n} : collector'[x] = collector[x]
        BY <1>0, <3>1 DEF Collectors, Requests
      <3>. QED  BY <1>s, <3>3, <3>4 DEF MovesTyped, StageOk
    <2>3. CASE /\ collector[n].tries + 1 < QuoteTries
               /\ collector' = [collector EXCEPT ![n].pc = "draft", ![n].tries = @ + 1]
      <3>1. collector' \in [Nodes -> Collectors]
        BY <1>0, <1>s, <2>3 DEF Collectors
      <3>2. /\ collector'[n].pc = "draft" /\ collector'[n].tries = collector[n].tries + 1
            /\ \A x \in Nodes \ {n} : collector'[x] = collector[x]
        BY <1>0, <2>3 DEF Collectors
      <3>. QED  BY <1>0, <1>s, <2>3, <3>1, <3>2 DEF MovesTyped, StageOk
    <2>4. CASE Unquoted(n)
      BY <2>4, UnquotedTyped
    <2>. QED  BY <1>8, <2>2, <2>3, <2>4 DEF SignQuote
  <1>9. CASE QuoteFails(n)
    BY <1>9, UnquotedTyped DEF QuoteFails
  <1>10. CASE RereadLog(n)
    <2>1. LogAfterQuote(n) \in Logs
      BY <1>0 DEF LogAfterQuote
    <2>2. CASE collector' = [collector EXCEPT ![n].pc = "send", ![n].msg.log = LogAfterQuote(n)]
      <3>1. collector' \in [Nodes -> Collectors]
        BY <1>0, <1>s, <2>1, <2>2 DEF Collectors, Requests
      <3>2. collector'[n].pc = "send" /\ \A x \in Nodes \ {n} : collector'[x] = collector[x]
        BY <1>0, <2>2 DEF Collectors, Requests
      <3>. QED  BY <1>s, <3>1, <3>2 DEF MovesTyped, StageOk
    <2>3. CASE collector' = [collector EXCEPT ![n].pc = "send"]
      <3>1. collector' \in [Nodes -> Collectors]
        BY <1>0, <1>s, <2>3 DEF Collectors
      <3>2. collector'[n].pc = "send" /\ \A x \in Nodes \ {n} : collector'[x] = collector[x]
        BY <1>0, <2>3 DEF Collectors
      <3>. QED  BY <1>s, <3>1, <3>2 DEF MovesTyped, StageOk
    <2>. QED  BY <1>10, <2>2, <2>3, IdleTyped DEF RereadLog
  <1>11. CASE Stop(n)
    BY <1>11, IdleTyped DEF Stop
  <1>. QED  BY <1>1, <1>2, <1>3, <1>4, <1>5, <1>6, <1>7, <1>8, <1>9, <1>10, <1>11 DEF Works

-----------------------------------------------------------------------------
(* Types *)

\* Types and values of what an answer writes.
LEMMA AnswersTyped ==
    ASSUME TypeInv, NEW n \in Nodes, NEW m \in Requests, NEW reply, Answers(n, m, reply)
    PROVE  /\ answer' \in [Nodes -> Answered] /\ slot' \in [Nodes -> Nat]
           /\ backed' \in Seq(Nat) /\ hostOk' \in BOOLEAN
           /\ \A x \in Nodes \ {n} : answer'[x] = answer[x] /\ slot'[x] = slot[x]
           /\ answer'[n].request = m /\ answer'[n].status = Status(n, m, reply)
           /\ answer'[n].quoted <=> Status(n, m, reply) = 0 /\ AkKnown(n, reply)
           /\ answer'[n].boot = boot[n] /\ answer'[n].pcr10 = Pcr10(n)
           /\ slot'[n] = IF TakesNonce(n, m, reply) THEN NoNonce ELSE slot[n]
           /\ backed' = IF Status(n, m, reply) = 0 /\ AkKnown(n, reply)
                        THEN Append(backed, m.quote.nonce) ELSE backed
           /\ hostOk' <=> hostOk \/ (n = "host" /\ Status(n, m, reply) = 0)
  <1>. DEFINE status == Status(n, m, reply)
              quoted == status = 0 /\ AkKnown(n, reply)
              a == [request |-> m, status |-> status, quoted |-> quoted,
                    boot |-> boot[n], pcr10 |-> Pcr10(n)]
  <1>0. /\ answer \in [Nodes -> Answered] /\ slot \in [Nodes -> Nat] /\ boot[n] \in Nat
        /\ Pcr10(n) \in Pcr10s /\ status \in Int /\ m.quote.nonce \in Nat
        /\ backed \in Seq(Nat) /\ hostOk \in BOOLEAN
    BY KernelFacts, AlarmFacts DEF KernelShown, TypeInv, Requests, Quotes
  <1>1. /\ answer' = [answer EXCEPT ![n] = a]
        /\ slot' = [slot EXCEPT ![n] = IF TakesNonce(n, m, reply) THEN NoNonce ELSE @]
        /\ backed' = IF quoted THEN Append(backed, m.quote.nonce) ELSE backed
        /\ hostOk' = (hostOk \/ (n = "host" /\ status = 0))
    BY DEF Answers
  <1>q. quoted \in BOOLEAN
    OBVIOUS
  <1>2. a \in Answered /\ a.request = m /\ a.status = status /\ (a.quoted <=> quoted)
        /\ a.boot = boot[n] /\ a.pcr10 = Pcr10(n)
    <2>. HIDE DEF status, quoted
    <2>. QED  BY <1>0, <1>q DEF Answered
  <1>. HIDE DEF a
  <1>3. /\ answer' \in [Nodes -> Answered] /\ answer'[n] = a
        /\ \A x \in Nodes \ {n} : answer'[x] = answer[x]
    BY <1>0, <1>1, <1>2
  <1>4. /\ slot' \in [Nodes -> Nat] /\ \A x \in Nodes \ {n} : slot'[x] = slot[x]
        /\ slot'[n] = IF TakesNonce(n, m, reply) THEN NoNonce ELSE slot[n]
    BY <1>0, <1>1 DEF NoNonce
  <1>5. backed' \in Seq(Nat) /\ hostOk' \in BOOLEAN
    BY <1>0, <1>1
  <1>. QED  BY <1>0, <1>1, <1>2, <1>3, <1>4, <1>5

\* A collector at work writes only its own variable.
LEMMA WorksKeeps ==
    ASSUME NEW n, Works(n)
    PROVE  UNCHANGED <<chosen, machine, enclave, attested, bounds, issued, sent>>
  <1>1. CASE ReadCopy(n) \/ ReadCopiedLog(n)
    BY <1>1 DEF ReadCopy, ReadCopiedLog
  <1>2. CASE ReadPcrs(n) \/ ReadLog(n) \/ ReadAgain(n)
    BY <1>2 DEF ReadPcrs, ReadLog, ReadAgain
  <1>3. CASE ReadFails(n) \/ DraftQuote(n) \/ SignQuote(n)
    BY <1>3 DEF ReadFails, DraftQuote, SignQuote
  <1>4. CASE QuoteFails(n) \/ RereadLog(n) \/ Stop(n)
    BY <1>4 DEF QuoteFails, RereadLog, Stop
  <1>. QED  BY <1>1, <1>2, <1>3, <1>4 DEF Works

\* Every step is typed.
LEMMA TypeStep == TypesAndStages /\ [Next]_vars => TypesAndStages'
  <1>. SUFFICES ASSUME TypesAndStages, [Next]_vars PROVE TypesAndStages'
    OBVIOUS
  <1>0. TypeInv /\ StagesOk
    BY DEF TypesAndStages
  <1>1. ASSUME NEW n \in Nodes, Measure(n) PROVE TypesAndStages'
    <2>1. PICK e \in Entries : kernel' = [kernel EXCEPT ![n].log = Append(@, e)]
      BY <1>1 DEF Measure
    <2>2. /\ kernel[n] \in Kernels /\ kernel[n].log \in Logs /\ kernel[n].extended \in Nat
          /\ kernel \in [Nodes -> Kernels] /\ kernel[n].extended = Len(kernel[n].log)
      BY <1>0, <1>1 DEF TypeInv, Kernels, Measure, Settled
    <2>3. Append(kernel[n].log, e) \in Logs
          /\ Len(Append(kernel[n].log, e)) = Len(kernel[n].log) + 1
      BY <2>2 DEF Logs
    <2>4. kernel' \in [Nodes -> Kernels]
      BY <2>1, <2>2, <2>3 DEF Kernels
    <2>5. /\ kernel'[n].log = Append(kernel[n].log, e)
          /\ kernel'[n].extended = kernel[n].extended
          /\ \A x \in Nodes \ {n} : kernel'[x] = kernel[x]
      BY <2>1, <2>2 DEF Kernels
    <2>6. \A x \in Nodes : \/ kernel'[x].extended = Len(kernel'[x].log)
                           \/ kernel'[x].extended + 1 = Len(kernel'[x].log)
      BY <1>0, <2>2, <2>3, <2>5 DEF TypeInv
    <2>. QED  BY <1>0, <1>1, <2>4, <2>6
              DEF Measure, TypesAndStages, TypeInv, StagesOk, chosen, enclave
  <1>2. ASSUME NEW n \in Nodes, Extend(n) PROVE TypesAndStages'
    <2>1. /\ kernel[n] \in Kernels /\ kernel[n].extended \in Nat
          /\ kernel \in [Nodes -> Kernels] /\ kernel[n].extended + 1 = Len(kernel[n].log)
          /\ kernel' = [kernel EXCEPT ![n].extended = @ + 1]
      BY <1>0, <1>2 DEF TypeInv, Kernels, Extend, Settled
    <2>2. kernel' \in [Nodes -> Kernels]
      BY <2>1, SMTT(30) DEF Kernels
    <2>3. /\ kernel'[n].log = kernel[n].log
          /\ kernel'[n].extended = kernel[n].extended + 1
          /\ \A x \in Nodes \ {n} : kernel'[x] = kernel[x]
      BY <2>1 DEF Kernels
    <2>4. \A x \in Nodes : \/ kernel'[x].extended = Len(kernel'[x].log)
                           \/ kernel'[x].extended + 1 = Len(kernel'[x].log)
      BY <1>0, <2>1, <2>3 DEF TypeInv
    <2>. QED  BY <1>0, <1>2, <2>2, <2>4
              DEF Extend, TypesAndStages, TypeInv, StagesOk, chosen, enclave
  <1>3. ASSUME NEW n \in Nodes, CopyLog(n) PROVE TypesAndStages'
    <2>1. SubSeq(kernel[n].log, 1, kernel[n].extended) \in Logs
      BY <1>0, KernelFacts, DigestsFacts DEF KernelShown
    <2>2. snapshot' \in [Nodes -> Logs]
      BY <1>0, <1>3, <2>1 DEF CopyLog, TypeInv
    <2>. QED  BY <1>0, <1>3, <2>2
              DEF CopyLog, TypesAndStages, TypeInv, StagesOk, chosen, enclave
  <1>4. ASSUME NEW n \in Nodes, Reboot(n) PROVE TypesAndStages'
    <2>. DEFINE gone == IF n = "host" THEN Nodes ELSE {n}
    <2>1. PICK p \in BootedWith :
            kernel' = [x \in Nodes |-> IF x \in gone
                                       THEN [log |-> << >>, extended |-> 0, platform |-> p]
                                       ELSE kernel[x]]
      BY <1>4 DEF Reboot
    <2>2. /\ boot' = [x \in Nodes |-> IF x \in gone THEN boot[x] + 1 ELSE boot[x]]
          /\ collector' = [x \in Nodes |-> IF x \in gone THEN Idle ELSE collector[x]]
          /\ slot' = [x \in Nodes |-> IF x \in gone THEN NoNonce ELSE slot[x]]
      BY <1>4 DEF Reboot
    <2>. HIDE DEF gone
    <2>3. p \in Platforms
      BY DEF BootedWith, Platforms
    <2>4. [log |-> << >>, extended |-> 0, platform |-> p] \in Kernels
      BY <2>3, RecordsTyped DEF Kernels
    <2>5. kernel' \in [Nodes -> Kernels]
      BY <1>0, <2>1, <2>4 DEF TypeInv
    <2>6. \A x \in Nodes : \/ kernel'[x].extended = Len(kernel'[x].log)
                           \/ kernel'[x].extended + 1 = Len(kernel'[x].log)
      BY <1>0, <2>1 DEF TypeInv
    <2>7. boot' \in [Nodes -> Nat] /\ slot' \in [Nodes -> Nat]
      BY <1>0, <2>2 DEF TypeInv, NoNonce
    <2>8. collector' \in [Nodes -> Collectors]
      BY <1>0, <2>2, RecordsTyped DEF TypeInv
    <2>9. StagesOk'
      <3>1. Idle.pc = "down"
        BY DEF Idle, Collector
      <3>. QED  BY <1>0, <2>2, <3>1, StageNames DEF StagesOk, StageOk
    <2>. QED  BY <1>0, <1>4, <2>5, <2>6, <2>7, <2>8, <2>9
              DEF Reboot, TypesAndStages, TypeInv, chosen
  <1>5. ASSUME NEW n \in Nodes, Start(n) PROVE TypesAndStages'
    <2>1. PICK h \in FileHashes :
            LET e == Entry("collector", h)
                log == IF InLog(n, e) THEN kernel[n].log ELSE Append(kernel[n].log, e)
            IN  kernel' = [kernel EXCEPT ![n].log = log, ![n].extended = Len(log)]
      BY <1>5 DEF Start
    <2>. DEFINE e == Entry("collector", h)
                log == IF InLog(n, e) THEN kernel[n].log ELSE Append(kernel[n].log, e)
                stage == IF n = "guest" /\ "gpu" \in site THEN "nonce" ELSE "pcrs"
    <2>2. e \in Entries
      BY EntryFacts DEF FileHashes, Hashes, Files
    <2>3. kernel[n].log \in Logs /\ kernel \in [Nodes -> Kernels]
      BY <1>0 DEF TypeInv, Kernels
    <2>4. log \in Logs /\ Len(log) \in Nat
      <3>1. Append(kernel[n].log, e) \in Logs
        <4>. HIDE DEF e
        <4>. QED  BY <2>2, <2>3 DEF Logs
      <3>2. log \in Logs
        BY <2>3, <3>1
      <3>. HIDE DEF log
      <3>. QED  BY <3>2 DEF Logs
    <2>5. kernel' = [kernel EXCEPT ![n].log = log, ![n].extended = Len(log)]
      BY <2>1
    <2>6. collector' = [collector EXCEPT ![n] = Collector(stage, "exporter")]
          /\ stage \in {"nonce", "pcrs"}
      BY <1>5 DEF Start
    <2>. HIDE DEF e, log, stage
    <2>7. kernel' \in [Nodes -> Kernels]
      BY <2>3, <2>4, <2>5 DEF Kernels
    <2>8. /\ kernel'[n].log = log /\ kernel'[n].extended = Len(log)
          /\ \A x \in Nodes \ {n} : kernel'[x] = kernel[x]
      BY <2>3, <2>5 DEF Kernels
    <2>9. \A x \in Nodes : \/ kernel'[x].extended = Len(kernel'[x].log)
                           \/ kernel'[x].extended + 1 = Len(kernel'[x].log)
      BY <1>0, <2>8 DEF TypeInv
    <2>10. /\ Collector(stage, "exporter") \in Collectors
           /\ Collector(stage, "exporter").pc = stage /\ Collector(stage, "exporter").tries = 0
           /\ stage \in Stages(n)
      <3>1. stage \in AllStages /\ stage \in Stages(n)
        BY <2>6, StageNames
      <3>. QED  BY <3>1, RecordsTyped DEF Collector
    <2>11. collector' \in [Nodes -> Collectors] /\ StagesOk'
      BY <1>0, <2>6, <2>10, StageNames DEF TypeInv, StagesOk, StageOk
    <2>12. slot' \in [Nodes -> Nat]
      BY <1>0, <1>5 DEF Start, TypeInv, NoNonce
    <2>. QED  BY <1>0, <1>5, <2>7, <2>9, <2>11, <2>12
              DEF Start, TypesAndStages, TypeInv, chosen
  <1>6. ASSUME NEW n \in Nodes, GetNonce(n) PROVE TypesAndStages'
    <2>. DEFINE nonce == Len(issued) + 1
                issue == [node |-> n, boot |-> boot[n], length |-> kernel[n].extended]
    <2>. DEFINE draft == Quote(nonce, "zero", << >>)
    <2>1. /\ slot' = [slot EXCEPT ![n] = nonce]
          /\ issued' = Append(issued, issue)
          /\ collector' = [collector EXCEPT ![n].pc = "draft", ![n].tries = 0,
                                            ![n].draft = draft]
      BY <1>6 DEF GetNonce
    <2>2. nonce \in Nat /\ issue \in Issues
      BY <1>0, KernelFacts DEF KernelShown, TypeInv, Issues
    <2>. HIDE DEF nonce, issue
    <2>3. draft \in Quotes /\ collector \in [Nodes -> Collectors]
      BY <1>0, <2>2, RecordsTyped DEF TypeInv
    <2>4. "draft" \in AllStages /\ "draft" \in Stages(n)
      BY StageNames
    <2>. HIDE DEF draft
    <2>5. collector' \in [Nodes -> Collectors]
      BY <2>1, <2>3, <2>4, ZenonT(60) DEF Collectors
    <2>6. /\ collector'[n].pc = "draft" /\ collector'[n].tries = 0
          /\ \A x \in Nodes \ {n} : collector'[x] = collector[x]
      BY <2>1, <2>3 DEF Collectors
    <2>7. StagesOk'
      BY <1>0, <2>4, <2>6, StageNames DEF StagesOk, StageOk
    <2>8. slot' \in [Nodes -> Nat] /\ issued' \in Seq(Issues)
      BY <1>0, <2>1, <2>2 DEF TypeInv
    <2>. QED  BY <1>0, <1>6, <2>5, <2>7, <2>8
              DEF GetNonce, TypesAndStages, TypeInv, chosen, machine
  <1>7. ASSUME NEW n \in Nodes, Works(n) PROVE TypesAndStages'
    <2>1. UNCHANGED <<chosen, machine, enclave, attested, bounds, issued, sent>>
      BY <1>7, WorksKeeps
    <2>3. MovesTyped(n)
      BY <1>7, WorksTyped
    <2>4. collector' \in [Nodes -> Collectors] /\ StagesOk'
      BY <1>0, <2>3 DEF MovesTyped, StagesOk, StageOk
    <2>. QED  BY <1>0, <2>1, <2>4 DEF TypesAndStages, TypeInv, chosen, machine, enclave
  <1>8. ASSUME NEW n \in Nodes, Verify(n) PROVE TypesAndStages'
    <2>. DEFINE m == collector[n].msg
    <2>1. PICK reply \in Replies(n) :
            /\ Answers(n, m, reply)
            /\ collector' = [collector EXCEPT ![n] =
                               Collector(StageAfter(n, Status(n, m, reply)), "exporter")]
            /\ sent' = [sent EXCEPT ![n] = IF "resend" \in faults THEN @ \cup {m} ELSE @]
      BY <1>8 DEF Verify
    <2>2. m \in Requests
      BY <1>0 DEF TypeInv, Collectors
    <2>. DEFINE stage == StageAfter(n, Status(n, m, reply))
    <2>. HIDE DEF m
    <2>3. answer' \in [Nodes -> Answered] /\ slot' \in [Nodes -> Nat]
          /\ backed' \in Seq(Nat) /\ hostOk' \in BOOLEAN
      BY <1>0, <2>1, <2>2, AnswersTyped
    <2>4. sent' \in [Nodes -> SUBSET Requests]
      BY <1>0, <2>1, <2>2 DEF TypeInv
    <2>5. stage \in Stages(n) /\ stage \in AllStages
          /\ stage \notin {"draft", "quote", "pcrs", "log", "again"}
      BY StageNames DEF StageAfter, Nodes
    <2>6. collector' = [collector EXCEPT ![n] = Collector(stage, "exporter")]
      BY <2>1
    <2>. HIDE DEF stage
    <2>7. Collector(stage, "exporter") \in Collectors /\ Collector(stage, "exporter").pc = stage
      BY <2>5, RecordsTyped DEF Collector
    <2>8. collector' \in [Nodes -> Collectors] /\ StagesOk'
      BY <1>0, <2>5, <2>6, <2>7 DEF TypeInv, StagesOk, StageOk
    <2>. QED  BY <1>0, <1>8, <2>3, <2>4, <2>8
              DEF Verify, TypesAndStages, TypeInv, chosen, machine
  <1>9. ASSUME NEW n \in Nodes, Resend(n) PROVE TypesAndStages'
    <2>1. PICK m \in sent[n], reply \in Replies(n) : Answers(n, m, reply)
      BY <1>9 DEF Resend
    <2>2. m \in Requests
      BY <1>0 DEF TypeInv
    <2>3. answer' \in [Nodes -> Answered] /\ slot' \in [Nodes -> Nat]
          /\ backed' \in Seq(Nat) /\ hostOk' \in BOOLEAN
      BY <1>0, <2>1, <2>2, AnswersTyped
    <2>. QED  BY <1>0, <1>9, <2>3
              DEF Resend, TypesAndStages, TypeInv, StagesOk, chosen, machine
  <1>10. ASSUME Publish PROVE TypesAndStages'
    <2>1. collector' = [collector EXCEPT !["host"].pc = "up"] /\ "host" \in Nodes
          /\ "up" \in AllStages /\ \A n \in Nodes : "up" \in Stages(n)
      BY <1>10, StageNames DEF Publish, Nodes
    <2>2. collector' \in [Nodes -> Collectors]
      BY <1>0, <2>1 DEF TypeInv, Collectors
    <2>3. /\ collector'["host"].pc = "up"
          /\ \A x \in Nodes \ {"host"} : collector'[x] = collector[x]
      BY <1>0, <2>1 DEF TypeInv, Collectors
    <2>4. StagesOk'
      BY <1>0, <2>1, <2>3 DEF StagesOk, StageOk
    <2>5. attested' \in BOOLEAN
      BY <1>0, <1>10 DEF Publish, TypeInv
    <2>. QED  BY <1>0, <1>10, <2>2, <2>4, <2>5
              DEF Publish, TypesAndStages, TypeInv, chosen, machine, enclave
  <1>11. CASE UNCHANGED vars
    BY <1>0, <1>11 DEF TypesAndStages, TypeInv, StagesOk, vars, chosen, machine, enclave
  <1>. QED  BY <1>1, <1>2, <1>3, <1>4, <1>5, <1>6, <1>7, <1>8, <1>9, <1>10, <1>11
            DEF Next, Works, Rest

-----------------------------------------------------------------------------
(* Nonces, quotes and what a step leaves of them *)

\* Nonce k was issued in this boot of node n, and what PCR 10 held by then it
\* still holds.
Current(n, k) ==
    /\ k \in 1..Len(issued)
    /\ issued[k].node = n
    /\ issued[k].boot = boot[n]
    /\ issued[k].length <= kernel[n].extended

\* A slot holds a current nonce that has backed nothing yet.
SlotsCurrent ==
    /\ \A n \in Nodes : slot[n] # NoNonce =>
          Current(n, slot[n]) /\ \A i \in 1..Len(backed) : backed[i] # slot[n]
    /\ \A i \in 1..Len(backed) : backed[i] \in 1..Len(issued)

DraftsCurrent ==
    \A n \in Nodes : collector[n].pc \in {"draft", "quote"} =>
        Current(n, collector[n].draft.nonce)

\* A quote of node n shows what PCR 10 held after its nonce was issued.
Genuine(n, q) ==
    q # NoQuote =>
        /\ q.platform \in Platforms
        /\ q.nonce \in 1..Len(issued)
        /\ issued[q.nonce].node = n
        /\ issued[q.nonce].boot <= boot[n]
        /\ issued[q.nonce].length <= Len(q.pcr10)
        /\ issued[q.nonce].boot = boot[n] => Prefix(q.pcr10, Pcr10(n))

QuotesGenuine ==
    \A n \in Nodes : /\ Genuine(n, collector[n].msg.quote)
                     /\ \A m \in sent[n] : Genuine(n, m.quote)

\* Nothing says that the host is attested before its enclave admitted it.
HostFirst == (attested \/ collector["host"].pc = "publish") => hostOk

\* The conjuncts of AdmittedIsFresh and AdmittedIsRegistered, for one answer.
FreshAnswer(n) ==
    /\ HasAk(n) /\ answer[n].status = 0 /\ "blank" \notin faults => answer[n].quoted
    /\ answer[n].quoted =>
        LET a == answer[n]
            m == a.request
            at == issued[m.quote.nonce]
        IN  /\ m.quote = Quote(m.quote.nonce, m.platform, m.pcr10)
            /\ m.quote.nonce \in 1..Len(issued)
            /\ at.node = n /\ at.boot = a.boot
            /\ at.length <= Len(m.pcr10)
            /\ Len(m.pcr10) <= Len(a.pcr10)
            /\ m.pcr10 = SubSeq(a.pcr10, 1, Len(m.pcr10))

ShowsRegistered(n, m) ==
    /\ \E i \in 1..Len(m.pcr10) : m.pcr10[i] = Entry("collector", "good")
    /\ \A i \in 1..Len(m.pcr10), f \in OtherFiles(n) \cup {"collector"} :
         m.pcr10[i] = Entry(f, "bad") =>
             \E j \in i..Len(m.pcr10) : m.pcr10[j] = Entry(f, "good")
    /\ m.platform = "good"

HostBelow ==
    "parent" \in site /\ answer["guest"].status = 0 => hostOk

RegisteredAnswers ==
    faults \cap {"registry", "blank"} = {} =>
        /\ \A n \in Nodes : answer[n].quoted => ShowsRegistered(n, answer[n].request)
        /\ HostBelow

BootInv == /\ TypesAndStages /\ SlotsCurrent /\ DraftsCurrent /\ QuotesGenuine
           /\ HostFirst /\ NonceAdmitsOnce /\ RegisteredAnswers
           /\ \A n \in Nodes : FreshAnswer(n)

\* What one step does to a node: its PCR 10 grows, or it boots again.
Grows(n) ==
    \/ /\ boot'[n] = boot[n]
       /\ kernel[n].extended <= kernel'[n].extended
       /\ Prefix(Pcr10(n), Pcr10(n)')
    \/ boot[n] < boot'[n] /\ slot'[n] = NoNonce /\ collector'[n] = Idle

IssuesGrow == \A k \in 1..Len(issued) : k \in 1..Len(issued') /\ issued'[k] = issued[k]

\* KernelFacts, one step later.
LEMMA KernelFactsNext == (TypeInv => \A n \in Nodes : KernelShown(n))'
  BY KernelFacts, PTL

\* Types of what is known of a nonce.
LEMMA IssuesTyped ==
    ASSUME TypeInv, NEW k \in 1..Len(issued)
    PROVE  issued[k].boot \in Nat /\ issued[k].length \in Nat /\ issued[k].node \in Nodes
  <1>1. issued[k] \in Issues
    BY DEF TypeInv
  <1>. QED  BY <1>1 DEF Issues

\* What a step does to PCR 10 and to the nonces: within a boot both only grow.
LEMMA StepGrows ==
    ASSUME TypesAndStages, [Next]_vars, NEW n \in Nodes
    PROVE  Grows(n) /\ IssuesGrow /\ UNCHANGED chosen
  <1>0. TypeInv /\ TypeInv' /\ KernelShown(n)
    BY TypeStep, KernelFacts DEF TypesAndStages
  <1>0a. KernelShown(n)'
    BY <1>0, KernelFactsNext
  <1>1. ASSUME boot'[n] = boot[n], kernel[n].extended <= kernel'[n].extended,
               \A i \in 1..kernel[n].extended : kernel'[n].log[i] = kernel[n].log[i]
        PROVE  Grows(n)
    BY <1>0, <1>0a, <1>1 DEF Grows, KernelShown, Prefix
  <1>2. ASSUME boot' = boot, kernel' = kernel PROVE Grows(n)
    BY <1>0, <1>1, <1>2 DEF KernelShown
  <1>3. ASSUME issued' = issued PROVE IssuesGrow
    BY <1>3 DEF IssuesGrow
  <1>4. ASSUME NEW x \in Nodes, Measure(x) \/ Extend(x)
        PROVE  Grows(n) /\ IssuesGrow /\ UNCHANGED chosen
    <2>0. /\ boot' = boot /\ issued' = issued /\ UNCHANGED chosen
          /\ kernel \in [Nodes -> Kernels] /\ kernel[n].log \in Logs /\ kernel[n].extended \in Nat
          /\ kernel[n].extended <= Len(kernel[n].log) /\ Len(kernel[n].log) \in Nat
      BY <1>0, <1>4, SMTT(30) DEF Measure, Extend, TypeInv, KernelShown, Logs
    <2>1. CASE Measure(x)
      <3>1. PICK e \in Entries : kernel' = [kernel EXCEPT ![x].log = Append(@, e)]
        BY <2>1 DEF Measure
      <3>2. kernel'[n].extended = kernel[n].extended
            /\ kernel'[n].log \in {kernel[n].log, Append(kernel[n].log, e)}
        BY <2>0, <3>1 DEF Kernels
      <3>3. \A i \in 1..Len(kernel[n].log) : Append(kernel[n].log, e)[i] = kernel[n].log[i]
        BY <2>0 DEF Logs
      <3>4. \A i \in 1..kernel[n].extended : kernel'[n].log[i] = kernel[n].log[i]
        BY <2>0, <3>2, <3>3
      <3>. QED  BY <1>1, <1>3, <2>0, <3>2, <3>4
    <2>2. CASE Extend(x)
      <3>1. kernel' = [kernel EXCEPT ![x].extended = @ + 1]
        BY <2>2 DEF Extend
      <3>2. kernel'[n].log = kernel[n].log
            /\ kernel'[n].extended \in {kernel[n].extended, kernel[n].extended + 1}
        BY <2>0, <3>1 DEF Kernels
      <3>. QED  BY <1>1, <1>3, <2>0, <3>2
    <2>. QED  BY <1>4, <2>1, <2>2
  <1>5. ASSUME NEW x \in Nodes, CopyLog(x)
        PROVE  Grows(n) /\ IssuesGrow /\ UNCHANGED chosen
    BY <1>2, <1>3, <1>5 DEF CopyLog
  <1>6. ASSUME NEW x \in Nodes, Reboot(x)
        PROVE  Grows(n) /\ IssuesGrow /\ UNCHANGED chosen
    <2>. DEFINE gone == IF x = "host" THEN Nodes ELSE {x}
    <2>1. PICK p \in BootedWith :
            kernel' = [y \in Nodes |-> IF y \in gone
                                       THEN [log |-> << >>, extended |-> 0, platform |-> p]
                                       ELSE kernel[y]]
      BY <1>6 DEF Reboot
    <2>2. /\ boot' = [y \in Nodes |-> IF y \in gone THEN boot[y] + 1 ELSE boot[y]]
          /\ collector' = [y \in Nodes |-> IF y \in gone THEN Idle ELSE collector[y]]
          /\ slot' = [y \in Nodes |-> IF y \in gone THEN NoNonce ELSE slot[y]]
          /\ issued' = issued /\ UNCHANGED chosen
      BY <1>6 DEF Reboot
    <2>. HIDE DEF gone
    <2>3. CASE n \in gone
      BY <1>0, <1>3, <2>2, <2>3 DEF Grows, TypeInv
    <2>4. CASE n \notin gone
      <3>1. kernel'[n] = kernel[n] /\ boot'[n] = boot[n]
        BY <2>1, <2>2, <2>4
      <3>. QED  BY <1>0, <1>1, <1>3, <2>2, <3>1 DEF KernelShown
    <2>. QED  BY <2>3, <2>4
  <1>7. ASSUME NEW x \in Nodes, Start(x)
        PROVE  Grows(n) /\ IssuesGrow /\ UNCHANGED chosen
    <2>1. PICK h \in FileHashes :
            LET e == Entry("collector", h)
                log == IF InLog(x, e) THEN kernel[x].log ELSE Append(kernel[x].log, e)
            IN  kernel' = [kernel EXCEPT ![x].log = log, ![x].extended = Len(log)]
      BY <1>7 DEF Start
    <2>. DEFINE e == Entry("collector", h)
                log == IF InLog(x, e) THEN kernel[x].log ELSE Append(kernel[x].log, e)
    <2>2. /\ log \in {kernel[x].log, Append(kernel[x].log, e)} /\ e \in Entries
          /\ kernel' = [kernel EXCEPT ![x].log = log, ![x].extended = Len(log)]
          /\ boot' = boot /\ issued' = issued /\ UNCHANGED chosen
      BY <1>7, <2>1, EntryFacts DEF Start, FileHashes, Hashes, Files
    <2>. HIDE DEF e, log
    <2>3. /\ kernel \in [Nodes -> Kernels] /\ kernel[n].log \in Logs
          /\ kernel[n].extended \in Nat /\ kernel[n].extended <= Len(kernel[n].log)
          /\ Len(kernel[n].log) \in Nat
      <3>1. kernel \in [Nodes -> Kernels] /\ kernel[n].log \in Logs
            /\ kernel[n].extended \in 0..Len(kernel[n].log)
        BY <1>0 DEF TypeInv, KernelShown
      <3>2. Len(kernel[n].log) \in Nat
        BY <3>1 DEF Logs
      <3>. QED  BY <3>1, <3>2
    <2>4. CASE x = n
      <3>1. kernel'[n].log = log /\ kernel'[n].extended = Len(log)
        BY <2>2, <2>3, <2>4 DEF Kernels
      <3>2. /\ Len(kernel[n].log) <= Len(log)
            /\ \A i \in 1..Len(kernel[n].log) : log[i] = kernel[n].log[i]
        <4>1. /\ Len(Append(kernel[n].log, e)) = Len(kernel[n].log) + 1
              /\ \A i \in 1..Len(kernel[n].log) : Append(kernel[n].log, e)[i] = kernel[n].log[i]
          BY <2>2, <2>3 DEF Logs
        <4>. QED  BY <2>2, <2>3, <2>4, <4>1
      <3>3. \A i \in 1..kernel[n].extended : kernel'[n].log[i] = kernel[n].log[i]
        BY <2>3, <3>1, <3>2
      <3>4. kernel[n].extended <= kernel'[n].extended
        BY <1>0a, <2>3, <3>1, <3>2 DEF KernelShown
      <3>. QED  BY <1>1, <1>3, <2>2, <3>3, <3>4
    <2>5. CASE x # n
      <3>1. kernel'[n] = kernel[n]
        BY <2>2, <2>3, <2>5
      <3>. QED  BY <1>1, <1>3, <2>2, <2>3, <3>1
    <2>. QED  BY <2>4, <2>5
  <1>8. ASSUME NEW x \in Nodes, GetNonce(x)
        PROVE  Grows(n) /\ IssuesGrow /\ UNCHANGED chosen
    <2>. DEFINE issue == [node |-> x, boot |-> boot[x], length |-> kernel[x].extended]
    <2>1. issued' = Append(issued, issue) /\ issued \in Seq(Issues)
      BY <1>0, <1>8 DEF GetNonce, TypeInv
    <2>2. IssuesGrow
      <3>. HIDE DEF issue
      <3>. QED  BY <2>1 DEF IssuesGrow
    <2>. QED  BY <1>2, <1>8, <2>2 DEF GetNonce, machine
  <1>9. ASSUME NEW x \in Nodes, Works(x)
        PROVE  Grows(n) /\ IssuesGrow /\ UNCHANGED chosen
    BY <1>2, <1>3, <1>9, WorksKeeps DEF machine
  <1>10. ASSUME NEW x \in Nodes, Verify(x) \/ Resend(x)
        PROVE  Grows(n) /\ IssuesGrow /\ UNCHANGED chosen
    BY <1>2, <1>3, <1>10 DEF Verify, Resend, machine
  <1>11. ASSUME Publish
        PROVE  Grows(n) /\ IssuesGrow /\ UNCHANGED chosen
    BY <1>2, <1>3, <1>11 DEF Publish, machine
  <1>12. CASE UNCHANGED vars
    BY <1>2, <1>3, <1>12 DEF vars, machine
  <1>. QED  BY <1>4, <1>5, <1>6, <1>7, <1>8, <1>9, <1>10, <1>11, <1>12
            DEF Next, Works, Rest

\* A nonce stays current within a boot.
LEMMA CurrentKept ==
    ASSUME TypesAndStages, [Next]_vars, NEW n \in Nodes, NEW k, Current(n, k), boot'[n] = boot[n]
    PROVE  Current(n, k)'
  <1>1. Grows(n) /\ IssuesGrow
    BY StepGrows
  <1>2. TypeInv /\ TypeInv' /\ KernelShown(n)
    BY TypeStep, KernelFacts DEF TypesAndStages
  <1>3. kernel[n].extended <= kernel'[n].extended /\ issued[k].length \in Nat
        /\ kernel[n].extended \in Nat /\ kernel'[n].extended \in Nat
    <2>1. kernel[n].extended <= kernel'[n].extended
      <3>1. boot[n] \in Nat
        BY <1>2 DEF TypeInv
      <3>. QED  BY <1>1, <3>1 DEF Grows
    <2>2. issued[k].length \in Nat
      BY <1>2, IssuesTyped DEF Current
    <2>3. kernel[n] \in Kernels /\ kernel'[n] \in Kernels
      BY <1>2 DEF TypeInv
    <2>. QED  BY <2>1, <2>2, <2>3 DEF Kernels
  <1>. QED  BY <1>1, <1>3 DEF Current, IssuesGrow

\* A quote stays genuine.
LEMMA GenuineKept ==
    ASSUME TypesAndStages, [Next]_vars, NEW n \in Nodes, NEW q \in Quotes, Genuine(n, q)
    PROVE  Genuine(n, q)'
  <1>1. Grows(n) /\ IssuesGrow
    BY StepGrows
  <1>2. TypeInv /\ TypeInv' /\ KernelShown(n)
    BY TypeStep, KernelFacts DEF TypesAndStages
  <1>2a. KernelShown(n)'
    BY <1>2, KernelFactsNext
  <1>3. CASE q # NoQuote
    <2>0. /\ q.platform \in Platforms /\ q.nonce \in 1..Len(issued)
          /\ issued[q.nonce].node = n
          /\ issued[q.nonce].boot <= boot[n]
          /\ issued[q.nonce].length <= Len(q.pcr10)
          /\ issued[q.nonce].boot = boot[n] => Prefix(q.pcr10, Pcr10(n))
      BY <1>3 DEF Genuine
    <2>1. /\ issued[q.nonce].boot \in Nat /\ boot[n] \in Nat /\ boot'[n] \in Nat
      BY <1>2, <2>0, IssuesTyped DEF TypeInv
    <2>2. q.nonce \in 1..Len(issued') /\ issued'[q.nonce] = issued[q.nonce]
      BY <1>1, <2>0 DEF IssuesGrow
    <2>3. CASE boot'[n] = boot[n]
      <3>1. Prefix(Pcr10(n), Pcr10(n)') /\ Pcr10(n) \in Pcr10s /\ Pcr10(n)' \in Pcr10s
            /\ q.pcr10 \in Pcr10s
        BY <1>1, <1>2, <1>2a, <2>1, <2>3 DEF Grows, KernelShown, Quotes
      <3>2. issued[q.nonce].boot = boot[n] => Prefix(q.pcr10, Pcr10(n)')
        BY <2>0, <3>1, PrefixFacts
      <3>. QED  BY <2>0, <2>2, <2>3, <3>2 DEF Genuine
    <2>4. CASE boot[n] < boot'[n]
      BY <2>0, <2>1, <2>2, <2>4 DEF Genuine
    <2>. QED  BY <1>1, <2>3, <2>4 DEF Grows
  <1>. QED  BY <1>3 DEF Genuine

-----------------------------------------------------------------------------
(* An answer *)

\* What an answer means, whoever sent the request.
LEMMA AnswersFacts ==
    ASSUME BootInv, NEW n \in Nodes, NEW m \in Requests, Genuine(n, m.quote),
           NEW reply \in Replies(n), Answers(n, m, reply), issued' = issued, UNCHANGED chosen
    PROVE  /\ \A x \in Nodes : FreshAnswer(x)'
           /\ RegisteredAnswers'
           /\ \A x \in Nodes : slot'[x] \in {slot[x], NoNonce}
           /\ \/ backed' = backed
              \/ /\ backed' = Append(backed, slot[n])
                 /\ slot[n] # NoNonce /\ slot'[n] = NoNonce
           /\ hostOk => hostOk'
           /\ n = "host" /\ Status(n, m, reply) = 0 => hostOk'
  <1>0. TypeInv /\ attested \in BOOLEAN /\ KernelShown(n) /\ m.quote \in Quotes
        /\ m.pcr10 \in Pcr10s
    BY KernelFacts DEF BootInv, TypesAndStages, TypeInv, Requests
  <1>1. /\ \A x \in Nodes \ {n} : answer'[x] = answer[x] /\ slot'[x] = slot[x]
        /\ answer'[n].request = m /\ answer'[n].status = Status(n, m, reply)
        /\ answer'[n].quoted <=> Status(n, m, reply) = 0 /\ AkKnown(n, reply)
        /\ answer'[n].boot = boot[n] /\ answer'[n].pcr10 = Pcr10(n)
        /\ slot'[n] = IF TakesNonce(n, m, reply) THEN NoNonce ELSE slot[n]
        /\ backed' = IF Status(n, m, reply) = 0 /\ AkKnown(n, reply)
                     THEN Append(backed, m.quote.nonce) ELSE backed
        /\ hostOk' <=> hostOk \/ (n = "host" /\ Status(n, m, reply) = 0)
    BY <1>0, AnswersTyped
  <1>2. ASSUME Status(n, m, reply) = 0, AkKnown(n, reply)
        PROVE  /\ m.quote # NoQuote /\ slot[n] # NoNonce /\ TakesNonce(n, m, reply)
               /\ m.quote.nonce = slot[n] /\ m.quote.pcr10 = m.pcr10
               /\ m.quote.platform = m.platform
               /\ m.quote = Quote(m.quote.nonce, m.platform, m.pcr10)
    <2>1. m.quote # NoQuote /\ slot[n] # NoNonce /\ TakesNonce(n, m, reply) /\ QuoteOk(m, slot[n])
      BY <1>0, <1>2, AdmittedFacts
    <2>2. m.quote = [nonce |-> slot[n], platform |-> m.platform, pcr10 |-> m.pcr10]
      BY <2>1 DEF QuoteOk, Quote
    <2>3. m.quote = Quote(slot[n], m.platform, m.pcr10)
      BY <2>1 DEF QuoteOk
    <2>. QED  BY <2>1, <2>2, <2>3
  <1>3. /\ \A x \in Nodes : slot'[x] \in {slot[x], NoNonce}
        /\ \/ backed' = backed
           \/ /\ backed' = Append(backed, slot[n])
              /\ slot[n] # NoNonce /\ slot'[n] = NoNonce
    BY <1>1, <1>2
  <1>q. HasAk(n) /\ answer'[n].status = 0 /\ "blank" \notin faults => answer'[n].quoted
    <2>. SUFFICES ASSUME HasAk(n), answer'[n].status = 0, "blank" \notin faults
                  PROVE  answer'[n].quoted
      OBVIOUS
    <2>1. Status(n, m, reply) = 0
      BY <1>1
    <2>2. reply["ak_pub"] # "error"
      BY <1>0, <2>1, AdmittedFacts
    <2>3. reply["ak_pub"] \in {"value", "error"}
      BY DEF Replies, Lookups
    <2>. QED  BY <1>1, <2>1, <2>2, <2>3 DEF AkKnown
  <1>4. ASSUME NEW x \in Nodes PROVE FreshAnswer(x)'
    <2>1. CASE x # n
      <3>1. FreshAnswer(x) /\ answer'[x] = answer[x] /\ site' = site /\ faults' = faults
        BY <1>1, <2>1 DEF BootInv, chosen
      <3>. QED  BY <3>1 DEF FreshAnswer, HasAk
    <2>2. CASE x = n /\ answer'[n].quoted
      <3>1. Current(n, slot[n]) /\ m.quote # NoQuote /\ m.quote.nonce = slot[n]
            /\ m.quote.pcr10 = m.pcr10
            /\ m.quote = Quote(m.quote.nonce, m.platform, m.pcr10)
        BY <1>1, <1>2, <2>2 DEF BootInv, SlotsCurrent
      <3>2. /\ m.quote.nonce \in 1..Len(issued) /\ issued[m.quote.nonce].node = n
            /\ issued[m.quote.nonce].boot = boot[n]
            /\ issued[m.quote.nonce].length <= Len(m.pcr10)
            /\ Prefix(m.pcr10, Pcr10(n))
        BY <3>1 DEF Current, Genuine
      <3>3. Len(m.pcr10) <= Len(Pcr10(n)) /\ m.pcr10 = SubSeq(Pcr10(n), 1, Len(m.pcr10))
        BY <1>0, <3>2, PrefixFacts DEF Prefix, KernelShown
      <3>. QED  BY <1>1, <2>2, <3>1, <3>2, <3>3 DEF FreshAnswer
    <2>3. CASE x = n /\ ~answer'[n].quoted
      <3>1. HasAk(n)' = HasAk(n) /\ faults' = faults
        BY DEF HasAk, chosen
      <3>. QED  BY <1>q, <2>3, <3>1 DEF FreshAnswer
    <2>. QED  BY <2>1, <2>2, <2>3
  <1>5. RegisteredAnswers'
    <2>. SUFFICES ASSUME faults \cap {"registry", "blank"} = {}
                  PROVE  /\ \A x \in Nodes : answer'[x].quoted
                                             => ShowsRegistered(x, answer'[x].request)
                         /\ HostBelow'
      BY DEF RegisteredAnswers, ShowsRegistered, chosen
    <2>0. RegisteredAnswers /\ \A k \in Lookups(n) : reply[k] = "value"
      BY DEF Replies, BootInv
    <2>1. ASSUME NEW x \in Nodes, answer'[x].quoted
          PROVE  ShowsRegistered(x, answer'[x].request)
      <3>1. CASE x # n
        BY <1>1, <2>0, <2>1, <3>1 DEF RegisteredAnswers
      <3>2. CASE x = n
        <4>1. Status(n, m, reply) = 0 /\ answer'[n].request = m
          BY <1>1, <2>1, <3>2
        <4>2. /\ Reconciles(m)
              /\ LastHash(n, AttestedPart(m), "collector") = "good"
              /\ m.platform \notin {"pcr0", "pcr7"}
              /\ ~Unregistered(n, m, "driver", reply)
              /\ n = "host" => ~Unregistered(n, m, "hypervisor", reply)
          BY <1>0, <4>1, AdmittedFacts
        <4>3. \A f \in OtherFiles(n) \cup {"collector"} :
                 f \in Files /\ LastHash(n, AttestedPart(m), f) \in {"none", "good"}
          <5>1. \A f \in OtherFiles(n) \cup {"collector"} :
                   f \in Files /\ (f # "collector" => f \in Lookups(n))
            BY DEF OtherFiles, Files, Lookups, Nodes
          <5>2. \A f \in OtherFiles(n) : f = "driver" \/ (f = "hypervisor" /\ n = "host")
            BY DEF OtherFiles, Nodes
          <5>. QED  BY <2>0, <4>2, <5>1, <5>2 DEF Unregistered
        <4>4. \E i \in 1..Len(m.pcr10) : m.pcr10[i] = Entry("collector", "good")
          BY <4>2, RegisteredIsShown DEF Files
        <4>5. \A f \in OtherFiles(n) \cup {"collector"} :
                 \A i \in 1..Len(m.pcr10) : m.pcr10[i] = Entry(f, "bad") =>
                    \E j \in i..Len(m.pcr10) : m.pcr10[j] = Entry(f, "good")
          BY <4>2, <4>3, RegisteredIsShown
        <4>6. m.platform = "good"
          <5>1. AkKnown(n, reply)
            BY <1>1, <2>1, <3>2
          <5>2. m.platform \in Platforms
            BY <1>2, <4>1, <5>1 DEF Genuine
          <5>. QED  BY <4>2, <5>2 DEF Platforms
        <4>. QED  BY <3>2, <4>1, <4>4, <4>5, <4>6 DEF ShowsRegistered
      <3>. QED  BY <3>1, <3>2
    <2>2. HostBelow'
      <3>1. CASE n = "guest"
        <4>1. "parent" \in site /\ Status("guest", m, reply) = 0 => hostOk
          <5>1. "parent" \in site => HostAsked(reply)
            BY <2>0, <3>1 DEF HostAsked, Lookups
          <5>2. Status("guest", m, reply) = 0 => (HostAsked(reply) => attested)
            BY <1>0, AdmittedFacts DEF Nodes, Unattested
          <5>. QED  BY <5>1, <5>2 DEF BootInv, HostFirst
        <4>. QED  BY <1>1, <3>1, <4>1 DEF HostBelow, chosen
      <3>2. CASE n = "host"
        BY <1>1, <2>0, <3>2 DEF HostBelow, RegisteredAnswers, chosen, Nodes
      <3>. QED  BY <3>1, <3>2 DEF Nodes
    <2>. QED  BY <2>1, <2>2
  <1>. QED  BY <1>1, <1>3, <1>4, <1>5

-----------------------------------------------------------------------------
(* Where a collector gets to, action by action *)

\* Where the collector of n gets to, and what it holds then.
Becomes(n, pc, quoter, draft, platform, pcr10, log, quote) ==
    /\ collector'[n].pc = pc /\ collector'[n].quoter = quoter
    /\ collector'[n].draft = draft
    /\ collector'[n].msg.platform = platform /\ collector'[n].msg.pcr10 = pcr10
    /\ collector'[n].msg.log = log /\ collector'[n].msg.quote = quote

KeepsMsg(n, pc, quoter, draft) ==
    Becomes(n, pc, quoter, draft, collector[n].msg.platform, collector[n].msg.pcr10,
            collector[n].msg.log, collector[n].msg.quote)

Handed(n, platform, pcr10, log, quote) ==
    Becomes(n, RunnerStage(n), "runner", collector[n].draft, platform, pcr10, log, quote)

UnquotedStage(n) == IF collector[n].quoter = "exporter" THEN "pcrs" ELSE "send"

MovedReading(n) ==
    LET c == collector[n]
        m == c.msg
    IN
    \/ /\ c.pc = "pcrs" /\ InSnapshot(n) /\ snapshot[n] # << >>
       /\ Handed(n, kernel[n].platform, Digests(snapshot[n]), snapshot[n], NoQuote)
    \/ /\ c.pc = "pcrs" /\ InSnapshot(n) /\ "read" \in faults
       /\ Handed(n, kernel[n].platform, Pcr10(n), snapshot[n], NoQuote)
    \/ /\ c.pc = "pcrs" /\ ~InSnapshot(n)
       /\ Becomes(n, "log", c.quoter, c.draft, kernel[n].platform, Pcr10(n), m.log, m.quote)
    \/ /\ c.pc = "log" /\ n = "host"
       /\ Handed(n, m.platform, m.pcr10, kernel[n].log, m.quote)
    \/ /\ c.pc = "log" /\ n # "host"
       /\ Becomes(n, "again", c.quoter, c.draft, m.platform, m.pcr10, kernel[n].log, m.quote)
    \/ /\ c.pc = "again"
       /\ Handed(n, m.platform, m.pcr10, m.log, m.quote)
    \/ /\ c.pc = "again"
       /\ KeepsMsg(n, "pcrs", c.quoter, c.draft)
    \/ /\ c.pc = "pcrs" /\ "read" \in faults
       /\ KeepsMsg(n, "log", c.quoter, c.draft)

MovedQuoting(n) ==
    LET c == collector[n]
        m == c.msg
    IN
    \/ /\ c.pc = "draft"
       /\ KeepsMsg(n, "quote", c.quoter, Quote(c.draft.nonce, kernel[n].platform, Pcr10(n)))
    \/ /\ c.pc = "quote"
       /\ c.draft = Quote(c.draft.nonce, kernel[n].platform, Pcr10(n))
       /\ Becomes(n, "reread", c.quoter, NoQuote, c.draft.platform, c.draft.pcr10, m.log,
                  c.draft)
    \/ /\ c.pc = "quote"
       /\ KeepsMsg(n, "draft", c.quoter, c.draft)
    \/ /\ c.pc \in {"nonce", "draft", "quote"}
       /\ KeepsMsg(n, UnquotedStage(n), c.quoter, NoQuote)
    \/ /\ c.pc = "reread" /\ LogAfterQuote(n) # << >>
       /\ Becomes(n, "send", c.quoter, c.draft, m.platform, m.pcr10, LogAfterQuote(n), m.quote)
    \/ /\ c.pc = "reread" /\ ("read" \in faults \/ LogAfterQuote(n) = << >>)
       /\ c.quoter = "runner"
       /\ KeepsMsg(n, "send", c.quoter, c.draft)

\* HandToRunner, field by field ...
LEMMA HandMoves ==
    ASSUME TypeInv, NEW n \in Nodes, NEW msg, HandToRunner(n, msg)
    PROVE  Handed(n, msg.platform, msg.pcr10, msg.log, msg.quote)
  <1>1. collector \in [Nodes -> Collectors]
    BY DEF TypeInv
  <1>. DEFINE stage == RunnerStage(n)
  <1>2. collector' = [collector EXCEPT ![n].pc = stage, ![n].quoter = "runner",
                                       ![n].tries = 0, ![n].msg = msg]
    BY DEF HandToRunner
  <1>. HIDE DEF stage
  <1>3. /\ collector'[n].pc = stage /\ collector'[n].quoter = "runner"
        /\ collector'[n].draft = collector[n].draft /\ collector'[n].msg = msg
    BY <1>1, <1>2 DEF Collectors
  <1>. QED  BY <1>3 DEF Handed, Becomes, stage

\* ... and Unquoted ...
LEMMA UnquotedMoves ==
    ASSUME TypeInv, NEW n \in Nodes, Unquoted(n)
    PROVE  KeepsMsg(n, UnquotedStage(n), collector[n].quoter, NoQuote)
  <1>1. collector \in [Nodes -> Collectors]
    BY DEF TypeInv
  <1>. DEFINE stage == UnquotedStage(n)
  <1>2. collector' = [collector EXCEPT ![n].pc = stage, ![n].tries = 0, ![n].draft = NoQuote]
    BY DEF Unquoted, UnquotedStage
  <1>. HIDE DEF stage
  <1>3. /\ collector'[n].pc = stage /\ collector'[n].quoter = collector[n].quoter
        /\ collector'[n].draft = NoQuote /\ collector'[n].msg = collector[n].msg
    BY <1>1, <1>2 DEF Collectors
  <1>. QED  BY <1>3 DEF KeepsMsg, Becomes, stage

\* ... and all that a collector does between start and request.
LEMMA WorksMoves ==
    ASSUME TypeInv, NEW n \in Nodes, Works(n)
    PROVE  collector'[n] = Idle \/ MovedReading(n) \/ MovedQuoting(n)
  <1>0. collector \in [Nodes -> Collectors] /\ collector[n] \in Collectors
        /\ collector[n].msg \in Requests /\ collector[n].draft \in Quotes
    BY DEF TypeInv, Collectors
  <1>i. ASSUME collector' = [collector EXCEPT ![n] = Idle] PROVE collector'[n] = Idle
    BY <1>0, <1>i
  <1>1. CASE ReadCopy(n)
    <2>1. CASE HandToRunner(n, Request(kernel[n].platform, Digests(snapshot[n]),
                                       snapshot[n], NoQuote)) /\ snapshot[n] # << >>
      <3>1. Handed(n, kernel[n].platform, Digests(snapshot[n]), snapshot[n], NoQuote)
        BY <2>1, HandMoves DEF Request
      <3>. QED  BY <1>1, <2>1, <3>1 DEF ReadCopy, At, MovedReading
    <2>. QED  BY <1>1, <1>i, <2>1 DEF ReadCopy
  <1>2. CASE ReadCopiedLog(n)
    <2>1. HandToRunner(n, Request(kernel[n].platform, Pcr10(n), snapshot[n], NoQuote))
      BY <1>2 DEF ReadCopiedLog
    <2>2. Handed(n, kernel[n].platform, Pcr10(n), snapshot[n], NoQuote)
      BY <2>1, HandMoves DEF Request
    <2>. QED  BY <1>2, <2>2 DEF ReadCopiedLog, At, MovedReading
  <1>3. CASE ReadPcrs(n)
    <2>1. Becomes(n, "log", collector[n].quoter, collector[n].draft, kernel[n].platform,
                  Pcr10(n), collector[n].msg.log, collector[n].msg.quote)
      BY <1>0, <1>3 DEF ReadPcrs, Becomes, Collectors, Requests
    <2>. QED  BY <1>3, <2>1 DEF ReadPcrs, At, MovedReading
  <1>4. CASE ReadLog(n)
    <2>. DEFINE m == [collector[n].msg EXCEPT !.log = kernel[n].log]
    <2>1. /\ m.platform = collector[n].msg.platform /\ m.pcr10 = collector[n].msg.pcr10
          /\ m.log = kernel[n].log /\ m.quote = collector[n].msg.quote
      BY <1>0 DEF Requests
    <2>2. CASE n = "host"
      <3>1. HandToRunner(n, m)
        BY <1>4, <2>2 DEF ReadLog
      <3>. HIDE DEF m
      <3>2. Handed(n, m.platform, m.pcr10, m.log, m.quote)
        BY <3>1, HandMoves
      <3>. QED  BY <1>4, <2>1, <2>2, <3>2 DEF ReadLog, At, MovedReading
    <2>3. CASE n # "host"
      <3>1. collector' = [collector EXCEPT ![n].pc = "again", ![n].msg = m]
        BY <1>4, <2>3 DEF ReadLog
      <3>. HIDE DEF m
      <3>2. /\ collector'[n].pc = "again" /\ collector'[n].quoter = collector[n].quoter
            /\ collector'[n].draft = collector[n].draft /\ collector'[n].msg = m
        BY <1>0, <3>1 DEF Collectors
      <3>. QED  BY <1>4, <2>1, <2>3, <3>2 DEF ReadLog, At, MovedReading, Becomes
    <2>. QED  BY <2>2, <2>3
  <1>5. CASE ReadAgain(n)
    <2>1. CASE HandToRunner(n, collector[n].msg)
      BY <1>5, <2>1, HandMoves DEF ReadAgain, At, MovedReading
    <2>2. CASE collector' = [collector EXCEPT ![n].pc = "pcrs", ![n].tries = @ + 1]
      <3>1. KeepsMsg(n, "pcrs", collector[n].quoter, collector[n].draft)
        BY <1>0, <2>2 DEF KeepsMsg, Becomes, Collectors
      <3>. QED  BY <1>5, <3>1 DEF ReadAgain, At, MovedReading
    <2>. QED  BY <1>5, <1>i, <2>1, <2>2 DEF ReadAgain
  <1>6. CASE ReadFails(n)
    <2>1. CASE At(n, "pcrs") /\ collector' = [collector EXCEPT ![n].pc = "log"]
      <3>1. KeepsMsg(n, "log", collector[n].quoter, collector[n].draft)
        BY <1>0, <2>1 DEF KeepsMsg, Becomes, Collectors
      <3>. QED  BY <1>6, <2>1, <3>1 DEF ReadFails, At, MovedReading
    <2>. QED  BY <1>6, <1>i, <2>1 DEF ReadFails
  <1>7. CASE DraftQuote(n)
    <2>. DEFINE d == collector[n].draft
    <2>1. /\ collector'[n].draft = [nonce |-> d.nonce, platform |-> kernel[n].platform,
                                    pcr10 |-> Pcr10(n)]
          /\ collector'[n].pc = "quote" /\ collector'[n].quoter = collector[n].quoter
          /\ collector'[n].msg = collector[n].msg
      BY <1>0, <1>7 DEF DraftQuote, Collectors, Quotes
    <2>2. KeepsMsg(n, "quote", collector[n].quoter,
                   Quote(d.nonce, kernel[n].platform, Pcr10(n)))
      BY <2>1 DEF KeepsMsg, Becomes, Quote
    <2>. QED  BY <1>7, <2>2 DEF DraftQuote, At, MovedQuoting
  <1>8. CASE SignQuote(n)
    <2>0. DEFINE draft == collector[n].draft
                 signed == Quote(draft.nonce, kernel[n].platform, Pcr10(n))
    <2>1. CASE MatchesDraft(n, signed)
      <3>1. collector' = [collector EXCEPT ![n].pc = "reread",
                                           ![n].msg.platform = draft.platform,
                                           ![n].msg.pcr10 = draft.pcr10,
                                           ![n].msg.quote = signed,
                                           ![n].draft = NoQuote]
            /\ signed = draft
        BY <1>8, <2>1 DEF SignQuote, MatchesDraft
      <3>. HIDE DEF signed, draft
      <3>2. Becomes(n, "reread", collector[n].quoter, NoQuote, draft.platform, draft.pcr10,
                    collector[n].msg.log, draft)
        BY <1>0, <3>1, ZenonT(60) DEF Becomes, Collectors, Requests
      <3>3. collector[n].pc = "quote"
        BY <1>8 DEF SignQuote, At
      <3>. QED  BY <3>1, <3>2, <3>3 DEF MovedQuoting, draft, signed
    <2>2. CASE collector' = [collector EXCEPT ![n].pc = "draft", ![n].tries = @ + 1]
      <3>1. KeepsMsg(n, "draft", collector[n].quoter, collector[n].draft)
        BY <1>0, <2>2 DEF KeepsMsg, Becomes, Collectors
      <3>. QED  BY <1>8, <3>1 DEF SignQuote, At, MovedQuoting
    <2>3. CASE Unquoted(n)
      BY <1>8, <2>3, UnquotedMoves DEF SignQuote, At, MovedQuoting
    <2>. QED  BY <1>8, <2>1, <2>2, <2>3 DEF SignQuote
  <1>9. CASE QuoteFails(n)
    BY <1>9, UnquotedMoves DEF QuoteFails, At, MovedQuoting
  <1>10. CASE RereadLog(n)
    <2>. DEFINE l == LogAfterQuote(n)
    <2>0. collector[n].pc = "reread"
      BY <1>10 DEF RereadLog, At
    <2>2. CASE collector' = [collector EXCEPT ![n].pc = "send", ![n].msg.log = l] /\ l # << >>
      <3>. HIDE DEF l
      <3>1. Becomes(n, "send", collector[n].quoter, collector[n].draft,
                    collector[n].msg.platform, collector[n].msg.pcr10, l,
                    collector[n].msg.quote)
        BY <1>0, <2>2 DEF Becomes, Collectors, Requests
      <3>. QED  BY <2>0, <2>2, <3>1 DEF MovedQuoting, l
    <2>3. CASE /\ collector[n].quoter # "exporter"
               /\ collector' = [collector EXCEPT ![n].pc = "send"]
               /\ "read" \in faults \/ l = << >>
      <3>. HIDE DEF l
      <3>1. KeepsMsg(n, "send", collector[n].quoter, collector[n].draft)
        BY <1>0, <2>3 DEF KeepsMsg, Becomes, Collectors
      <3>2. collector[n].quoter = "runner"
        BY <1>0, <2>3 DEF Collectors
      <3>. QED  BY <2>0, <2>3, <3>1, <3>2 DEF MovedQuoting, l
    <2>. QED  BY <1>10, <1>i, <2>2, <2>3 DEF RereadLog
  <1>11. CASE Stop(n)
    BY <1>11, <1>i DEF Stop
  <1>. QED  BY <1>1, <1>2, <1>3, <1>4, <1>5, <1>6, <1>7, <1>8, <1>9, <1>10, <1>11 DEF Works

-----------------------------------------------------------------------------
(* Steps that keep nonces and quotes *)

\* The invariant holds initially.
LEMMA BootInit == Init => BootInv
  <1>. SUFFICES ASSUME Init PROVE BootInv
    OBVIOUS
  <1>1. TypesAndStages
    BY TypeInit
  <1>2. /\ slot = [n \in Nodes |-> NoNonce] /\ collector = [n \in Nodes |-> Idle]
        /\ answer = [n \in Nodes |-> NoAnswer] /\ attested = FALSE
        /\ backed = << >> /\ sent = [n \in Nodes |-> {}]
    BY DEF Init
  <1>3. /\ Idle.pc = "down" /\ Idle.msg.quote = NoQuote
        /\ NoAnswer.quoted = FALSE /\ NoAnswer.status = -1
    BY DEF Idle, Collector, NoRequest, Request, NoAnswer
  <1>4. SlotsCurrent /\ NonceAdmitsOnce
    BY <1>2 DEF SlotsCurrent, NonceAdmitsOnce
  <1>5. DraftsCurrent /\ QuotesGenuine /\ HostFirst
    BY <1>2, <1>3 DEF DraftsCurrent, QuotesGenuine, Genuine, HostFirst, Nodes
  <1>6. RegisteredAnswers /\ \A n \in Nodes : FreshAnswer(n)
    BY <1>2, <1>3 DEF RegisteredAnswers, FreshAnswer, HostBelow, Nodes
  <1>. QED  BY <1>1, <1>4, <1>5, <1>6 DEF BootInv

\* What a step may do to the slots besides filling one with a new nonce.
SlotsUsed ==
    /\ \A n \in Nodes : slot'[n] \in {slot[n], NoNonce}
    /\ \/ backed' = backed
       \/ \E n \in Nodes : /\ backed' = Append(backed, slot[n])
                           /\ slot[n] # NoNonce /\ slot'[n] = NoNonce

\* No other step than GetNonce can break what holds of slots.
LEMMA SlotsKept ==
    ASSUME BootInv, [Next]_vars, SlotsUsed
    PROVE  SlotsCurrent' /\ NonceAdmitsOnce'
  <1>0. /\ TypesAndStages /\ TypeInv /\ SlotsCurrent /\ NonceAdmitsOnce /\ IssuesGrow
        /\ backed \in Seq(Nat) /\ Len(backed) \in Nat /\ "host" \in Nodes
    BY StepGrows DEF BootInv, TypesAndStages, TypeInv, Nodes
  <1>1. ASSUME NEW n \in Nodes, slot'[n] # NoNonce
        PROVE  /\ slot'[n] = slot[n] /\ Current(n, slot[n])'
               /\ \A i \in 1..Len(backed) : backed[i] # slot[n]
    <2>1. slot'[n] = slot[n] /\ slot[n] # NoNonce
      BY <1>1 DEF SlotsUsed
    <2>2. boot'[n] = boot[n]
      BY <1>0, <1>1, StepGrows DEF Grows
    <2>3. PICK k \in Nat : k = slot[n]
      BY <1>0 DEF TypeInv
    <2>4. Current(n, k) /\ \A i \in 1..Len(backed) : backed[i] # slot[n]
      BY <1>0, <2>1, <2>3 DEF SlotsCurrent
    <2>5. Current(n, k)'
      BY <1>0, <2>2, <2>4, CurrentKept
    <2>6. slot'[n] = k
      BY <2>1, <2>3
    <2>. QED  BY <2>1, <2>3, <2>4, <2>5, <2>6 DEF Current
  <1>2. CASE backed' = backed
    <2>1. SlotsCurrent'
      BY <1>0, <1>1, <1>2 DEF SlotsCurrent, IssuesGrow, Current
    <2>2. NonceAdmitsOnce'
      BY <1>0, <1>2 DEF NonceAdmitsOnce
    <2>. QED  BY <2>1, <2>2
  <1>3. ASSUME NEW x \in Nodes, backed' = Append(backed, slot[x]),
               slot[x] # NoNonce, slot'[x] = NoNonce
        PROVE  SlotsCurrent' /\ NonceAdmitsOnce'
    <2>1. /\ Current(x, slot[x]) /\ slot[x] \in Nat
          /\ \A i \in 1..Len(backed) : backed[i] # slot[x]
      BY <1>0, <1>3 DEF SlotsCurrent, TypeInv
    <2>2. /\ Len(backed') = Len(backed) + 1 /\ backed'[Len(backed) + 1] = slot[x]
          /\ \A i \in 1..Len(backed) : backed'[i] = backed[i]
      BY <1>0, <1>3, <2>1
    <2>3. \A n \in Nodes \ {x} : slot[n] # NoNonce => slot[n] # slot[x]
      BY <1>0, <1>3 DEF SlotsCurrent, Current
    <2>4. \A i \in 1..Len(backed') : i \in 1..Len(backed) \/ i = Len(backed) + 1
      BY <1>0, <2>2
    <2>5. \A i \in 1..Len(backed') : backed'[i] \in 1..Len(issued')
      BY <1>0, <2>1, <2>2, <2>4 DEF SlotsCurrent, IssuesGrow, Current
    <2>6. ASSUME NEW n \in Nodes, slot'[n] # NoNonce
          PROVE  Current(n, slot[n])' /\ \A i \in 1..Len(backed') : backed'[i] # slot'[n]
      BY <1>1, <1>3, <2>2, <2>3, <2>4, <2>6 DEF SlotsUsed
    <2>7. SlotsCurrent'
      BY <2>5, <2>6 DEF SlotsCurrent, Current
    <2>8. NonceAdmitsOnce'
      BY <1>0, <2>1, <2>2, <2>4 DEF NonceAdmitsOnce
    <2>. QED  BY <2>7, <2>8
  <1>. QED  BY <1>2, <1>3 DEF SlotsUsed

\* The collector of n keeps its draft's nonce, and its quote or drops it.
KeepsQuotes(n) ==
    /\ collector'[n].pc \in {"draft", "quote"} =>
         /\ collector[n].pc \in {"draft", "quote"}
         /\ collector'[n].draft.nonce = collector[n].draft.nonce
    /\ collector'[n].msg.quote \in {collector[n].msg.quote, NoQuote}
    /\ sent'[n] \subseteq sent[n] \cup {collector[n].msg}

\* A draft that is kept keeps a current nonce ...
LEMMA DraftKept ==
    ASSUME BootInv, [Next]_vars, NEW n \in Nodes, KeepsQuotes(n),
           collector'[n].pc \in {"draft", "quote"}
    PROVE  Current(n, collector[n].draft.nonce)'
  <1>1. TypesAndStages /\ TypeInv /\ DraftsCurrent
    BY DEF BootInv, TypesAndStages
  <1>2. Idle.pc = "down"
    BY DEF Idle, Collector
  <1>3. boot'[n] = boot[n]
    BY <1>1, <1>2, StepGrows DEF Grows
  <1>4. PICK k \in Nat : k = collector[n].draft.nonce
    BY <1>1 DEF TypeInv, Collectors, Quotes
  <1>5. Current(n, k)'
    BY <1>1, <1>3, <1>4, CurrentKept DEF DraftsCurrent, KeepsQuotes
  <1>6. collector'[n].draft.nonce = k
    BY <1>4 DEF KeepsQuotes
  <1>. QED  BY <1>5, <1>6 DEF Current

\* ... a quote that is kept stays genuine ...
LEMMA QuoteKept ==
    ASSUME BootInv, [Next]_vars, NEW n \in Nodes,
           sent'[n] \subseteq sent[n] \cup {collector[n].msg}
    PROVE  /\ collector'[n].msg.quote \in {collector[n].msg.quote, NoQuote} =>
                Genuine(n, collector[n].msg.quote)'
           /\ (\A m \in sent[n] : Genuine(n, m.quote))'
  <1>1. TypesAndStages /\ TypeInv /\ QuotesGenuine
    BY DEF BootInv, TypesAndStages
  <1>2. collector[n].msg \in Requests /\ sent[n] \subseteq Requests
        /\ collector[n].msg.quote \in Quotes
    BY <1>1 DEF TypeInv, Collectors, Requests
  <1>3. ASSUME collector'[n].msg.quote \in {collector[n].msg.quote, NoQuote}
        PROVE  Genuine(n, collector[n].msg.quote)'
    <2>1. CASE collector'[n].msg.quote = NoQuote
      BY <2>1 DEF Genuine
    <2>2. CASE collector'[n].msg.quote = collector[n].msg.quote
      <3>1. PICK q \in Quotes : q = collector[n].msg.quote
        BY <1>2
      <3>2. Genuine(n, q)'
        BY <1>1, <3>1, GenuineKept DEF QuotesGenuine
      <3>3. collector'[n].msg.quote = q
        BY <2>2, <3>1
      <3>. QED  BY <3>2, <3>3 DEF Genuine
    <2>. QED  BY <1>3, <2>1, <2>2
  <1>4. ASSUME NEW m \in sent'[n] PROVE Genuine(n, m.quote)'
    <2>1. m \in Requests /\ Genuine(n, m.quote) /\ m.quote \in Quotes
      BY <1>1, <1>2 DEF QuotesGenuine, Requests
    <2>. QED  BY <1>1, <2>1, GenuineKept
  <1>. QED  BY <1>3, <1>4

\* ... and so for all nodes.
LEMMA AllQuotesKept ==
    ASSUME BootInv, [Next]_vars, \A n \in Nodes : KeepsQuotes(n)
    PROVE  DraftsCurrent' /\ QuotesGenuine'
  BY DraftKept, QuoteKept DEF DraftsCurrent, QuotesGenuine, KeepsQuotes

-----------------------------------------------------------------------------
(* The inductive invariant, and what follows from it *)

\* An answer that was fresh stays so.
LEMMA OldAnswersKept ==
    ASSUME BootInv, [Next]_vars, answer' = answer, hostOk' = hostOk
    PROVE  RegisteredAnswers' /\ \A n \in Nodes : FreshAnswer(n)'
  <1>1. IssuesGrow /\ UNCHANGED chosen
    BY StepGrows DEF BootInv, Nodes
  <1>2. \A n \in Nodes : FreshAnswer(n)'
    <2>1. ASSUME NEW n \in Nodes PROVE FreshAnswer(n)'
      <3>1. FreshAnswer(n) /\ HasAk(n)' = HasAk(n) /\ faults' = faults
        BY <1>1 DEF BootInv, HasAk, chosen
      <3>. QED  BY <1>1, <3>1, SMTT(30) DEF FreshAnswer, IssuesGrow
    <2>. QED  BY <2>1
  <1>3. RegisteredAnswers'
    <2>1. RegisteredAnswers /\ faults' = faults /\ site' = site
      BY <1>1 DEF BootInv, chosen
    <2>2. HostBelow => HostBelow'
      BY <2>1 DEF HostBelow
    <2>3. \A n \in Nodes : \A m : ShowsRegistered(n, m) => ShowsRegistered(n, m)'
      BY DEF ShowsRegistered
    <2>. QED  BY <2>1, <2>2, <2>3 DEF RegisteredAnswers, ShowsRegistered
  <1>. QED  BY <1>2, <1>3

\* A collector at work signs what is genuine, and does not publish.
LEMMA WorksKeepsQuotes ==
    ASSUME BootInv, [Next]_vars, NEW n \in Nodes, Works(n)
    PROVE  DraftsCurrent' /\ QuotesGenuine' /\ HostFirst'
  <1>0. /\ TypeInv /\ TypesAndStages /\ DraftsCurrent /\ HostFirst
        /\ \A x \in Nodes \ {n} : collector'[x] = collector[x]
        /\ sent' = sent /\ attested' = attested /\ hostOk' = hostOk
        /\ boot' = boot /\ issued' = issued /\ kernel' = kernel
    BY WorksTyped, WorksKeeps DEF BootInv, TypesAndStages, MovesTyped, machine, enclave
  <1>1. ASSUME NEW x \in Nodes \ {n} PROVE KeepsQuotes(x)
    BY <1>0 DEF KeepsQuotes
  <1>2. /\ RunnerStage(n) \notin {"draft", "quote", "publish"}
        /\ UnquotedStage(n) \notin {"draft", "quote", "publish"}
        /\ Idle.pc = "down" /\ Idle.msg.quote = NoQuote
    BY DEF RunnerStage, UnquotedStage, Idle, Collector, NoRequest, Request
  <1>3. ASSUME collector'[n].msg.quote \in {collector[n].msg.quote, NoQuote},
               collector'[n].pc \in {"draft", "quote"} =>
                   /\ collector[n].pc \in {"draft", "quote"}
                   /\ collector'[n].draft.nonce = collector[n].draft.nonce
        PROVE  DraftsCurrent' /\ QuotesGenuine'
    <2>1. KeepsQuotes(n)
      BY <1>0, <1>3 DEF KeepsQuotes
    <2>2. \A x \in Nodes : KeepsQuotes(x)
      BY <1>1, <2>1
    <2>. QED  BY <2>2, AllQuotesKept
  <1>4. ASSUME collector[n].pc = "quote", collector'[n].pc = "reread",
               collector[n].draft = Quote(collector[n].draft.nonce, kernel[n].platform, Pcr10(n)),
               collector'[n].msg.quote = collector[n].draft
        PROVE  DraftsCurrent' /\ QuotesGenuine'
    <2>1. KernelShown(n) /\ Current(n, collector[n].draft.nonce)
      BY <1>0, <1>4, KernelFacts DEF DraftsCurrent
    <2>2. PICK q : q = collector[n].draft
      OBVIOUS
    <2>3. q.nonce = collector[n].draft.nonce /\ q.platform = kernel[n].platform
          /\ q.pcr10 = Pcr10(n)
      BY <1>4, <2>2 DEF Quote
    <2>4. Prefix(Pcr10(n), Pcr10(n)) /\ boot[n] \in Nat
      BY <1>0, <2>1, PrefixFacts DEF KernelShown, TypeInv
    <2>5. Genuine(n, q)
      BY <2>1, <2>2, <2>3, <2>4 DEF Genuine, Current, KernelShown
    <2>6. Genuine(n, q)'
      BY <1>0, <2>5 DEF Genuine, Pcr10
    <2>7. Genuine(n, collector[n].msg.quote)'
      BY <1>4, <2>2, <2>6 DEF Genuine
    <2>8. \A x \in Nodes : (\A m \in sent[x] : Genuine(x, m.quote))'
      BY <1>0, QuoteKept
    <2>9. \A x \in Nodes \ {n} : Genuine(x, collector[x].msg.quote)'
      BY <1>0, <1>1, QuoteKept DEF KeepsQuotes
    <2>10. QuotesGenuine'
      BY <2>7, <2>8, <2>9 DEF QuotesGenuine
    <2>11. DraftsCurrent'
      BY <1>0, <1>1, <1>4, DraftKept DEF DraftsCurrent
    <2>. QED  BY <2>10, <2>11
  <1>5. MovedReading(n) \/ MovedQuoting(n) \/ collector'[n] = Idle
    BY <1>0, WorksMoves
  <1>6. DraftsCurrent' /\ QuotesGenuine' /\ collector'[n].pc # "publish"
    <2>1. CASE MovedReading(n)
      BY <1>2, <1>3, <2>1 DEF MovedReading, Handed, KeepsMsg, Becomes
    <2>2. CASE MovedQuoting(n)
      <3>1. \A k, p, q : Quote(k, p, q).nonce = k
        BY DEF Quote
      <3>2. DraftsCurrent' /\ QuotesGenuine'
        BY <1>2, <1>3, <1>4, <2>2, <3>1 DEF MovedQuoting, KeepsMsg, Becomes
      <3>3. collector'[n].pc # "publish"
        BY <1>2, <2>2 DEF MovedQuoting, KeepsMsg, Becomes
      <3>. QED  BY <3>2, <3>3
    <2>3. CASE collector'[n] = Idle
      BY <1>2, <1>3, <2>3
    <2>. QED  BY <1>5, <2>1, <2>2, <2>3
  <1>7. HostFirst'
    <2>1. collector'["host"].pc = "publish" => collector["host"].pc = "publish"
      BY <1>0, <1>6 DEF Nodes
    <2>. QED  BY <1>0, <2>1 DEF HostFirst
  <1>. QED  BY <1>6, <1>7

\* A request that is answered, for the first time or again, keeps the
\* invariant.
LEMMA AnsweringStep ==
    ASSUME BootInv, [Next]_vars, NEW n \in Nodes, Verify(n) \/ Resend(n)
    PROVE  BootInv'
  <1>0. /\ TypeInv /\ TypesAndStages /\ TypesAndStages' /\ QuotesGenuine /\ HostFirst
        /\ issued' = issued /\ UNCHANGED chosen /\ attested' = attested
    BY TypeStep DEF BootInv, TypesAndStages, Verify, Resend
  <1>1. PICK m \in Requests, reply \in Replies(n) : Answers(n, m, reply) /\ Genuine(n, m.quote)
                /\ (Verify(n) => collector' = [collector EXCEPT ![n] =
                         Collector(StageAfter(n, Status(n, m, reply)), "exporter")])
    <2>1. CASE Verify(n)
      BY <1>0, <2>1 DEF Verify, TypeInv, Collectors, QuotesGenuine
    <2>2. CASE Resend(n)
      <3>1. PICK m \in sent[n], reply \in Replies(n) : Answers(n, m, reply)
        BY <2>2 DEF Resend
      <3>2. m \in Requests /\ Genuine(n, m.quote)
        BY <1>0 DEF TypeInv, QuotesGenuine
      <3>3. Verify(n) => At(n, "send") /\ \E d \in Replies(n) : Answers(n, collector[n].msg, d)
                /\ collector' = [collector EXCEPT ![n] =
                     Collector(StageAfter(n, Status(n, collector[n].msg, d)), "exporter")]
        BY DEF Verify
      <3>4. CASE Verify(n)
        BY <2>1, <3>4
      <3>. QED  BY <3>1, <3>2, <3>4
    <2>. QED  BY <2>1, <2>2
  <1>2. /\ \A x \in Nodes : FreshAnswer(x)'
        /\ RegisteredAnswers' /\ SlotsUsed
        /\ hostOk => hostOk'
        /\ n = "host" /\ Status(n, m, reply) = 0 => hostOk'
    BY <1>0, <1>1, AnswersFacts DEF SlotsUsed
  <1>3. SlotsCurrent' /\ NonceAdmitsOnce'
    BY <1>2, SlotsKept
  <1>4. CASE Verify(n)
    <2>. DEFINE stage == StageAfter(n, Status(n, m, reply))
    <2>1. /\ stage \notin {"draft", "quote"}
          /\ stage = "publish" => n = "host" /\ Status(n, m, reply) = 0
      BY DEF StageAfter
    <2>2. collector' = [collector EXCEPT ![n] = Collector(stage, "exporter")]
      BY <1>1, <1>4
    <2>3. /\ collector \in [Nodes -> Collectors] /\ sent \in [Nodes -> SUBSET Requests]
      BY <1>0 DEF TypeInv
    <2>4. /\ collector'[n].pc = stage /\ collector'[n].msg.quote = NoQuote
          /\ \A x \in Nodes \ {n} : collector'[x] = collector[x]
      <3>. HIDE DEF stage
      <3>1. /\ collector'[n] = Collector(stage, "exporter")
            /\ \A x \in Nodes \ {n} : collector'[x] = collector[x]
        BY <2>2, <2>3
      <3>. QED  BY <3>1 DEF Collector, NoRequest, Request
    <2>5. \A x \in Nodes : sent'[x] \subseteq sent[x] \cup {collector[x].msg}
      BY <1>4, <2>3 DEF Verify
    <2>6. \A x \in Nodes : KeepsQuotes(x)
      BY <2>1, <2>4, <2>5 DEF KeepsQuotes
    <2>7. DraftsCurrent' /\ QuotesGenuine'
      BY <2>6, AllQuotesKept
    <2>8. HostFirst'
      BY <1>0, <1>2, <2>1, <2>4 DEF HostFirst, Nodes
    <2>. QED  BY <1>0, <1>2, <1>3, <2>7, <2>8 DEF BootInv
  <1>5. CASE Resend(n)
    <2>1. collector' = collector /\ sent' = sent
      BY <1>5 DEF Resend
    <2>2. DraftsCurrent' /\ QuotesGenuine'
      BY <2>1, AllQuotesKept DEF KeepsQuotes
    <2>3. HostFirst'
      BY <1>0, <1>2, <2>1 DEF HostFirst
    <2>. QED  BY <1>0, <1>2, <1>3, <2>2, <2>3 DEF BootInv
  <1>. QED  BY <1>4, <1>5

\* Every step keeps the invariant.
LEMMA BootStep == BootInv /\ [Next]_vars => BootInv'
  <1>. SUFFICES ASSUME BootInv, [Next]_vars PROVE BootInv'
    OBVIOUS
  <1>0. /\ TypeInv /\ TypesAndStages /\ TypesAndStages' /\ HostFirst
        /\ collector \in [Nodes -> Collectors]
    BY TypeStep DEF BootInv, TypesAndStages, TypeInv
  <1>i. Idle.pc = "down" /\ Idle.msg.quote = NoQuote
    BY DEF Idle, Collector, NoRequest, Request
  <1>s. ASSUME SlotsUsed, \A n \in Nodes : KeepsQuotes(n), answer' = answer,
               hostOk' = hostOk, HostFirst'
        PROVE  BootInv'
    BY <1>0, <1>s, SlotsKept, AllQuotesKept, OldAnswersKept DEF BootInv
  <1>1. ASSUME UNCHANGED <<collector, slot, answer, backed, hostOk, attested, sent>>
        PROVE  BootInv'
    BY <1>0, <1>1, <1>s DEF SlotsUsed, KeepsQuotes, HostFirst
  <1>2. ASSUME NEW n \in Nodes, Measure(n) \/ Extend(n) \/ CopyLog(n) PROVE BootInv'
    BY <1>1, <1>2 DEF Measure, Extend, CopyLog, enclave
  <1>3. ASSUME NEW n \in Nodes, Reboot(n) PROVE BootInv'
    <2>1. /\ \A x \in Nodes : slot'[x] \in {slot[x], NoNonce}
          /\ \A x \in Nodes : collector'[x] \in {collector[x], Idle}
          /\ sent' = sent /\ answer' = answer /\ backed' = backed /\ hostOk' = hostOk
          /\ attested' = attested
      BY <1>3 DEF Reboot
    <2>2. \A x \in Nodes : KeepsQuotes(x)
      BY <1>i, <2>1 DEF KeepsQuotes
    <2>3. HostFirst'
      BY <1>0, <1>i, <2>1 DEF HostFirst, Nodes
    <2>. QED  BY <1>s, <2>1, <2>2, <2>3 DEF SlotsUsed
  <1>4. ASSUME NEW n \in Nodes, Start(n) PROVE BootInv'
    <2>. DEFINE stage == IF n = "guest" /\ "gpu" \in site THEN "nonce" ELSE "pcrs"
    <2>1. /\ slot' = [slot EXCEPT ![n] = NoNonce] /\ slot \in [Nodes -> Nat]
          /\ collector' = [collector EXCEPT ![n] = Collector(stage, "exporter")]
          /\ sent' = sent /\ answer' = answer /\ backed' = backed /\ hostOk' = hostOk
          /\ attested' = attested /\ stage \in {"nonce", "pcrs"}
      BY <1>0, <1>4 DEF Start, TypeInv
    <2>. HIDE DEF stage
    <2>2. /\ collector'[n].pc = stage /\ collector'[n].msg.quote = NoQuote
          /\ \A x \in Nodes \ {n} : collector'[x] = collector[x]
      BY <1>0, <2>1 DEF Collector, NoRequest, Request
    <2>3. \A x \in Nodes : KeepsQuotes(x)
      BY <2>1, <2>2 DEF KeepsQuotes
    <2>4. HostFirst'
      BY <1>0, <2>1, <2>2 DEF HostFirst, Nodes
    <2>5. SlotsUsed
      BY <2>1 DEF SlotsUsed
    <2>. QED  BY <1>s, <2>1, <2>3, <2>4, <2>5
  <1>5. ASSUME NEW n \in Nodes, GetNonce(n) PROVE BootInv'
    <2>. DEFINE k == Len(issued) + 1
                issue == [node |-> n, boot |-> boot[n], length |-> kernel[n].extended]
                draft == Quote(k, "zero", << >>)
    <2>1. /\ slot' = [slot EXCEPT ![n] = k] /\ issued' = Append(issued, issue)
          /\ collector' = [collector EXCEPT ![n].pc = "draft", ![n].tries = 0, ![n].draft = draft]
          /\ UNCHANGED <<chosen, machine, answer, backed, hostOk, attested, sent>>
      BY <1>5 DEF GetNonce
    <2>2. /\ issued \in Seq(Issues) /\ slot \in [Nodes -> Nat] /\ kernel[n].extended \in Nat
          /\ Len(issued) \in Nat
      BY <1>0, KernelFacts DEF TypeInv, KernelShown
    <2>d. draft.nonce = k
      BY DEF Quote
    <2>3. /\ collector'[n].pc = "draft" /\ collector'[n].draft.nonce = k
          /\ collector'[n].msg = collector[n].msg
          /\ \A x \in Nodes \ {n} : collector'[x] = collector[x]
      <3>. HIDE DEF draft, k
      <3>. QED  BY <1>0, <2>1, <2>d DEF Collectors
    <2>4. k \in 1..Len(issued') /\ issued'[k] = issue /\ kernel' = kernel /\ boot' = boot
      <3>. HIDE DEF issue
      <3>. QED  BY <2>1, <2>2 DEF machine
    <2>5. \A j : j = k => Current(n, j)'
      <3>1. issue.node = n /\ issue.boot = boot[n] /\ issue.length = kernel[n].extended
        OBVIOUS
      <3>. HIDE DEF issue
      <3>. QED  BY <2>2, <2>4, <3>1 DEF Current
    <2>. HIDE DEF k, issue, draft
    <2>6. Current(n, slot[n])'
      <3>1. PICK j : j = k
        OBVIOUS
      <3>2. slot'[n] = j
        BY <2>1, <2>2, <3>1
      <3>. QED  BY <2>5, <3>1, <3>2 DEF Current
    <2>7. Current(n, collector[n].draft.nonce)'
      <3>1. PICK j : j = k
        OBVIOUS
      <3>2. collector'[n].draft.nonce = j
        BY <2>3, <3>1
      <3>. QED  BY <2>5, <3>1, <3>2 DEF Current
    <2>8. \A x \in Nodes \ {n} : KeepsQuotes(x) /\ slot'[x] = slot[x]
      BY <2>1, <2>2, <2>3 DEF KeepsQuotes
    <2>9. DraftsCurrent'
      BY <2>7, <2>8, DraftKept DEF DraftsCurrent
    <2>10. QuotesGenuine'
      BY <2>1, <2>3, QuoteKept DEF QuotesGenuine
    <2>11. \A i \in 1..Len(backed) : backed[i] \in 1..Len(issued)
      BY DEF BootInv, SlotsCurrent
    <2>12. \A i \in 1..Len(backed') : backed'[i] \in 1..Len(issued') /\ backed'[i] # slot'[n]
      <3>1. slot'[n] = Len(issued) + 1 /\ Len(issued') = Len(issued) + 1
        BY <2>1, <2>2 DEF k, issue
      <3>. QED  BY <2>1, <2>2, <2>11, <3>1
    <2>13. ASSUME NEW x \in Nodes \ {n}, slot'[x] # NoNonce
           PROVE  Current(x, slot[x])' /\ \A i \in 1..Len(backed') : backed'[i] # slot'[x]
      <3>1. slot[x] # NoNonce /\ Current(x, slot[x])
            /\ \A i \in 1..Len(backed) : backed[i] # slot[x]
        BY <2>8, <2>13 DEF BootInv, SlotsCurrent
      <3>2. PICK j : j = slot[x]
        OBVIOUS
      <3>3. Current(x, j)'
        BY <1>0, <2>4, <3>1, <3>2, CurrentKept
      <3>4. slot'[x] = j
        BY <2>8, <3>2
      <3>. QED  BY <2>1, <3>1, <3>2, <3>3, <3>4 DEF Current
    <2>14. SlotsCurrent'
      BY <2>6, <2>12, <2>13 DEF SlotsCurrent
    <2>15. NonceAdmitsOnce'
      BY <2>1 DEF BootInv, NonceAdmitsOnce
    <2>16. HostFirst'
      BY <1>0, <2>1, <2>3 DEF HostFirst, Nodes
    <2>. QED  BY <1>0, <2>1, <2>9, <2>10, <2>14, <2>15, <2>16, OldAnswersKept DEF BootInv
  <1>6. ASSUME NEW n \in Nodes, Works(n) PROVE BootInv'
    <2>1. UNCHANGED <<slot, answer, backed, hostOk>>
      BY <1>6, WorksKeeps DEF enclave
    <2>. QED  BY <1>0, <1>6, <2>1, WorksKeepsQuotes, SlotsKept, OldAnswersKept
              DEF BootInv, SlotsUsed
  <1>7. ASSUME NEW n \in Nodes, Verify(n) \/ Resend(n) PROVE BootInv'
    BY <1>7, AnsweringStep
  <1>8. ASSUME Publish PROVE BootInv'
    <2>1. /\ collector' = [collector EXCEPT !["host"].pc = "up"]
          /\ UNCHANGED <<slot, answer, backed, hostOk, sent>>
          /\ At("host", "publish") /\ "host" \in Nodes
      BY <1>8 DEF Publish, enclave, Nodes
    <2>2. /\ collector'["host"].pc = "up" /\ collector'["host"].msg = collector["host"].msg
          /\ \A x \in Nodes \ {"host"} : collector'[x] = collector[x]
      BY <1>0, <2>1 DEF Collectors
    <2>3. \A x \in Nodes : KeepsQuotes(x)
      BY <2>1, <2>2 DEF KeepsQuotes
    <2>4. HostFirst'
      BY <1>0, <2>1, <2>2 DEF HostFirst, At
    <2>. QED  BY <1>s, <2>1, <2>3, <2>4 DEF SlotsUsed
  <1>9. CASE UNCHANGED vars
    BY <1>1, <1>9 DEF vars, enclave
  <1>. QED  BY <1>2, <1>3, <1>4, <1>5, <1>6, <1>7, <1>8, <1>9 DEF Next, Works, Rest

\* The invariant holds always.
THEOREM AlwaysBootInv == Spec => []BootInv
  BY BootInit, BootStep, PTL DEF Spec

\* TypeOK: every collector stays at the stages of its own program and below the
\* limits of its loops.
THEOREM TypesHold == Spec => []TypeOK
  <1>1. ASSUME BootInv PROVE TypeOK
    <2>0. TypeInv /\ StagesOk /\ SlotsCurrent
      BY <1>1 DEF BootInv, TypesAndStages
    <2>1. \A l \in Logs : IsLog(l)
      BY DEF IsLog, Logs
    <2>2. \A p \in Pcr10s : IsPcr10(p)
      BY DEF IsPcr10, Pcr10s
    <2>3. ASSUME NEW n \in Nodes
          PROVE  /\ IsLog(kernel[n].log) /\ kernel[n].platform \in Platforms
                 /\ Len(kernel[n].log) - kernel[n].extended \in {0, 1}
                 /\ IsLog(snapshot[n])
                 /\ IsLog(collector[n].msg.log) /\ IsPcr10(collector[n].msg.pcr10)
      <3>1. KernelShown(n) /\ snapshot[n] \in Logs /\ collector[n].msg.log \in Logs
            /\ collector[n].msg.pcr10 \in Pcr10s
        BY <2>0, KernelFacts DEF TypeInv, Collectors, Requests
      <3>2. Len(kernel[n].log) \in Nat /\ kernel[n].extended \in Nat
        BY <3>1 DEF KernelShown, Logs
      <3>3. Len(kernel[n].log) - kernel[n].extended \in {0, 1}
        BY <2>0, <3>2 DEF TypeInv
      <3>. QED  BY <2>1, <2>2, <3>1, <3>3 DEF KernelShown
    <2>4. \A n \in Nodes : slot[n] # NoNonce => issued[slot[n]].node = n
      BY <2>0 DEF SlotsCurrent, Current
    <2>. QED  BY <2>0, <2>3, <2>4 DEF TypeOK, TypeInv, StagesOk, StageOk
  <1>. QED  BY <1>1, AlwaysBootInv, PTL

\* NonceAdmitsOnce: a nonce that handle_get_nonce issued backs at most one
\* admission, however requests are repeated.
THEOREM NoncesBackOneAdmission == Spec => []NonceAdmitsOnce
  <1>1. BootInv => NonceAdmitsOnce
    BY DEF BootInv
  <1>. QED  BY <1>1, AlwaysBootInv, PTL

\* AdmittedIsFresh: where a key is registered, no node is admitted without a
\* quote, except on a reply without a value, and the PCR 10 of an admission was
\* quoted after the nonce was issued, in the same boot.
THEOREM AdmissionsAreFresh == Spec => []AdmittedIsFresh
  <1>1. ASSUME BootInv PROVE AdmittedIsFresh
    BY <1>1 DEF BootInv, FreshAnswer, AdmittedIsFresh
  <1>. QED  BY <1>1, AlwaysBootInv, PTL

\* AdmittedIsRegistered: while the registry answers, the PCR 10 of a quoted
\* admission shows registered components only, and a guest is admitted only
\* above an admitted host.
THEOREM AdmissionsAreRegistered == Spec => []AdmittedIsRegistered
  <1>1. BootInv => AdmittedIsRegistered
    BY DEF BootInv, RegisteredAnswers, ShowsRegistered, HostBelow, AdmittedIsRegistered
  <1>. QED  BY <1>1, AlwaysBootInv, PTL

-----------------------------------------------------------------------------
(* What a node that runs registered software only puts together *)

Undamaged == faults \cap {"software", "writers", "read", "resend"} = {}

\* Nothing but registered software has been measured.
CleanLog(l) == \A i \in 1..Len(l) : l[i].hash = "good"
CleanNode(n) ==
    CleanLog(kernel[n].log) /\ CleanLog(snapshot[n]) /\ kernel[n].platform = "good"

\* The collector's entry is among those that PCR 10 covers.
ShowsCollector(p) == \E i \in 1..Len(p) : p[i] = Entry("collector", "good")

\* What was read of PCRs, and of PCRs and log, can be explained.
ReadOf(n, m) ==
    ShowsCollector(m.pcr10) /\ Prefix(m.pcr10, Pcr10(n)) /\ m.platform = "good"
FitsOf(n, m) == ReadOf(n, m) /\ Reconciles(m) /\ CleanLog(m.log)

QuotedOf(n, m) == slot[n] # NoNonce /\ m.quote = Quote(slot[n], m.platform, m.pcr10)

\* A collector c of node n has put together what fits, for where it is.
AssembledAs(n, c) ==
    /\ c.pc # "down" => ShowsCollector(Pcr10(n))
    /\ c.pc \in {"nonce", "draft", "quote", "pcrs", "log", "again"} => c.msg.quote = NoQuote
    /\ c.pc = "log" => ReadOf(n, c.msg)
    /\ c.pc = "again" => FitsOf(n, c.msg)
    /\ c.pc \in {"nonce", "draft", "quote"} /\ c.quoter = "runner" => FitsOf(n, c.msg)
    /\ c.pc \in {"draft", "quote"} => slot[n] # NoNonce /\ c.draft.nonce = slot[n]
    /\ c.pc = "reread" => ReadOf(n, c.msg) /\ QuotedOf(n, c.msg)
    /\ c.pc = "send" => FitsOf(n, c.msg) /\ (c.msg.quote = NoQuote \/ QuotedOf(n, c.msg))

\* The exporter itself asks for a quote.
ExporterQuotes(n) == n = "guest" /\ "gpu" \in site

ShowsGood(m) == ShowsCollector(m.pcr10) /\ m.platform = "good"

\* A request from a copy: PCR 10 and log are of the same copy, unless the
\* exporter quoted.
CopyOf(n, m) ==
    /\ CleanLog(m.log) /\ m.platform = "good"
    /\ \/ m.pcr10 # << >> /\ m.pcr10 = Digests(m.log) /\ m.quote = NoQuote
       \/ ExporterQuotes(n) /\ ShowsCollector(m.pcr10) /\ QuotedOf(n, m)

\* A collector c of node n has put together a request from a copy, for where
\* it is.
CopiedAs(n, c) ==
    /\ c.pc \notin {"log", "again"}
    /\ c.pc # "down" => ShowsCollector(Pcr10(n))
    /\ c.pc \in {"nonce", "draft", "quote", "reread"} =>
          c.quoter = "exporter" /\ ExporterQuotes(n)
    /\ c.pc \in {"draft", "quote"} => slot[n] # NoNonce /\ c.draft.nonce = slot[n]
    /\ c.pc = "reread" => ShowsGood(c.msg) /\ QuotedOf(n, c.msg)
    /\ c.pc = "send" => CopyOf(n, c.msg)

Fitting(n, c) == IF InSnapshot(n) THEN CopiedAs(n, c) ELSE AssembledAs(n, c)

\* The alarms that a copy of the log may give.
CopyAlarm(n, m, status) ==
    \/ status = -4 /\ LastHash(n, m.log, "collector") = "none"
    \/ status = -9 /\ ExporterQuotes(n)

GoodAnswer(n) ==
    answer[n].status \in Alarms =>
        InSnapshot(n) /\ CopyAlarm(n, answer[n].request, answer[n].status)

CleanAt(n) == CleanNode(n) /\ Fitting(n, collector[n]) /\ GoodAnswer(n)
CleanInv == Undamaged => \A n \in Nodes : CleanAt(n)

\* PCRs that were read stay a prefix of PCR 10 within a boot.
LEMMA ReadKept ==
    ASSUME TypesAndStages, [Next]_vars, NEW n \in Nodes, boot'[n] = boot[n]
    PROVE  /\ ShowsCollector(Pcr10(n)) => ShowsCollector(Pcr10(n)')
           /\ \A m \in Requests : /\ ReadOf(n, m) => ReadOf(n, m)'
                                  /\ FitsOf(n, m) => FitsOf(n, m)'
  <1>1. TypeInv /\ TypeInv' /\ Grows(n) /\ KernelShown(n)
    BY TypeStep, StepGrows, KernelFacts DEF TypesAndStages
  <1>2. Pcr10(n) \in Pcr10s /\ Pcr10(n)' \in Pcr10s
    BY <1>1, KernelFactsNext DEF KernelShown
  <1>3. Prefix(Pcr10(n), Pcr10(n)')
    <2>1. boot[n] \in Nat
      BY <1>1 DEF TypeInv
    <2>. QED  BY <1>1, <2>1 DEF Grows
  <1>4. ASSUME ShowsCollector(Pcr10(n)) PROVE ShowsCollector(Pcr10(n)')
    <2>1. Len(Pcr10(n)) \in Nat /\ Len(Pcr10(n)') \in Nat
      BY <1>2 DEF Pcr10s
    <2>. QED  BY <1>3, <1>4, <2>1 DEF ShowsCollector, Prefix
  <1>5. ASSUME NEW m \in Requests, ReadOf(n, m) PROVE ReadOf(n, m)'
    <2>1. Prefix(m.pcr10, Pcr10(n)')
      BY <1>2, <1>3, <1>5, PrefixFacts DEF ReadOf, Requests
    <2>. QED  BY <1>5, <2>1 DEF ReadOf
  <1>. QED  BY <1>4, <1>5 DEF FitsOf

\* So does what a collector has put together fit, while its enclave keeps the
\* nonce.
LEMMA AssembledKept ==
    ASSUME TypesAndStages, [Next]_vars, NEW n \in Nodes, boot'[n] = boot[n],
           slot'[n] = slot[n], NEW c \in Collectors, AssembledAs(n, c)
    PROVE  AssembledAs(n, c)'
  <1>1. c.msg \in Requests
    BY DEF Collectors
  <1>2. QuotedOf(n, c.msg) => QuotedOf(n, c.msg)'
    BY DEF QuotedOf
  <1>3. /\ ShowsCollector(Pcr10(n)) => ShowsCollector(Pcr10(n)')
        /\ ReadOf(n, c.msg) => ReadOf(n, c.msg)'
        /\ FitsOf(n, c.msg) => FitsOf(n, c.msg)'
    BY <1>1, ReadKept
  <1>. QED  BY <1>2, <1>3 DEF AssembledAs

LEMMA CopiedKept ==
    ASSUME TypesAndStages, [Next]_vars, NEW n \in Nodes, boot'[n] = boot[n],
           slot'[n] = slot[n], NEW c \in Collectors, CopiedAs(n, c)
    PROVE  CopiedAs(n, c)'
  <1>1. QuotedOf(n, c.msg) => QuotedOf(n, c.msg)'
    BY DEF QuotedOf
  <1>2. ExporterQuotes(n) => ExporterQuotes(n)'
    BY StepGrows DEF ExporterQuotes, chosen
  <1>3. CopyOf(n, c.msg) => CopyOf(n, c.msg)'
    BY <1>1, <1>2 DEF CopyOf
  <1>4. ShowsCollector(Pcr10(n)) => ShowsCollector(Pcr10(n)')
    BY ReadKept
  <1>. QED  BY <1>1, <1>2, <1>3, <1>4 DEF CopiedAs

\* A log that is read after the PCRs covers them.
LEMMA FitsLive ==
    ASSUME TypeInv, NEW n \in Nodes, CleanNode(n), NEW m \in Requests,
           ReadOf(n, m), m.log = kernel[n].log
    PROVE  FitsOf(n, m)
  <1>1. KernelShown(n)
    BY KernelFacts
  <1>2. m.pcr10 # << >> /\ m.pcr10 \in Pcr10s
    BY DEF ReadOf, ShowsCollector, Requests
  <1>3. Digests(kernel[n].log) \in Pcr10s
    BY <1>1, DigestsFacts DEF KernelShown
  <1>4. Prefix(m.pcr10, Digests(m.log))
    BY <1>1, <1>2, <1>3, PrefixFacts DEF KernelShown, ReadOf
  <1>5. Reconciles(m)
    BY <1>2, <1>4, ReconcilesFacts
  <1>. QED  BY <1>5 DEF FitsOf, CleanNode

\* A clean log and a quote over the nonce in the slot give no enclave a reason
\* for alarm, and the log shows the collector where it replays to PCR 10.
LEMMA CleanIsNotSuspect ==
    ASSUME TypeInv, NEW n \in Nodes, NEW m \in Requests, CleanLog(m.log),
           m.platform = "good", m.pcr10 # << >>, m.quote = NoQuote \/ QuotedOf(n, m),
           NEW reply
    PROVE  /\ ~Suspect(n, m, reply)
           /\ ShowsCollector(m.pcr10) /\ (n = "guest" \/ Reconciles(m)) => ~Missing(n, m)
  <1>. DEFINE l == AttestedPart(m)
  <1>0. m.log \in Logs /\ m.pcr10 \in Pcr10s /\ Len(m.log) \in Nat
        /\ \A i \in 1..Len(m.log) : m.log[i] \in Entries
    BY DEF Requests, Logs
  <1>1. CASE ~Reconciles(m)
    <2>1. l = << >>
      BY <1>1, ReconcilesFacts
    <2>2. \A f \in Files : LastHash(n, l, f) = "none"
      BY <2>1, NothingFound
    <2>3. m.quote # NoQuote => slot[n] # NoNonce /\ QuoteOk(m, slot[n])
      BY DEF QuotedOf, QuoteOk
    <2>. HIDE DEF l
    <2>. QED  BY <1>1, <2>2, <2>3 DEF Suspect, Missing, Unregistered, Files, l
  <1>2. CASE Reconciles(m)
    <2>1. /\ l \in Logs /\ Len(l) = Len(m.pcr10) /\ Len(m.pcr10) <= Len(m.log)
          /\ \A i \in 1..Len(m.pcr10) : l[i] = m.log[i] /\ m.pcr10[i] = Digest(m.log[i])
      BY <1>2, ReconcilesFacts
    <2>2. Len(l) \in Nat
      BY <2>1 DEF Logs
    <2>3. \A i \in 1..Len(l) : l[i] \in Entries /\ l[i].hash = "good"
      BY <1>0, <2>1, <2>2 DEF CleanLog
    <2>. HIDE DEF l
    <2>4. \A f \in Files : LastHash(n, l, f) \in {"none", "good"}
      BY <2>1, <2>3, LastHashFacts DEF LastHashShown
    <2>5. m.quote # NoQuote => slot[n] # NoNonce /\ QuoteOk(m, slot[n])
      BY DEF QuotedOf, QuoteOk
    <2>6. ~Suspect(n, m, reply)
      BY <2>4, <2>5 DEF Suspect, Unregistered, Files, l
    <2>7. ASSUME ShowsCollector(m.pcr10) PROVE ~Missing(n, m)
      <3>1. PICK i \in 1..Len(l) : Digest(l[i]) = Entry("collector", "good")
        BY <2>1, <2>7 DEF ShowsCollector
      <3>2. l[i] = Entry("collector", "good")
        BY <2>3, <3>1, EntryFacts DEF Files
      <3>3. l[i].file = "collector" /\ l[i].hash = "good"
        BY <3>2 DEF Entry
      <3>4. Counted(n, l[i], "collector")
        BY <3>3 DEF Counted
      <3>5. LastHash(n, l, "collector") = "good"
        BY <2>1, <2>3, <3>4, LastHashFacts DEF LastHashShown
      <3>. QED  BY <3>5 DEF Missing, l
    <2>. QED  BY <2>6, <2>7
  <1>. QED  BY <1>1, <1>2

\* A request whose parts fit gives no alarm ...
LEMMA FitsGivesNoAlarm ==
    ASSUME TypeInv, NEW n \in Nodes, NEW m \in Requests, FitsOf(n, m),
           m.quote = NoQuote \/ QuotedOf(n, m), NEW reply
    PROVE  Status(n, m, reply) \notin Alarms
  <1>1. /\ Reconciles(m) /\ CleanLog(m.log) /\ m.platform = "good"
        /\ ShowsCollector(m.pcr10) /\ m.pcr10 # << >>
    BY DEF FitsOf, ReadOf, Reconciles
  <1>2. ~Suspect(n, m, reply) /\ ~Missing(n, m) /\ ~Diverges(n, m)
    BY <1>1, CleanIsNotSuspect DEF Diverges
  <1>. QED  BY <1>2, AlarmFacts DEF TypeInv

\* ... and a copy those two only that CopyAlarm names.
LEMMA CopyGivesItsAlarms ==
    ASSUME TypeInv, NEW n \in Nodes, NEW m \in Requests, CopyOf(n, m), NEW reply,
           Status(n, m, reply) \in Alarms
    PROVE  CopyAlarm(n, m, Status(n, m, reply))
  <1>1. CleanLog(m.log) /\ m.platform = "good" /\ attested \in BOOLEAN
    BY DEF CopyOf, TypeInv
  <1>2. CASE m.pcr10 # << >> /\ m.pcr10 = Digests(m.log) /\ m.quote = NoQuote
    <2>1. m.log \in Logs /\ m.pcr10 \in Pcr10s
      BY DEF Requests
    <2>2. Reconciles(m)
      BY <1>2, <2>1, PrefixFacts, ReconcilesFacts
    <2>3. AttestedPart(m) = m.log
      <3>1. Len(m.pcr10) = Len(m.log)
        BY <1>2, <2>1, DigestsFacts
      <3>2. AttestedPart(m) = SubSeq(m.log, 1, Len(m.log))
        BY <2>2, <3>1 DEF AttestedPart
      <3>. QED  BY <2>1, <3>2 DEF Logs
    <2>4. ~Suspect(n, m, reply) /\ ~Diverges(n, m)
      BY <1>1, <1>2, <2>2, CleanIsNotSuspect DEF Diverges
    <2>5. Status(n, m, reply) = -4 /\ Missing(n, m)
      BY <1>1, <2>4, AlarmFacts
    <2>. QED  BY <2>3, <2>5 DEF CopyAlarm, Missing
  <1>3. CASE ExporterQuotes(n) /\ ShowsCollector(m.pcr10) /\ QuotedOf(n, m)
    <2>1. n = "guest" /\ m.pcr10 # << >>
      BY <1>3 DEF ExporterQuotes, ShowsCollector
    <2>2. ~Suspect(n, m, reply) /\ ~Missing(n, m)
      BY <1>1, <1>3, <2>1, CleanIsNotSuspect
    <2>3. Status(n, m, reply) = -9
      BY <1>1, <2>2, AlarmFacts
    <2>. QED  BY <1>3, <2>3 DEF CopyAlarm
  <1>. QED  BY <1>2, <1>3 DEF CopyOf

-----------------------------------------------------------------------------
(* A collector's own steps *)

\* A collector that Becomes (...) holds a request with these fields.
LEMMA MovesAssembled ==
    ASSUME TypesAndStages, NEW n \in Nodes, CleanNode(n), Undamaged, ~InSnapshot(n),
           AssembledAs(n, collector[n]), collector' \in [Nodes -> Collectors],
           MovedReading(n) \/ MovedQuoting(n)
    PROVE  AssembledAs(n, collector'[n])
  <1>. DEFINE c == collector[n]
              d == collector'[n]
              m == collector[n].msg
              r == collector'[n].msg
  <1>0. /\ TypeInv /\ KernelShown(n) /\ c \in Collectors /\ d \in Collectors
        /\ m \in Requests /\ r \in Requests /\ "read" \notin faults
        /\ kernel[n].platform = "good" /\ LogAfterQuote(n) = kernel[n].log
    BY KernelFacts DEF TypesAndStages, TypeInv, Collectors, Undamaged, CleanNode, LogAfterQuote
  <1>n. NoQuote.nonce = 0 /\ Prefix(Pcr10(n), Pcr10(n))
    BY <1>0, PrefixFacts DEF NoQuote, Quote, NoNonce, KernelShown
  <1>r. RunnerStage(n) \in {"nonce", "send"} /\ UnquotedStage(n) \in {"pcrs", "send"}
        /\ (UnquotedStage(n) = "pcrs" <=> c.quoter = "exporter")
    BY DEF RunnerStage, UnquotedStage
  <1>k. ASSUME r.platform = m.platform, r.pcr10 = m.pcr10, r.log = m.log, r.quote = m.quote
        PROVE  r = m
    BY <1>0, <1>k DEF Requests
  <1>1. CASE MovedReading(n)
    <2>1. CASE /\ c.pc = "pcrs" /\ ~InSnapshot(n)
               /\ Becomes(n, "log", c.quoter, c.draft, kernel[n].platform, Pcr10(n), m.log, m.quote)
      <3>1. ReadOf(n, r) /\ r.quote = NoQuote
        BY <1>0, <1>n, <2>1 DEF AssembledAs, ReadOf, Becomes
      <3>. QED  BY <2>1, <3>1 DEF AssembledAs, Becomes
    <2>2. CASE /\ c.pc = "log"
               /\ \/ Handed(n, m.platform, m.pcr10, kernel[n].log, m.quote)
                  \/ Becomes(n, "again", c.quoter, c.draft, m.platform, m.pcr10,
                             kernel[n].log, m.quote)
      <3>1. ReadOf(n, r) /\ r.log = kernel[n].log /\ r.quote = NoQuote
        BY <2>2 DEF AssembledAs, ReadOf, Becomes, Handed
      <3>2. FitsOf(n, r)
        BY <1>0, <3>1, FitsLive
      <3>. QED  BY <1>r, <2>2, <3>1, <3>2 DEF AssembledAs, Becomes, Handed
    <2>3. CASE c.pc = "again" /\ Handed(n, m.platform, m.pcr10, m.log, m.quote)
      <3>1. r = m
        BY <1>k, <2>3 DEF Handed, Becomes
      <3>. QED  BY <1>r, <2>3, <3>1 DEF AssembledAs, Becomes, Handed
    <2>4. CASE c.pc = "again" /\ KeepsMsg(n, "pcrs", c.quoter, c.draft)
      <3>1. r = m
        BY <1>k, <2>4 DEF KeepsMsg, Becomes
      <3>. QED  BY <2>4, <3>1 DEF AssembledAs, Becomes, KeepsMsg
    <2>. QED  BY <1>0, <1>1, <2>1, <2>2, <2>3, <2>4 DEF MovedReading
  <1>2. CASE MovedQuoting(n)
    <2>1. CASE /\ c.pc = "draft"
               /\ KeepsMsg(n, "quote", c.quoter, Quote(c.draft.nonce, kernel[n].platform, Pcr10(n)))
      <3>1. r = m
        BY <1>k, <2>1 DEF KeepsMsg, Becomes
      <3>2. d.draft.nonce = c.draft.nonce
        BY <2>1 DEF KeepsMsg, Becomes, Quote
      <3>. QED  BY <2>1, <3>1, <3>2 DEF AssembledAs, Becomes, KeepsMsg
    <2>2. CASE /\ c.pc = "quote"
               /\ c.draft = Quote(c.draft.nonce, kernel[n].platform, Pcr10(n))
               /\ Becomes(n, "reread", c.quoter, NoQuote, c.draft.platform, c.draft.pcr10,
                          m.log, c.draft)
      <3>1. c.draft.platform = "good" /\ c.draft.pcr10 = Pcr10(n)
        BY <1>0, <2>2 DEF Quote
      <3>2. ReadOf(n, r)
        BY <1>n, <2>2, <3>1 DEF AssembledAs, ReadOf, Becomes
      <3>3. QuotedOf(n, r)
        <4>1. r.quote = Quote(c.draft.nonce, r.platform, r.pcr10) /\ c.draft.nonce = slot[n]
              /\ slot[n] # NoNonce
          BY <1>0, <2>2, <3>1 DEF AssembledAs, Becomes
        <4>. QED  BY <4>1 DEF QuotedOf
      <3>. QED  BY <2>2, <3>2, <3>3 DEF AssembledAs, Becomes
    <2>3. CASE c.pc = "quote" /\ KeepsMsg(n, "draft", c.quoter, c.draft)
      <3>1. r = m
        BY <1>k, <2>3 DEF KeepsMsg, Becomes
      <3>. QED  BY <2>3, <3>1 DEF AssembledAs, Becomes, KeepsMsg
    <2>4. CASE c.pc \in {"nonce", "draft", "quote"}
               /\ KeepsMsg(n, UnquotedStage(n), c.quoter, NoQuote)
      <3>1. r = m
        BY <1>k, <2>4 DEF KeepsMsg, Becomes
      <3>2. c.quoter \in {"exporter", "runner"}
        BY <1>0 DEF Collectors
      <3>. QED  BY <1>r, <2>4, <3>1, <3>2 DEF AssembledAs, Becomes, KeepsMsg
    <2>5. CASE /\ c.pc = "reread"
               /\ Becomes(n, "send", c.quoter, c.draft, m.platform, m.pcr10,
                          LogAfterQuote(n), m.quote)
      <3>1. ReadOf(n, r) /\ r.log = kernel[n].log /\ QuotedOf(n, r)
        BY <1>0, <2>5 DEF AssembledAs, ReadOf, QuotedOf, Becomes
      <3>2. FitsOf(n, r)
        BY <1>0, <3>1, FitsLive
      <3>. QED  BY <2>5, <3>1, <3>2 DEF AssembledAs, Becomes
    <2>6. LogAfterQuote(n) = << >> => c.pc # "reread"
      <3>1. LogAfterQuote(n) = << >> => Len(Pcr10(n)) = 0
        BY <1>0 DEF KernelShown
      <3>. QED  BY <3>1 DEF AssembledAs, ShowsCollector
    <2>. QED  BY <1>0, <1>2, <2>1, <2>2, <2>3, <2>4, <2>5, <2>6 DEF MovedQuoting
  <1>. QED  BY <1>1, <1>2

\* ... and so does one that works on a copy.
LEMMA MovesCopied ==
    ASSUME TypesAndStages, NEW n \in Nodes, CleanNode(n), Undamaged, InSnapshot(n),
           CopiedAs(n, collector[n]), collector' \in [Nodes -> Collectors],
           MovedReading(n) \/ MovedQuoting(n)
    PROVE  CopiedAs(n, collector'[n])
  <1>. DEFINE c == collector[n]
              d == collector'[n]
              m == collector[n].msg
              r == collector'[n].msg
  <1>0. /\ "read" \notin faults /\ snapshot[n] \in Logs /\ r \in Requests
        /\ kernel[n].platform = "good" /\ CleanLog(snapshot[n]) /\ RunnerStage(n) = "send"
        /\ c.pc \notin {"log", "again"}
    BY DEF Undamaged, CopiedAs, CleanNode, TypesAndStages, TypeInv, Collectors, RunnerStage
  <1>1. ASSUME snapshot[n] # << >>, c.pc = "pcrs",
               Handed(n, kernel[n].platform, Digests(snapshot[n]), snapshot[n], NoQuote)
        PROVE  CopiedAs(n, d)
    <2>1. /\ d.pc = "send" /\ r.pcr10 = Digests(snapshot[n]) /\ r.log = snapshot[n]
          /\ r.platform = "good" /\ r.quote = NoQuote
      BY <1>0, <1>1 DEF Handed, Becomes
    <2>2. Digests(snapshot[n]) # << >>
      <3>1. Len(Digests(snapshot[n])) = Len(snapshot[n]) /\ Len(snapshot[n]) # 0
        BY <1>0, <1>1, DigestsFacts DEF Logs
      <3>. QED  BY <3>1
    <2>3. CopyOf(n, r)
      BY <1>0, <2>1, <2>2 DEF CopyOf
    <2>. QED  BY <1>1, <2>1, <2>3 DEF CopiedAs
  <1>2. CASE MovedReading(n)
    BY <1>0, <1>1, <1>2 DEF MovedReading
  <1>3. CASE MovedQuoting(n)
    <2>1. CASE /\ c.pc = "draft"
               /\ KeepsMsg(n, "quote", c.quoter, Quote(c.draft.nonce, kernel[n].platform, Pcr10(n)))
      <3>1. d.pc = "quote" /\ d.quoter = c.quoter /\ d.draft.nonce = c.draft.nonce
        BY <2>1 DEF KeepsMsg, Becomes, Quote
      <3>. QED  BY <2>1, <3>1 DEF CopiedAs
    <2>2. CASE /\ c.pc = "quote"
               /\ c.draft = Quote(c.draft.nonce, kernel[n].platform, Pcr10(n))
               /\ Becomes(n, "reread", c.quoter, NoQuote, c.draft.platform, c.draft.pcr10,
                          m.log, c.draft)
      <3>1. c.draft.platform = "good" /\ c.draft.pcr10 = Pcr10(n)
        BY <1>0, <2>2 DEF Quote
      <3>2. ShowsGood(r)
        BY <2>2, <3>1 DEF CopiedAs, ShowsGood, Becomes
      <3>3. QuotedOf(n, r)
        <4>1. r.quote = Quote(c.draft.nonce, r.platform, r.pcr10) /\ c.draft.nonce = slot[n]
              /\ slot[n] # NoNonce
          BY <1>0, <2>2, <3>1 DEF CopiedAs, Becomes
        <4>. QED  BY <4>1 DEF QuotedOf
      <3>. QED  BY <2>2, <3>2, <3>3 DEF CopiedAs, Becomes
    <2>3. CASE c.pc = "quote" /\ KeepsMsg(n, "draft", c.quoter, c.draft)
      <3>1. d.pc = "draft" /\ d.quoter = c.quoter /\ d.draft = c.draft
        BY <2>3 DEF KeepsMsg, Becomes
      <3>. QED  BY <2>3, <3>1 DEF CopiedAs
    <2>4. CASE c.pc \in {"nonce", "draft", "quote"}
               /\ KeepsMsg(n, UnquotedStage(n), c.quoter, NoQuote)
      <3>1. UnquotedStage(n) = "pcrs"
        BY <2>4 DEF CopiedAs, UnquotedStage
      <3>2. d.pc = "pcrs"
        BY <2>4, <3>1 DEF KeepsMsg, Becomes
      <3>. QED  BY <2>4, <3>2 DEF CopiedAs
    <2>5. CASE /\ c.pc = "reread"
               /\ Becomes(n, "send", c.quoter, c.draft, m.platform, m.pcr10,
                          LogAfterQuote(n), m.quote)
      <3>1. LogAfterQuote(n) = snapshot[n] /\ ExporterQuotes(n)
        BY <2>5 DEF CopiedAs, LogAfterQuote
      <3>2. CopyOf(n, r)
        BY <1>0, <2>5, <3>1 DEF CopiedAs, CopyOf, ShowsGood, QuotedOf, Becomes
      <3>. QED  BY <2>5, <3>2 DEF CopiedAs, Becomes
    <2>6. c.pc = "reread" => c.quoter = "exporter"
      BY DEF CopiedAs
    <2>. QED  BY <1>3, <2>1, <2>2, <2>3, <2>4, <2>5, <2>6 DEF MovedQuoting
  <1>. QED  BY <1>2, <1>3

\* A collector that is down has nothing that could not fit.
LEMMA IdleFits == \A n \in Nodes : Fitting(n, Idle)
  BY DEF Fitting, CopiedAs, AssembledAs, Idle, Collector

\* What fits goes on fitting ...
LEMMA FittingKept ==
    ASSUME TypesAndStages, [Next]_vars, NEW n \in Nodes, boot'[n] = boot[n],
           slot'[n] = slot[n], NEW c \in Collectors, Fitting(n, c)
    PROVE  Fitting(n, c)'
  <1>1. UNCHANGED chosen
    BY StepGrows
  <1>2. CASE InSnapshot(n)
    BY <1>1, <1>2, CopiedKept DEF Fitting, InSnapshot, chosen
  <1>3. CASE ~InSnapshot(n)
    BY <1>1, <1>3, AssembledKept DEF Fitting, InSnapshot, chosen
  <1>. QED  BY <1>2, <1>3

\* What is at rest at a node while it does not boot again.
LEMMA FittingRests ==
    ASSUME TypesAndStages, [Next]_vars, NEW n \in Nodes, boot'[n] = boot[n],
           slot'[n] = slot[n], Fitting(n, collector'[n])
    PROVE  Fitting(n, collector[n])'
  <1>1. collector'[n] \in Collectors
    BY TypeStep DEF TypesAndStages, TypeInv
  <1>2. PICK c \in Collectors : c = collector'[n]
    BY <1>1
  <1>3. Fitting(n, c)'
    BY <1>2, FittingKept
  <1>. QED  BY <1>2, <1>3 DEF Fitting, CopiedAs, AssembledAs, CopyOf, QuotedOf,
                                ReadOf, FitsOf, ExporterQuotes, InSnapshot

-----------------------------------------------------------------------------
(* No false alarm *)

\* Nothing is wrong initially.
LEMMA CleanInit == Init => CleanInv
  <1>. SUFFICES ASSUME Init, Undamaged, NEW n \in Nodes PROVE CleanAt(n)
    BY DEF CleanInv
  <1>1. BootedWith = {"good"}
    BY DEF BootedWith, Undamaged
  <1>2. CleanNode(n)
    BY <1>1 DEF Init, CleanNode, CleanLog
  <1>3. Fitting(n, collector[n])
    BY IdleFits DEF Init
  <1>4. GoodAnswer(n)
    BY DEF Init, GoodAnswer, NoAnswer, Alarms
  <1>. QED  BY <1>2, <1>3, <1>4 DEF CleanAt

\* A node without unregistered software and writers measures clean entries.
LEMMA CleanNodeKept ==
    ASSUME TypesAndStages, [Next]_vars, Undamaged, NEW n \in Nodes, CleanNode(n)
    PROVE  CleanNode(n)'
  <1>0. /\ TypeInv /\ KernelShown(n) /\ kernel \in [Nodes -> Kernels]
        /\ boot \in [Nodes -> Nat] /\ FileHashes = {"good"} /\ BootedWith = {"good"}
        /\ "writers" \notin faults
    BY KernelFacts DEF TypesAndStages, TypeInv, FileHashes, BootedWith, Undamaged
  <1>a. \A e \in Entries : e.hash = "good" => CleanLog(Append(kernel[n].log, e))
    BY <1>0 DEF CleanNode, CleanLog, KernelShown, Logs
  <1>1. ASSUME NEW x \in Nodes, Measure(x) PROVE CleanNode(n)'
    <2>1. PICK e \in Entries : e.hash = "good" /\ kernel' = [kernel EXCEPT ![x].log = Append(@, e)]
      BY <1>0, <1>1 DEF Measure
    <2>2. /\ kernel'[n].log \in {kernel[n].log, Append(kernel[n].log, e)}
          /\ kernel'[n].platform = kernel[n].platform /\ snapshot' = snapshot
      BY <1>0, <1>1, <2>1 DEF Kernels, Measure
    <2>. QED  BY <1>a, <2>1, <2>2 DEF CleanNode
  <1>2. ASSUME NEW x \in Nodes, Extend(x) PROVE CleanNode(n)'
    <2>1. /\ kernel'[n].log = kernel[n].log /\ kernel'[n].platform = kernel[n].platform
          /\ snapshot' = snapshot
      BY <1>0, <1>2 DEF Extend, Kernels
    <2>. QED  BY <2>1 DEF CleanNode
  <1>3. ASSUME NEW x \in Nodes, Reboot(x) PROVE CleanNode(n)'
    <2>1. /\ kernel'[n] \in {kernel[n], [log |-> << >>, extended |-> 0, platform |-> "good"]}
          /\ snapshot' = snapshot
      BY <1>0, <1>3 DEF Reboot
    <2>. QED  BY <2>1 DEF CleanNode, CleanLog
  <1>4. ASSUME NEW x \in Nodes, Start(x) PROVE CleanNode(n)'
    <2>. DEFINE e == Entry("collector", "good")
                log == IF InLog(x, e) THEN kernel[x].log ELSE Append(kernel[x].log, e)
    <2>1. /\ kernel' = [kernel EXCEPT ![x].log = log, ![x].extended = Len(log)]
          /\ snapshot' = snapshot
      BY <1>0, <1>4 DEF Start
    <2>2. log \in {kernel[x].log, Append(kernel[x].log, e)} /\ e \in Entries /\ e.hash = "good"
      BY EntryFacts DEF Files, Hashes
    <2>. HIDE DEF e, log
    <2>3. /\ kernel'[n].log \in {kernel[n].log, Append(kernel[n].log, e)}
          /\ kernel'[n].platform = kernel[n].platform
      BY <1>0, <2>1, <2>2 DEF Kernels
    <2>. QED  BY <1>a, <2>1, <2>2, <2>3 DEF CleanNode
  <1>5. ASSUME kernel' = kernel, snapshot' = snapshot PROVE CleanNode(n)'
    BY <1>5 DEF CleanNode
  <1>6. ASSUME NEW x \in Nodes, Works(x) PROVE CleanNode(n)'
    BY <1>5, <1>6, WorksKeeps DEF machine
  <1>7. ASSUME NEW x \in Nodes, GetNonce(x) \/ Verify(x) \/ Resend(x)
        PROVE  CleanNode(n)'
    BY <1>5, <1>7 DEF GetNonce, Verify, Resend, machine
  <1>8. ASSUME Publish \/ UNCHANGED vars PROVE CleanNode(n)'
    BY <1>5, <1>8 DEF Publish, vars, machine
  <1>9. ASSUME NEW x \in Nodes, CopyLog(x) PROVE CleanNode(n)'
    <2>. DEFINE copy == SubSeq(kernel[n].log, 1, kernel[n].extended)
    <2>1. CleanLog(copy)
      <3>1. kernel[n].log \in Logs /\ kernel[n].extended \in 0..Len(kernel[n].log)
        BY <1>0 DEF KernelShown
      <3>2. Len(copy) = kernel[n].extended /\ \A i \in 1..Len(copy) : copy[i] = kernel[n].log[i]
        BY <3>1, DigestsFacts
      <3>. HIDE DEF copy
      <3>. QED  BY <3>1, <3>2 DEF CleanNode, CleanLog, Logs
    <2>2. snapshot'[n] \in {snapshot[n], copy} /\ kernel' = kernel
      BY <1>0, <1>9 DEF CopyLog, TypeInv
    <2>. HIDE DEF copy
    <2>. QED  BY <2>1, <2>2 DEF CleanNode
  <1>. QED  BY <1>1, <1>2, <1>3, <1>4, <1>6, <1>7, <1>8, <1>9 DEF Next, Works, Rest

\* The kernel has measured a collector that starts.
LEMMA StartFits ==
    ASSUME TypesAndStages, [Next]_vars, Undamaged, NEW n \in Nodes, Start(n), CleanNode(n)
    PROVE  Fitting(n, collector[n])'
  <1>0. /\ TypeInv /\ KernelShown(n) /\ KernelShown(n)' /\ FileHashes = {"good"}
        /\ kernel \in [Nodes -> Kernels] /\ collector \in [Nodes -> Collectors]
        /\ UNCHANGED chosen
    BY KernelFacts, KernelFactsNext, TypeStep, StepGrows
       DEF TypesAndStages, TypeInv, FileHashes, Undamaged
  <1>. DEFINE e == Entry("collector", "good")
              log == IF InLog(n, e) THEN kernel[n].log ELSE Append(kernel[n].log, e)
              stage == IF n = "guest" /\ "gpu" \in site THEN "nonce" ELSE "pcrs"
  <1>1. /\ kernel' = [kernel EXCEPT ![n].log = log, ![n].extended = Len(log)]
        /\ collector' = [collector EXCEPT ![n] = Collector(stage, "exporter")]
    BY <1>0 DEF Start
  <1>2. e \in Entries /\ Digest(e) = e
    BY EntryFacts DEF Digest, Entry, Files, Hashes
  <1>3. \E i \in 1..Len(log) : log[i] = e
    <2>1. CASE InLog(n, e)
      BY <2>1 DEF InLog
    <2>2. CASE ~InLog(n, e)
      <3>. HIDE DEF e
      <3>1. /\ Len(Append(kernel[n].log, e)) = Len(kernel[n].log) + 1
            /\ Append(kernel[n].log, e)[Len(kernel[n].log) + 1] = e
            /\ Len(kernel[n].log) \in Nat
        BY <1>0 DEF KernelShown, Logs
      <3>. QED  BY <2>2, <3>1
    <2>. QED  BY <2>1, <2>2
  <1>4. collector'[n] = Collector(stage, "exporter")
    BY <1>0, <1>1
  <1>5. collector'[n].pc = stage /\ collector'[n].quoter = "exporter"
        /\ collector'[n].msg.quote = NoQuote /\ stage \in {"nonce", "pcrs"}
        /\ (stage = "nonce" => ExporterQuotes(n))
    BY <1>4 DEF Collector, NoRequest, Request, ExporterQuotes
  <1>. HIDE DEF e, log, stage
  <1>6. kernel'[n].log = log /\ kernel'[n].extended = Len(log)
    BY <1>0, <1>1 DEF Kernels
  <1>7. ShowsCollector(Pcr10(n)')
    BY <1>0, <1>2, <1>3, <1>6 DEF KernelShown, ShowsCollector, e
  <1>8. AssembledAs(n, collector[n])'
    BY <1>5, <1>7 DEF AssembledAs
  <1>9. CopiedAs(n, collector[n])'
    BY <1>0, <1>5, <1>7 DEF CopiedAs, ExporterQuotes, chosen
  <1>. QED  BY <1>8, <1>9 DEF Fitting

\* A new nonce fits what the runner was given.
LEMMA NonceFits ==
    ASSUME TypesAndStages, [Next]_vars, NEW n \in Nodes, GetNonce(n),
           Fitting(n, collector[n])
    PROVE  Fitting(n, collector[n])'
  <1>. DEFINE k == Len(issued) + 1
              draft == Quote(k, "zero", << >>)
  <1>0. /\ TypeInv /\ collector \in [Nodes -> Collectors] /\ slot \in [Nodes -> Nat]
        /\ issued \in Seq(Issues) /\ collector[n].msg \in Requests /\ UNCHANGED chosen
        /\ collector[n].pc = "nonce" /\ boot' = boot
    <2>1. UNCHANGED chosen /\ collector[n].pc = "nonce" /\ boot' = boot
      BY StepGrows DEF GetNonce, At, machine
    <2>. QED  BY <2>1 DEF TypesAndStages, TypeInv, Collectors
  <1>1. /\ slot'[n] = k /\ draft.nonce = k /\ k # NoNonce
        /\ collector' = [collector EXCEPT ![n].pc = "draft", ![n].tries = 0, ![n].draft = draft]
    BY <1>0 DEF GetNonce, Quote, NoNonce
  <1>. HIDE DEF k, draft
  <1>2. /\ collector'[n].pc = "draft" /\ collector'[n].draft = draft
        /\ collector'[n].quoter = collector[n].quoter /\ collector'[n].msg = collector[n].msg
    BY <1>0, <1>1 DEF Collectors
  <1>3. CASE InSnapshot(n)
    <2>1. CopiedAs(n, collector[n])
      BY <1>3 DEF Fitting
    <2>2. ShowsCollector(Pcr10(n)')
      BY <1>0, <2>1, ReadKept DEF CopiedAs
    <2>3. CopiedAs(n, collector[n])'
      BY <1>0, <1>1, <1>2, <2>1, <2>2 DEF CopiedAs, ExporterQuotes, chosen
    <2>. QED  BY <1>0, <1>3, <2>3 DEF Fitting, InSnapshot, chosen
  <1>4. CASE ~InSnapshot(n)
    <2>1. AssembledAs(n, collector[n])
      BY <1>4 DEF Fitting
    <2>2. PICK m \in Requests : m = collector[n].msg
      BY <1>0
    <2>3. ShowsCollector(Pcr10(n)') /\ (FitsOf(n, m) => FitsOf(n, m)')
      BY <1>0, <2>1, ReadKept DEF AssembledAs
    <2>4. collector'[n].msg = m
      BY <1>2, <2>2
    <2>5. FitsOf(n, collector[n].msg) => FitsOf(n, collector[n].msg)'
      BY <2>2, <2>3, <2>4 DEF FitsOf, ReadOf
    <2>6. AssembledAs(n, collector[n])'
      BY <1>0, <1>1, <1>2, <2>1, <2>3, <2>5 DEF AssembledAs
    <2>. QED  BY <1>0, <1>4, <2>6 DEF Fitting, InSnapshot, chosen
  <1>. QED  BY <1>3, <1>4

\* What the enclave answers to a request that fits is no alarm.
LEMMA VerifyFits ==
    ASSUME TypesAndStages, [Next]_vars, NEW n \in Nodes, Verify(n), Fitting(n, collector[n])
    PROVE  Fitting(n, collector[n])' /\ GoodAnswer(n)'
  <1>. DEFINE m == collector[n].msg
  <1>0. /\ TypeInv /\ collector \in [Nodes -> Collectors] /\ m \in Requests
        /\ attested \in BOOLEAN /\ UNCHANGED chosen /\ collector[n].pc = "send"
        /\ boot' = boot
    BY StepGrows DEF TypesAndStages, TypeInv, Collectors, Verify, At, machine
  <1>1. PICK reply \in Replies(n) :
          /\ Answers(n, m, reply)
          /\ collector' = [collector EXCEPT ![n] =
                             Collector(StageAfter(n, Status(n, m, reply)), "exporter")]
    BY DEF Verify
  <1>2. answer'[n].status = Status(n, m, reply) /\ answer'[n].request = m
    BY <1>0, <1>1, AnswersTyped
  <1>3. collector'[n].pc \in {"down", "up", "publish"}
    <2>1. collector'[n] = Collector(StageAfter(n, Status(n, m, reply)), "exporter")
      BY <1>0, <1>1
    <2>. QED  BY <2>1 DEF Collector, StageAfter
  <1>4. CASE InSnapshot(n)
    <2>1. CopyOf(n, m) /\ ShowsCollector(Pcr10(n))
      BY <1>0, <1>4 DEF Fitting, CopiedAs
    <2>2. Status(n, m, reply) \in Alarms => CopyAlarm(n, m, Status(n, m, reply))
      BY <1>0, <2>1, CopyGivesItsAlarms
    <2>3. ShowsCollector(Pcr10(n)')
      BY <1>0, <2>1, ReadKept
    <2>4. CopiedAs(n, collector[n])'
      BY <1>3, <2>3 DEF CopiedAs
    <2>5. GoodAnswer(n)'
      BY <1>0, <1>2, <1>4, <2>2
         DEF GoodAnswer, CopyAlarm, ExporterQuotes, InSnapshot, chosen
    <2>. QED  BY <1>0, <1>4, <2>4, <2>5 DEF Fitting, InSnapshot, chosen
  <1>5. CASE ~InSnapshot(n)
    <2>1. /\ FitsOf(n, m) /\ (m.quote = NoQuote \/ QuotedOf(n, m))
          /\ ShowsCollector(Pcr10(n))
      BY <1>0, <1>5 DEF Fitting, AssembledAs
    <2>3. Status(n, m, reply) \notin Alarms
      BY <1>0, <2>1, FitsGivesNoAlarm
    <2>4. ShowsCollector(Pcr10(n)')
      BY <1>0, <2>1, ReadKept
    <2>5. AssembledAs(n, collector[n])'
      BY <1>3, <2>4 DEF AssembledAs
    <2>. QED  BY <1>0, <1>2, <1>5, <2>3, <2>5 DEF Fitting, GoodAnswer, InSnapshot, chosen
  <1>. QED  BY <1>4, <1>5

\* Every step keeps an undamaged node without alarms.
LEMMA CleanStep == TypesAndStages /\ CleanInv /\ [Next]_vars => CleanInv'
  <1>. SUFFICES ASSUME TypesAndStages, CleanInv, [Next]_vars, Undamaged', NEW n \in Nodes
                PROVE  CleanAt(n)'
    BY DEF CleanInv
  <1>0. /\ UNCHANGED chosen /\ Undamaged /\ TypeInv /\ TypesAndStages'
        /\ CleanNode(n) /\ Fitting(n, collector[n]) /\ GoodAnswer(n)
        /\ collector \in [Nodes -> Collectors] /\ slot \in [Nodes -> Nat]
    BY StepGrows, TypeStep DEF TypesAndStages, TypeInv, Undamaged, CleanInv, CleanAt, chosen
  <1>1. CleanNode(n)'
    BY <1>0, CleanNodeKept
  <1>g. ASSUME answer'[n] = answer[n] PROVE GoodAnswer(n)'
    BY <1>0, <1>g DEF GoodAnswer, CopyAlarm, ExporterQuotes, InSnapshot, chosen
  <1>i. ASSUME collector'[n] = Idle PROVE Fitting(n, collector[n])'
    BY <1>i, IdleFits DEF Fitting, CopiedAs, AssembledAs, Idle, Collector
  <1>k. ASSUME collector'[n] = collector[n], boot'[n] = boot[n], slot'[n] = slot[n],
               answer'[n] = answer[n]
        PROVE  Fitting(n, collector[n])' /\ GoodAnswer(n)'
    BY <1>0, <1>g, <1>k, FittingRests
  <1>2. ASSUME NEW x \in Nodes, Measure(x) \/ Extend(x) \/ CopyLog(x)
        PROVE  Fitting(n, collector[n])' /\ GoodAnswer(n)'
    BY <1>k, <1>2 DEF Measure, Extend, CopyLog, enclave
  <1>3. ASSUME NEW x \in Nodes, Reboot(x)
        PROVE  Fitting(n, collector[n])' /\ GoodAnswer(n)'
    <2>1. \/ collector'[n] = Idle
          \/ collector'[n] = collector[n] /\ boot'[n] = boot[n] /\ slot'[n] = slot[n]
      BY <1>3 DEF Reboot
    <2>2. answer'[n] = answer[n]
      BY <1>3 DEF Reboot
    <2>. QED  BY <1>g, <1>i, <1>k, <2>1, <2>2
  <1>4. ASSUME NEW x \in Nodes, Start(x)
        PROVE  Fitting(n, collector[n])' /\ GoodAnswer(n)'
    <2>1. answer' = answer /\ boot' = boot
      BY <1>4 DEF Start
    <2>2. CASE x = n
      BY <1>0, <1>4, <1>g, <2>1, <2>2, StartFits
    <2>3. CASE x # n
      <3>1. collector'[n] = collector[n] /\ slot'[n] = slot[n]
        BY <1>0, <1>4, <2>3 DEF Start
      <3>. QED  BY <1>k, <2>1, <3>1
    <2>. QED  BY <2>2, <2>3
  <1>5. ASSUME NEW x \in Nodes, GetNonce(x)
        PROVE  Fitting(n, collector[n])' /\ GoodAnswer(n)'
    <2>1. answer' = answer /\ boot' = boot
      BY <1>5 DEF GetNonce, machine
    <2>2. CASE x = n
      BY <1>0, <1>5, <1>g, <2>1, <2>2, NonceFits
    <2>3. CASE x # n
      <3>1. collector'[n] = collector[n] /\ slot'[n] = slot[n]
        BY <1>0, <1>5, <2>3 DEF GetNonce
      <3>. QED  BY <1>k, <2>1, <3>1
    <2>. QED  BY <2>2, <2>3
  <1>6. ASSUME NEW x \in Nodes, Works(x)
        PROVE  Fitting(n, collector[n])' /\ GoodAnswer(n)'
    <2>1. /\ answer' = answer /\ boot' = boot /\ slot' = slot
          /\ \A y \in Nodes \ {x} : collector'[y] = collector[y]
      BY <1>6, WorksKeeps, WorksTyped DEF MovesTyped, enclave, machine
    <2>2. CASE x = n
      <3>1. collector' \in [Nodes -> Collectors]
        BY <1>0 DEF TypesAndStages, TypeInv
      <3>2. CASE MovedReading(n) \/ MovedQuoting(n)
        <4>1. Fitting(n, collector'[n])
          BY <1>0, <3>1, <3>2, MovesAssembled, MovesCopied DEF Fitting
        <4>. QED  BY <1>g, <2>1, <4>1, FittingRests
      <3>. QED  BY <1>0, <1>6, <1>g, <1>i, <2>1, <2>2, <3>2, WorksMoves
    <2>3. CASE x # n
      BY <1>k, <2>1, <2>3
    <2>. QED  BY <2>2, <2>3
  <1>7. ASSUME NEW x \in Nodes, Verify(x)
        PROVE  Fitting(n, collector[n])' /\ GoodAnswer(n)'
    <2>2. CASE x = n
      BY <1>0, <1>7, <2>2, VerifyFits
    <2>3. CASE x # n
      <3>1. collector'[n] = collector[n] /\ boot' = boot /\ slot'[n] = slot[n]
            /\ answer'[n] = answer[n]
        BY <1>0, <1>7, <2>3 DEF Verify, Answers, machine, TypeInv
      <3>. QED  BY <1>k, <3>1
    <2>. QED  BY <2>2, <2>3
  <1>8. ASSUME NEW x \in Nodes, Resend(x) PROVE FALSE
    BY <1>0, <1>8 DEF Resend, Undamaged
  <1>9. ASSUME Publish PROVE Fitting(n, collector[n])' /\ GoodAnswer(n)'
    <2>1. answer' = answer /\ boot' = boot /\ slot' = slot
      BY <1>9 DEF Publish, machine, enclave
    <2>2. CASE n = "host"
      <3>1. collector[n].pc = "publish" /\ collector'[n].pc = "up"
        BY <1>0, <1>9, <2>2 DEF Publish, At, Collectors
      <3>2. Fitting(n, collector'[n])
        BY <1>0, <3>1 DEF Fitting, CopiedAs, AssembledAs
      <3>. QED  BY <1>g, <2>1, <3>2, FittingRests
    <2>3. CASE n # "host"
      <3>1. collector'[n] = collector[n]
        BY <1>0, <1>9, <2>3 DEF Publish
      <3>. QED  BY <1>k, <2>1, <3>1
    <2>. QED  BY <2>2, <2>3
  <1>10. ASSUME UNCHANGED vars PROVE Fitting(n, collector[n])' /\ GoodAnswer(n)'
    BY <1>k, <1>10 DEF vars, machine, enclave
  <1>11. Fitting(n, collector[n])' /\ GoodAnswer(n)'
    BY <1>2, <1>3, <1>4, <1>5, <1>6, <1>7, <1>8, <1>9, <1>10 DEF Next, Works, Rest
  <1>. QED  BY <1>1, <1>11 DEF CleanAt

\* NoFalseAlarm: a node that runs registered software only is never refused
\* with a status that stands for tampering, however its kernel's measurements
\* interleave with what the collector reads; on a copy of the log only because
\* the copy is older than the collector or than the quote.
THEOREM AlarmsAreTrue == Spec => []NoFalseAlarm
  <1>1. Init => TypesAndStages /\ CleanInv
    BY TypeInit, CleanInit
  <1>2. TypesAndStages /\ CleanInv /\ [Next]_vars => TypesAndStages' /\ CleanInv'
    BY TypeStep, CleanStep
  <1>3. CleanInv => NoFalseAlarm
    BY DEF CleanInv, CleanAt, GoodAnswer, CopyAlarm, ExporterQuotes, NoFalseAlarm, Undamaged
  <1>. QED  BY <1>1, <1>2, <1>3, PTL DEF Spec

=============================================================================
