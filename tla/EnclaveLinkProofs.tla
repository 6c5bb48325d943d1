-------------------------- MODULE EnclaveLinkProofs --------------------------
(***************************************************************************)
(* Proofs about EnclaveLink, for any processes, failures and restarts.     *)
(***************************************************************************)
EXTENDS EnclaveLink, TLAPS

LEMMA ReplaceEnclave ==
    ASSUME enclaves \in Seq(EnclaveType),
           NEW i \in 1..Latest,
           NEW e \in EnclaveType,
           enclaves' = [enclaves EXCEPT ![i] = e]
    PROVE  /\ enclaves' \in Seq(EnclaveType)
           /\ Latest' = Latest
           /\ enclaves'[i] = e
           /\ \A j \in 1..Latest : j # i => enclaves'[j] = enclaves[j]
BY DEF Latest

LEMMA AddEnclave ==
    ASSUME enclaves \in Seq(EnclaveType),
           enclaves' = Append(enclaves, Enclave)
    PROVE  /\ enclaves' \in Seq(EnclaveType)
           /\ Latest' = Latest + 1
           /\ enclaves'[Latest + 1] = Enclave
           /\ \A j \in 1..Latest : enclaves'[j] = enclaves[j]
<1>1. Enclave \in EnclaveType
    BY DEF Enclave, EnclaveType, NoRequest, Request, Requests, Sizes, NoWeights
<1>2. QED
    BY <1>1 DEF Latest

LEMMA EnclaveFields ==
    ASSUME enclaves \in Seq(EnclaveType), NEW i \in 1..Latest
    PROVE  /\ enclaves[i] \in EnclaveType
           /\ enclaves[i].ask \in Requests
           /\ NoRequest \in Requests
<1>1. enclaves[i] \in EnclaveType
    BY DEF Latest
<1>2. NoRequest \in Requests
    BY DEF NoRequest, Request, Requests, Sizes, NoWeights
<1>3. QED
    BY <1>1, <1>2 DEF EnclaveType

LEMMA TypeInit == Init => TypeOK
<1> SUFFICES ASSUME Init PROVE TypeOK
    OBVIOUS
<1>1. Enclave \in EnclaveType /\ NoRequest \in Requests
    BY DEF Enclave, EnclaveType, NoRequest, Request, Requests, Sizes, NoWeights
<1>2. enclaves \in Seq(EnclaveType) /\ conn \in 0..Latest
    BY <1>1 DEF Init, Latest
<1>3. QED
    BY <1>1, <1>2, LinkAssumption DEF Init, TypeOK, Places, Replies, None

LEMMA LatestIsNat == TypeOK => Latest \in Nat
BY DEF TypeOK, Latest

\* Types of what the exporter itself changes, after its outcome of a request.
LEMMA OutcomeTypes ==
    ASSUME TypeOK, NEW s \in Replies, Failed \/ Answered(s)
    PROVE  /\ pc' \in {"down", "ready", "closing"}
           /\ todo' \in {"nothing", "get_nonce", "export"} \cup Checks
           /\ conn' \in 0..Latest
<1>1. Latest \in Nat
    BY LatestIsNat
<1>2. conn' \in {0, conn}
    BY DEF Failed, Answered, Go, End
<1>3. /\ pc' \in {"down", "ready", "closing"}
      /\ todo' \in {"nothing", "get_nonce", "export"} \cup Checks
    BY DEF TypeOK, Failed, Answered, Go, End, Checks
<1>4. QED
    BY <1>1, <1>2, <1>3 DEF TypeOK

\* Where the exporter has an enclave to speak of, and a connection.
PlaceInv ==
    /\ setup.remote \/ pc \in {"connecting", "waiting for child"} => Latest # 0
    /\ pc \in {"sending", "waiting", "closing"} => conn # 0

LEMMA ConnectedType ==
    ASSUME TypeOK, NEW i \in 1..Latest, Connected(i)
    PROVE  /\ enclaves' \in Seq(EnclaveType)
           /\ Latest' = Latest
           /\ conn' = i
           /\ pc' = "sending"
<1>1. [enclaves[i] EXCEPT !.state = "serving", !.peer = run] \in EnclaveType
    <2>1. enclaves[i] \in EnclaveType /\ run \in Nat
        BY EnclaveFields, LinkAssumption DEF TypeOK
    <2>2. QED
        BY <2>1 DEF EnclaveType
<1>2. QED
    BY <1>1, ReplaceEnclave DEF Connected, Taken, TypeOK, Latest

LEMMA AsksTypes ==
    ASSUME TypeOK, NEW m \in Requests, Asks(m)
    PROVE  msg' \in Requests /\ pc' \in {"opening", "sending"}
BY DEF Asks

\* Every step keeps the types.
LEMMA TypeStep == TypeOK /\ PlaceInv /\ [Next]_vars => TypeOK'
<1> SUFFICES ASSUME TypeOK, PlaceInv, [Next]_vars
             PROVE  TypeOK'
    OBVIOUS
<1> USE LinkAssumption
<1>1. CASE Start
    <2>1. todo' \in {"get_nonce", "export"} \cup Checks
        BY <1>1 DEF Start, FirstSteps, Checks
    <2>2. NoRequest \in Requests
        BY DEF NoRequest, Request, Requests, Sizes, NoWeights
    <2>3. QED
        BY <1>1, <2>1, <2>2 DEF Start, TypeOK, machine, Places, Replies, Latest
<1>2. CASE AskNonce \/ AskVerify \/ Cycle
    <2>1. \E m \in Requests : Asks(m)
        BY <1>2 DEF AskNonce, AskVerify, Cycle, Checks, Request, Requests, Sizes,
                    NoWeights, GuestOperations, HostOperations
    <2>2. QED
        BY <1>2, <2>1, AsksTypes
           DEF AskNonce, AskVerify, Cycle, TypeOK, machine, Places, Latest
<1>3. CASE VerifyCached
    <2>1. verdict \in Replies
        BY DEF TypeOK
    <2>2. /\ pc' \in {"down", "ready", "closing"}
          /\ todo' \in {"nothing", "get_nonce", "export"} \cup Checks
          /\ conn' \in 0..Latest
        BY <1>3, <2>1, OutcomeTypes DEF VerifyCached
    <2>3. QED
        BY <1>3, <2>2 DEF VerifyCached, TypeOK, machine, Places, Latest
<1>4. CASE Poll
    <2>1. [p \in Pids |-> Delta(p)] \in [Pids -> Nat]
        BY DEF Delta, TypeOK, None
    <2>2. Request("vm_export", 1, [p \in Pids |-> Delta(p)]) \in Requests
        BY <2>1 DEF Request, Requests, Sizes, GuestOperations
    <2>3. msg' \in Requests /\ pc' \in {pc, "opening", "sending"}
        BY <1>4, <2>2, AsksTypes DEF Poll, TypeOK
    <2>4. QED
        BY <1>4, <2>3 DEF Poll, TypeOK, machine, Places, Latest
<1>5. CASE Closed \/ Kill \/ ConnectFails
    <2>1. CASE Closed
        BY <2>1 DEF Closed, TypeOK, machine, Places, Latest
    <2>2. CASE Kill
        <3>1. 0 \in 0..Latest
            BY DEF TypeOK, Latest
        <3>2. /\ pc' = "down"
              /\ conn' = 0
              /\ UNCHANGED <<setup, run, todo, msg, reply, verdict, prev,
                             enclaves, machine, weighed>>
            BY <2>2 DEF Kill
        <3>3. QED
            <4>1. conn' \in 0..Latest'
                BY <3>1, <3>2 DEF Latest
            <4>2. QED
                BY <3>2, <4>1 DEF TypeOK, machine, Places
    <2>3. CASE ConnectFails
        BY <2>3 DEF ConnectFails, TypeOK, machine, Places, Latest
    <2>4. QED
        BY <1>5, <2>1, <2>2, <2>3
<1>6. CASE Launch \/ StartRemote
    <2>1. /\ enclaves' \in Seq(EnclaveType)
          /\ Latest' = Latest + 1
        BY <1>6, AddEnclave DEF Launch, StartRemote, TypeOK
    <2>2. conn \in 0..Latest' /\ Latest \in Nat
        BY <2>1 DEF TypeOK, Latest
    <2>3. CASE Launch
        BY <2>1, <2>2, <2>3 DEF Launch, TypeOK, machine, Places
    <2>4. CASE StartRemote
        BY <2>1, <2>2, <2>4 DEF StartRemote, TypeOK, exporter, machine
    <2>5. QED
        BY <1>6, <2>3, <2>4
<1>7. CASE LaunchFails \/ ChildEnded \/ Broken
    <2>1. "none" \in Replies
        BY DEF Replies
    <2>2. /\ pc' \in {"down", "ready", "closing"}
          /\ todo' \in {"nothing", "get_nonce", "export"} \cup Checks
          /\ conn' \in 0..Latest
        BY <1>7, <2>1, OutcomeTypes DEF LaunchFails, ChildEnded, Broken
    <2>3. QED
        <3>1. UNCHANGED <<setup, run, msg, reply, verdict, prev, enclaves,
                          machine, weighed>>
            BY <1>7 DEF LaunchFails, ChildEnded, Broken
        <3>2. QED
            BY <2>2, <3>1 DEF TypeOK, machine, Places, Latest
<1>9. CASE Connect \/ ConnectRemote
    <2>1. CASE \E i \in 1..Latest : Connected(i)
        <3>1. PICK i \in 1..Latest : Connected(i)
            BY <2>1
        <3>2. /\ enclaves' \in Seq(EnclaveType)
              /\ conn' \in 0..Latest'
              /\ pc' = "sending"
              /\ todo' = todo
            BY <3>1, ConnectedType DEF Connected
        <3>3. UNCHANGED <<setup, run, msg, reply, verdict, prev, machine, weighed>>
            BY <1>9 DEF Connect, ConnectRemote
        <3>4. QED
            BY <3>2, <3>3 DEF TypeOK, machine, Places
    <2>2. CASE ConnectRemote /\ Failed /\ UNCHANGED enclaves
        <3>1. "none" \in Replies
            BY DEF Replies
        <3>2. /\ pc' \in {"down", "ready", "closing"}
              /\ todo' \in {"nothing", "get_nonce", "export"} \cup Checks
              /\ conn' \in 0..Latest
            BY <2>2, <3>1, OutcomeTypes
        <3>3. QED
            BY <2>2, <3>2 DEF ConnectRemote, TypeOK, machine, Places, Latest
    <2>3. Latest \in 1..Latest
        <3>1. Latest \in Nat
            BY DEF TypeOK, Latest
        <3>2. Latest # 0
            BY <1>9 DEF PlaceInv, Connect, ConnectRemote
        <3>3. QED
            BY <3>1, <3>2
    <2>4. QED
        BY <1>9, <2>1, <2>2, <2>3 DEF Connect, ConnectRemote
<1>10. CASE Send
    <2>1. CASE UNCHANGED enclaves
        BY <1>10, <2>1 DEF Send, TypeOK, machine, Places, Latest
    <2>2. CASE conn # 0 /\ enclaves' = [enclaves EXCEPT ![conn].ask = msg]
        <3>1. conn \in 1..Latest
            BY <2>2 DEF TypeOK, Latest
        <3>2. [enclaves[conn] EXCEPT !.ask = msg] \in EnclaveType
            BY <3>1, EnclaveFields DEF TypeOK, EnclaveType
        <3>3. /\ enclaves' \in Seq(EnclaveType)
              /\ Latest' = Latest
            BY <2>2, <3>1, <3>2, ReplaceEnclave DEF TypeOK
        <3>4. QED
            BY <1>10, <3>3 DEF Send, TypeOK, machine, Places
    <2>3. QED
        BY <1>10, <2>1, <2>2 DEF Send, PlaceInv
<1>11. CASE Receive
    <2>1. reply \in Replies /\ "none" \in Replies /\ verdict \in Replies
        BY DEF TypeOK, Replies
    <2>2. /\ pc' \in {"down", "ready", "closing"}
          /\ todo' \in {"nothing", "get_nonce", "export"} \cup Checks
          /\ conn' \in 0..Latest
        BY <1>11, <2>1, OutcomeTypes DEF Receive
    <2>3. reply' \in Replies /\ verdict' \in Replies
        BY <1>11, <2>1 DEF Receive
    <2>4. UNCHANGED <<setup, run, msg, prev, enclaves, machine, weighed>>
        BY <1>11 DEF Receive
    <2>5. QED
        BY <2>2, <2>3, <2>4 DEF TypeOK, machine, Places, Latest
<1>12. ASSUME NEW i \in 1..Latest, Handle(i) PROVE TypeOK'
    <2> DEFINE m == enclaves[i].ask
    <2>1. PICK status \in IF Known(m.op) THEN Statuses(m.op) ELSE {"unknown"} :
             /\ reply' = IF Joined(i) THEN status ELSE reply
             /\ enclaves' = [enclaves EXCEPT ![i] = Done(@, status)]
             /\ weighed' = [p \in Pids |-> IF status = "ok"
                                           THEN weighed[p] + m.weights[p]
                                           ELSE weighed[p]]
        BY <1>12 DEF Handle
    <2>2. status \in Replies
        BY <2>1 DEF Known, Statuses, Replies, Checks, Exports, GuestOperations,
                    HostOperations
    <2>3. m \in Requests /\ NoRequest \in Requests /\ enclaves[i] \in EnclaveType
        BY EnclaveFields DEF TypeOK
    <2>4. weighed' \in [Pids -> Nat]
        BY <2>1, <2>3 DEF TypeOK, Requests
    <2>5. Done(enclaves[i], status) \in EnclaveType
        BY <2>3 DEF EnclaveType, Done
    <2>6. /\ enclaves' \in Seq(EnclaveType)
          /\ Latest' = Latest
        <3>1. enclaves \in Seq(EnclaveType)
            BY DEF TypeOK
        <3>2. enclaves' = [enclaves EXCEPT ![i] = Done(enclaves[i], status)]
            BY <2>1
        <3>3. QED
            BY <2>5, <3>1, <3>2, ReplaceEnclave
    <2>7. reply' \in Replies
        BY <2>1, <2>2 DEF TypeOK
    <2>8. UNCHANGED <<setup, pc, run, todo, msg, conn, verdict, prev, machine>>
        BY <1>12 DEF Handle
    <2>9. QED
        BY <2>4, <2>6, <2>7, <2>8 DEF TypeOK, machine
<1>13. ASSUME NEW i \in 1..Latest, Ends(i) \/ Crash(i) PROVE TypeOK'
    <2>1. Gone(enclaves[i]) \in EnclaveType
        BY EnclaveFields DEF TypeOK, EnclaveType, Gone
    <2>2. enclaves' \in Seq(EnclaveType) /\ Latest' = Latest
        BY <1>13, <2>1, ReplaceEnclave DEF Ends, Crash, TypeOK
    <2>3. QED
        BY <1>13, <2>2 DEF Ends, Crash, TypeOK, exporter, machine, Replies
<1>14. ASSUME NEW i \in 1..Latest, Hangs(i) PROVE TypeOK'
    <2>1. [enclaves[i] EXCEPT !.state = "hung"] \in EnclaveType
        BY EnclaveFields DEF TypeOK, EnclaveType
    <2>2. enclaves' \in Seq(EnclaveType) /\ Latest' = Latest
        BY <1>14, <2>1, ReplaceEnclave DEF Hangs, TypeOK
    <2>3. QED
        BY <1>14, <2>2 DEF Hangs, TypeOK, exporter, machine
<1>15. ASSUME NEW p \in Pids, Burn(p) \/ Exit(p) PROVE TypeOK'
    <2>1. ticks' \in [Pids -> Nat \cup {None}] /\ used' \in [Pids -> Nat]
        <3>1. CASE Burn(p)
            BY <3>1 DEF Burn, TypeOK, None
        <3>2. CASE Exit(p)
            BY <3>2 DEF Exit, TypeOK, None
        <3>3. QED
            BY <1>15, <3>1, <3>2
    <2>2. UNCHANGED <<setup, exporter, enclaves, weighed>>
        BY <1>15 DEF Burn, Exit
    <2>3. QED
        BY <2>1, <2>2 DEF TypeOK, exporter, Latest
<1>16. CASE UNCHANGED vars
    BY <1>16 DEF vars, exporter, machine, TypeOK, Latest
<1>17. QED
    BY <1>1, <1>2, <1>3, <1>4, <1>5, <1>6, <1>7, <1>9, <1>10, <1>11, <1>12,
       <1>13, <1>14, <1>15, <1>16
       DEF Next, ExporterStep, EnclaveStep

LEMMA PlaceInit == Init => PlaceInv
BY DEF Init, PlaceInv, Setups, Latest

LEMMA PlaceStep == TypeOK /\ PlaceInv /\ [Next]_vars => PlaceInv'
<1> SUFFICES ASSUME TypeOK, PlaceInv, [Next]_vars
             PROVE  PlaceInv'
    OBVIOUS
<1>1. Latest \in Nat
    BY LatestIsNat
<1>2. CASE Start
    BY <1>2 DEF Start, Latest, PlaceInv
<1>3. CASE AskNonce \/ AskVerify \/ Cycle \/ Poll
    BY <1>3 DEF AskNonce, AskVerify, Cycle, Poll, Asks, Latest, PlaceInv
<1>4. CASE LaunchFails \/ ChildEnded \/ Broken
    BY <1>4 DEF LaunchFails, ChildEnded, Broken, Failed, Go, End, Latest, PlaceInv
<1>5. CASE VerifyCached \/ Receive
    BY <1>5 DEF VerifyCached, Receive, Answered, Go, End, Latest, PlaceInv
<1>6. CASE Closed \/ Kill \/ ConnectFails
    BY <1>6 DEF Closed, Kill, ConnectFails, Latest, PlaceInv
<1>7. CASE Launch \/ StartRemote
    <2>1. Latest' = Latest + 1
        BY <1>7, AddEnclave DEF Launch, StartRemote, TypeOK
    <2>2. QED
        <3>1. Latest' # 0
            BY <1>1, <2>1
        <3>2. pc' = "connecting" \/ UNCHANGED <<pc, conn>>
            BY <1>7 DEF Launch, StartRemote, exporter
        <3>3. QED
            BY <3>1, <3>2 DEF PlaceInv
<1>8. CASE Connect \/ ConnectRemote
    <2>1. Latest # 0
        BY <1>8 DEF Connect, ConnectRemote, PlaceInv
    <2>2. CASE Connected(Latest)
        <3>1. Latest' = Latest
            <4>1. Latest \in 1..Latest
                BY <1>1, <2>1
            <4>2. QED
                BY <2>2, <4>1, ConnectedType
        <3>2. QED
            BY <1>8, <2>1, <2>2, <3>1 DEF Connect, ConnectRemote, Connected, PlaceInv
    <2>3. CASE ConnectRemote /\ Failed /\ UNCHANGED enclaves
        BY <2>3 DEF ConnectRemote, Failed, Go, End, Latest, PlaceInv
    <2>4. QED
        BY <1>8, <2>2, <2>3 DEF Connect, ConnectRemote
<1>9. CASE Send
    BY <1>9 DEF Send, Latest, TypeOK, PlaceInv
<1>10. ASSUME NEW i \in 1..Latest, Handle(i) \/ Ends(i) \/ Hangs(i) \/ Crash(i)
       PROVE  PlaceInv'
    <2>1. \A e : enclaves' = [enclaves EXCEPT ![i] = e] => Latest' = Latest
        BY DEF TypeOK, Latest
    <2>2. Latest' = Latest
        BY <1>10, <2>1 DEF Handle, Ends, Hangs, Crash
    <2>3. UNCHANGED <<setup, pc, conn>>
        BY <1>10 DEF Handle, Ends, Hangs, Crash, exporter
    <2>4. QED
        BY <2>2, <2>3 DEF PlaceInv
<1>11. ASSUME NEW p \in Pids, Burn(p) \/ Exit(p) PROVE PlaceInv'
    BY <1>11 DEF Burn, Exit, exporter, Latest, PlaceInv
<1>12. CASE UNCHANGED vars
    BY <1>12 DEF vars, exporter, Latest, PlaceInv
<1>13. QED
    BY <1>2, <1>3, <1>4, <1>5, <1>6, <1>7, <1>8, <1>9, <1>10, <1>11, <1>12
       DEF Next, ExporterStep, EnclaveStep

\* Types of the connection, and with them that what a request weighs is never
\* negative: Delta saturates, also when a pid is given to a younger process.
THEOREM TypeCorrect == Spec => []TypeOK
<1>1. TypeOK /\ PlaceInv /\ [Next]_vars => (TypeOK /\ PlaceInv)'
    BY TypeStep, PlaceStep
<1>2. QED
    BY <1>1, TypeInit, PlaceInit, PTL DEF Spec

-----------------------------------------------------------------------------
(* Energy is recorded by the enclave that admitted the boot *)

InFlight == {"opening", "connecting", "waiting for child", "sending", "waiting"}

\* A run of the exporter has one connection at most, on which one request or
\* one answer is on its way.
WireInv ==
    /\ \A i \in 1..Latest :
          /\ enclaves[i].peer <= run
          /\ pc # "down" /\ enclaves[i].peer = run => conn = i
          /\ enclaves[i].state = "listening" => enclaves[i].peer = 0
          /\ enclaves[i].state \in {"listening", "gone"} =>
                enclaves[i].ask = NoRequest
          /\ Joined(i) /\ enclaves[i].ask # NoRequest =>
                pc = "waiting" /\ enclaves[i].ask = msg /\ reply = "none"
    /\ pc # "down" => run > 0
    /\ pc \in {"opening", "connecting", "waiting for child"} => conn = 0
    /\ pc \notin {"down", "waiting"} => reply = "none"
    /\ pc \in InFlight =>
          /\ todo \in Checks => msg.op = todo
          /\ msg.op \in Exports => todo = "export"

\* What the exporter takes for an admission of its boot is one of the enclave
\* at the other end of its connection.
BootInv ==
    setup.attests =>
        /\ pc # "down" /\ (todo = "export" \/ verdict = "ok") =>
              conn # 0 /\ enclaves[conn].admitted
        /\ pc = "waiting" /\ todo \in Checks /\ reply = "ok" =>
              enclaves[conn].admitted
        /\ \A i \in 1..Latest :
              enclaves[i].ask.op \in Exports \/ enclaves[i].recorded =>
                  enclaves[i].admitted

\* What a failed request, and an answered one, come to.
LEMMA FailedOutcome ==
    ASSUME Failed
    PROVE  \/ /\ pc' = "ready" /\ conn' = conn
              /\ \/ todo = "export" /\ todo' = "export"
                 \/ todo = "get_nonce" /\ todo' = "verify"
           \/ /\ todo' = todo /\ todo # "export"
              /\ \/ pc' = "closing" /\ conn' = conn
                 \/ pc' = "down" /\ conn' = 0
BY DEF Failed, Go, End

LEMMA AnsweredOutcome ==
    ASSUME NEW s, Answered(s)
    PROVE  \/ /\ pc' = "ready" /\ conn' = conn
              /\ \/ todo' = "verify"
                 \/ todo' = "export" /\ todo = "export"
                 \/ todo' = "export" /\ todo = "verify" /\ s = "ok"
           \/ /\ todo' = todo /\ todo # "export"
              /\ \/ pc' = "closing" /\ conn' = conn
                 \/ pc' = "down" /\ conn' = 0
BY DEF Answered, Go, End

LEMMA WireInit == Init => WireInv /\ BootInv
<1> SUFFICES ASSUME Init PROVE WireInv /\ BootInv
    OBVIOUS
<1>1. \A i \in 1..Latest : enclaves[i] = Enclave
    BY DEF Init, Latest
<1>2. pc = "down" /\ run = 0 /\ conn = 0
    BY DEF Init
<1>3. WireInv
    BY <1>1, <1>2 DEF WireInv, Joined, Enclave, InFlight
<1>4. BootInv
    BY <1>1, <1>2 DEF BootInv, Enclave, NoRequest, Request, Exports
<1>5. QED
    BY <1>3, <1>4

\* Steps of the exporter that leave the enclaves alone.
LEMMA WireExporter ==
    ASSUME TypeOK, PlaceInv, WireInv, BootInv, UNCHANGED <<setup, enclaves>>,
           \/ Start \/ AskNonce \/ AskVerify \/ VerifyCached \/ Poll \/ Cycle
           \/ Closed \/ Kill \/ LaunchFails \/ ConnectFails \/ ChildEnded
           \/ (ConnectRemote /\ Failed) \/ Receive \/ Broken
    PROVE  WireInv' /\ BootInv'
<1>1. Latest' = Latest /\ Latest \in Nat /\ conn \in 0..Latest /\ run \in Nat
    BY LatestIsNat, LinkAssumption DEF TypeOK, Latest
<1>2. CASE Start
    <2>1. /\ pc = "down" /\ pc' = "ready" /\ run' = run + 1
          /\ conn' = conn /\ reply' = "none" /\ verdict' = "none"
          /\ setup.attests => todo' # "export"
        BY <1>2 DEF Start, FirstSteps
    <2>2. WireInv'
        <3>1. \A i \in 1..Latest : enclaves[i].peer \in Nat
            BY EnclaveFields DEF TypeOK, EnclaveType
        <3>2. \A i \in 1..Latest : enclaves[i].peer < run'
            BY <1>1, <2>1, <3>1 DEF WireInv
        <3>3. \A i \in 1..Latest :
                enclaves[i].peer <= run' /\ enclaves[i].peer # run'
            BY <1>1, <2>1, <3>1, <3>2
        <3>4. QED
            BY <1>1, <2>1, <3>3 DEF WireInv, Joined, InFlight
    <2>3. BootInv'
        BY <1>1, <2>1 DEF BootInv
    <2>4. QED
        BY <2>2, <2>3
<1>3. CASE AskNonce \/ AskVerify \/ Cycle \/ Poll
    <2>1. /\ pc = "ready" /\ pc' \in {"ready", "opening", "sending"}
          /\ pc' = "opening" => conn = 0
          /\ UNCHANGED <<run, todo, conn, reply, verdict>>
          /\ pc' # "ready" /\ todo \in Checks => msg'.op = todo
          /\ pc' # "ready" /\ msg'.op \in Exports => todo = "export"
        BY <1>3 DEF AskNonce, AskVerify, Cycle, Poll, Asks, Request, Checks, Exports
    <2>2. WireInv'
        BY <1>1, <2>1 DEF WireInv, Joined, InFlight
    <2>3. BootInv'
        BY <1>1, <2>1 DEF BootInv
    <2>4. QED
        BY <2>2, <2>3
<1>4. CASE VerifyCached
    <2>1. /\ pc = "ready" /\ UNCHANGED <<run, msg, reply, verdict>>
          /\ \/ /\ pc' = "ready" /\ conn' = conn
                /\ todo' = "verify" \/ (todo' = "export" /\ verdict = "ok")
             \/ /\ todo' = todo /\ todo # "export"
                /\ \/ pc' = "closing" /\ conn' = conn
                   \/ pc' = "down" /\ conn' = 0
        BY <1>4, AnsweredOutcome DEF VerifyCached, Checks
    <2>2. WireInv'
        BY <1>1, <2>1 DEF WireInv, Joined, InFlight
    <2>3. BootInv'
        BY <1>1, <2>1 DEF BootInv
    <2>4. QED
        BY <2>2, <2>3
<1>5. CASE Closed \/ Kill \/ ConnectFails
    <2>1. /\ UNCHANGED <<run, todo, msg, reply, verdict>>
          /\ \/ pc' = "down" /\ conn' = 0
             \/ pc = "connecting" /\ pc' = "waiting for child" /\ conn' = conn
        BY <1>5 DEF Closed, Kill, ConnectFails
    <2>2. WireInv'
        <3>1. CASE pc' = "down" /\ conn' = 0
            <4>1. \A i \in 1..Latest : ~Joined(i)'
                BY <1>1, <3>1 DEF Joined
            <4>2. QED
                BY <1>1, <2>1, <3>1, <4>1 DEF WireInv, InFlight
        <3>2. CASE pc = "connecting" /\ pc' = "waiting for child" /\ conn' = conn
            <4>1. conn = 0 /\ reply = "none" /\ run > 0
                BY <3>2 DEF WireInv
            <4>2. QED
                BY <1>1, <2>1, <3>2, <4>1 DEF WireInv, Joined, InFlight
        <3>3. QED
            BY <2>1, <3>1, <3>2
    <2>3. BootInv'
        BY <1>1, <2>1 DEF BootInv
    <2>4. QED
        BY <2>2, <2>3
<1>6. CASE LaunchFails \/ ChildEnded \/ (ConnectRemote /\ Failed) \/ Broken
    <2>1. /\ \/ pc \in {"opening", "waiting for child"}
             \/ pc = "waiting" /\ reply = "none" /\ enclaves[conn].state = "gone"
          /\ UNCHANGED <<run, msg, reply, verdict>>
        <3>1. UNCHANGED <<run, msg, reply, verdict>>
            BY <1>6 DEF LaunchFails, ChildEnded, ConnectRemote, Broken
        <3>2. pc \in {"opening", "waiting for child"} \/ Broken
            BY <1>6 DEF LaunchFails, ChildEnded, ConnectRemote
        <3>3. Broken => /\ pc = "waiting" /\ reply = "none"
                        /\ enclaves[conn].state = "gone"
            BY DEF Broken, Alive
        <3>4. QED
            BY <3>1, <3>2, <3>3
    <2>2. Failed
        BY <1>6 DEF LaunchFails, ChildEnded, ConnectRemote, Broken
    <2>3. WireInv'
        BY <1>1, <2>1, <2>2, FailedOutcome DEF WireInv, Joined, InFlight, PlaceInv
    <2>4. BootInv'
        BY <1>1, <2>1, <2>2, FailedOutcome DEF BootInv, Checks
    <2>5. QED
        BY <2>3, <2>4
<1>7. CASE Receive
    <2>1. /\ pc = "waiting" /\ reply # "none" /\ reply' = "none"
          /\ verdict' = verdict \/ (todo \in Checks /\ verdict' = reply)
          /\ UNCHANGED <<run, msg>>
          /\ Answered(reply)
        BY <1>7 DEF Receive
    <2>2. WireInv'
        BY <1>1, <2>1, AnsweredOutcome DEF WireInv, Joined, InFlight
    <2>3. BootInv'
        BY <1>1, <2>1, AnsweredOutcome DEF BootInv, PlaceInv, Checks
    <2>4. QED
        BY <2>2, <2>3
<1>8. QED
    BY <1>2, <1>3, <1>4, <1>5, <1>6, <1>7

\* An enclave is replaced by e, and nothing else changes that WireInv and
\* BootInv speak of, except perhaps the answer.
LEMMA WireEnclave ==
    ASSUME TypeOK, PlaceInv, WireInv, BootInv,
           NEW i \in 1..Latest, NEW e \in EnclaveType,
           enclaves' = [enclaves EXCEPT ![i] = e],
           UNCHANGED <<setup, pc, run, todo, msg, conn, verdict>>,
           e.peer = enclaves[i].peer,
           e.ask \in {enclaves[i].ask, NoRequest},
           e.state \in {"listening", "gone"} => e.ask = NoRequest,
           e.state = "listening" => enclaves[i].state = "listening",
           enclaves[i].admitted => e.admitted,
           e.recorded => \/ enclaves[i].recorded
                         \/ enclaves[i].ask.op \in Exports,
           \/ reply' = reply
           \/ reply' = "none"
           \/ /\ Joined(i) /\ enclaves[i].ask # NoRequest /\ e.ask = NoRequest
              /\ reply' = "ok" /\ enclaves[i].ask.op \in Checks => e.admitted
    PROVE  WireInv' /\ BootInv'
<1>1. Latest' = Latest /\ Latest \in Nat /\ conn \in 0..Latest
    BY LatestIsNat, ReplaceEnclave DEF TypeOK
<1>2. \A j \in 1..Latest : enclaves'[j] = IF j = i THEN e ELSE enclaves[j]
    BY ReplaceEnclave, ZenonT(60) DEF TypeOK
<1>3. Joined(i) /\ enclaves[i].ask # NoRequest =>
          pc = "waiting" /\ conn = i /\ enclaves[i].ask = msg
    BY DEF WireInv, Joined
<1>4. WireInv'
    <2>1. ASSUME NEW j \in 1..Latest
          PROVE  /\ enclaves'[j].peer = enclaves[j].peer
                 /\ enclaves'[j].ask \in {enclaves[j].ask, NoRequest}
                 /\ enclaves'[j].state \in {"listening", "gone"} =>
                       enclaves'[j].ask = NoRequest
                 /\ enclaves'[j].state = "listening" => enclaves'[j].peer = 0
        <3>1. CASE j = i
            BY <1>2, <3>1 DEF WireInv
        <3>2. CASE j # i
            <4>1. enclaves'[j] = enclaves[j]
                BY <1>2, <3>2
            <4>2. /\ enclaves[j].state \in {"listening", "gone"} =>
                        enclaves[j].ask = NoRequest
                  /\ enclaves[j].state = "listening" => enclaves[j].peer = 0
                BY DEF WireInv
            <4>3. QED
                BY <4>1, <4>2
        <3>3. QED
            BY <3>1, <3>2
    <2>2. ASSUME NEW j \in 1..Latest, Joined(j)', enclaves'[j].ask # NoRequest
          PROVE  pc = "waiting" /\ enclaves'[j].ask = msg /\ reply' = "none"
        <3>1. Joined(j) /\ enclaves'[j].ask = enclaves[j].ask
            BY <2>1, <2>2 DEF Joined
        <3>2. j = i => e.ask # NoRequest
            BY <1>2, <2>2
        <3>3. pc = "waiting" /\ enclaves[j].ask = msg /\ reply = "none"
            BY <2>2, <3>1 DEF WireInv
        <3>4. Joined(i) => j = i
            BY <3>1 DEF Joined
        <3>5. QED
            BY <3>1, <3>2, <3>3, <3>4
    <2>3. pc \notin {"down", "waiting"} => reply' = "none"
        BY <1>3 DEF WireInv
    <2>4. QED
        BY <1>1, <2>1, <2>2, <2>3, ZenonT(60) DEF WireInv, InFlight
<1>5. NoRequest.op \notin Exports
    BY DEF NoRequest, Request, Exports
<1>6. ASSUME setup.attests PROVE BootInv'
    <2>1. \A j \in 1..Latest : enclaves[j].admitted => enclaves'[j].admitted
        BY <1>2
    <2>2. ASSUME pc = "waiting", todo \in Checks, reply' = "ok"
          PROVE  enclaves'[conn].admitted
        <3>1. conn \in 1..Latest
            BY <1>1, <2>2 DEF PlaceInv
        <3>2. CASE reply' = reply
            BY <1>6, <2>1, <2>2, <3>1, <3>2 DEF BootInv
        <3>3. CASE Joined(i) /\ enclaves[i].ask # NoRequest
            BY <1>2, <1>3, <2>2, <3>1, <3>2, <3>3 DEF WireInv, InFlight
        <3>4. QED
            BY <2>2, <3>2, <3>3
    <2>3. ASSUME NEW j \in 1..Latest,
                 enclaves'[j].ask.op \in Exports \/ enclaves'[j].recorded
          PROVE  enclaves'[j].admitted
        <3>1. CASE j = i
            BY <1>2, <1>5, <1>6, <2>1, <2>3, <3>1 DEF BootInv
        <3>2. CASE j # i
            BY <1>2, <1>6, <2>1, <2>3, <3>2 DEF BootInv
        <3>3. QED
            BY <3>1, <3>2
    <2>4. pc # "down" /\ (todo = "export" \/ verdict = "ok") =>
              conn # 0 /\ enclaves'[conn].admitted
        BY <1>1, <1>6, <2>1 DEF BootInv
    <2>5. QED
        BY <1>1, <2>2, <2>3, <2>4 DEF BootInv
<1>7. QED
    BY <1>4, <1>6 DEF BootInv

\* A new enclave waits for its first connection.
LEMMA WireLaunch ==
    ASSUME TypeOK, PlaceInv, WireInv, BootInv, Launch \/ StartRemote
    PROVE  WireInv' /\ BootInv'
<1>1. /\ Latest' = Latest + 1 /\ Latest \in Nat /\ conn \in 0..Latest
      /\ enclaves'[Latest + 1] = Enclave
      /\ \A j \in 1..Latest : enclaves'[j] = enclaves[j]
    BY LatestIsNat, AddEnclave DEF TypeOK, Launch, StartRemote
<1>2. /\ UNCHANGED <<setup, run, todo, msg, conn, reply, verdict>>
      /\ pc' = pc \/ (pc = "opening" /\ pc' = "connecting")
    BY DEF Launch, StartRemote, exporter
<1>3. /\ Enclave.peer = 0 /\ Enclave.ask = NoRequest
      /\ Enclave.ask.op \notin Exports /\ ~Enclave.recorded
    BY DEF Enclave, NoRequest, Request, Exports
<1>4. ASSUME NEW j \in 1..Latest'
      PROVE  j \in 1..Latest \/ j = Latest + 1
    BY <1>1
<1>5. run \in Nat
    BY LinkAssumption DEF TypeOK
<1>6. WireInv'
    <2>1. ASSUME NEW j \in 1..Latest, pc' = pc \/ pc' = "connecting"
          PROVE  /\ enclaves'[j].peer <= run
                 /\ pc # "down" /\ enclaves'[j].peer = run => conn = j
                 /\ enclaves'[j].state = "listening" => enclaves'[j].peer = 0
                 /\ enclaves'[j].state \in {"listening", "gone"} =>
                       enclaves'[j].ask = NoRequest
                 /\ Joined(j)' /\ enclaves'[j].ask # NoRequest =>
                       pc = "waiting" /\ enclaves'[j].ask = msg /\ reply = "none"
        BY <1>1, <1>2 DEF WireInv, Joined
    <2>2. /\ 0 <= run
          /\ pc # "down" => run # 0
        <3>1. pc # "down" => run > 0
            BY DEF WireInv
        <3>2. QED
            BY <1>5, <3>1
    <2>3. pc' = "down" <=> pc = "down"
        BY <1>2
    <2>4. pc' = "waiting" <=> pc = "waiting"
        BY <1>2
    <2>5. \A j \in 1..Latest' :
            /\ enclaves'[j].peer <= run'
            /\ pc' # "down" /\ enclaves'[j].peer = run' => conn' = j
            /\ enclaves'[j].state = "listening" => enclaves'[j].peer = 0
            /\ enclaves'[j].state \in {"listening", "gone"} =>
                  enclaves'[j].ask = NoRequest
            /\ Joined(j)' /\ enclaves'[j].ask # NoRequest =>
                  pc' = "waiting" /\ enclaves'[j].ask = msg' /\ reply' = "none"
        BY <1>1, <1>2, <1>3, <1>4, <2>1, <2>2, <2>3, <2>4
    <2>6. /\ pc' # "down" => run' > 0
          /\ pc' \in {"opening", "connecting", "waiting for child"} => conn' = 0
          /\ pc' \notin {"down", "waiting"} => reply' = "none"
          /\ pc' \in InFlight =>
                /\ todo' \in Checks => msg'.op = todo'
                /\ msg'.op \in Exports => todo' = "export"
        BY <1>2 DEF WireInv, InFlight
    <2>7. QED
        BY <2>5, <2>6 DEF WireInv
<1>7. BootInv'
    <2>1. pc' = "waiting" => pc = "waiting"
        BY <1>2
    <2>2. pc # "down" => pc' # "down"
        BY <1>2
    <2>3. pc' # "down" => pc # "down"
        BY <1>2
    <2>4. \A j \in 1..Latest' :
            setup.attests /\ (enclaves'[j].ask.op \in Exports \/ enclaves'[j].recorded)
                => enclaves'[j].admitted
        BY <1>1, <1>3, <1>4 DEF BootInv
    <2>5. conn # 0 => enclaves'[conn] = enclaves[conn]
        BY <1>1
    <2>6. QED
        BY <1>2, <2>1, <2>3, <2>4, <2>5 DEF BootInv, PlaceInv
<1>8. QED
    BY <1>6, <1>7

\* The exporter is connected; a listening enclave is its own from now on.
LEMMA WireConnect ==
    ASSUME TypeOK, PlaceInv, WireInv, BootInv,
           pc \in {"opening", "connecting"},
           NEW i \in 1..Latest, Connected(i),
           UNCHANGED <<setup, run, msg, reply, verdict>>
    PROVE  WireInv' /\ BootInv'
<1>1. /\ Latest' = Latest /\ Latest \in Nat /\ run \in Nat
      /\ conn' = i /\ pc' = "sending" /\ todo' = todo
    BY LatestIsNat, ConnectedType, LinkAssumption DEF TypeOK, Connected
<1>2. conn = 0 /\ run > 0 /\ reply = "none"
    BY DEF WireInv
<1>3. \A j \in 1..Latest : enclaves[j].peer # run
    BY <1>2 DEF WireInv
<1>4. ASSUME NEW j \in 1..Latest
      PROVE  /\ enclaves'[j].ask = enclaves[j].ask
             /\ enclaves'[j].admitted = enclaves[j].admitted
             /\ enclaves'[j].recorded = enclaves[j].recorded
             /\ \/ enclaves'[j] = enclaves[j]
                \/ /\ j = i /\ enclaves'[j].peer = run
                   /\ enclaves'[j].state = "serving"
                   /\ enclaves[j].state = "listening"
    <2>1. enclaves[j] \in EnclaveType /\ enclaves[i] \in EnclaveType
        BY EnclaveFields DEF TypeOK
    <2>2. CASE UNCHANGED enclaves
        BY <2>2
    <2>3. CASE /\ enclaves[i].state = "listening"
               /\ enclaves' = [enclaves EXCEPT ![i] = Taken(enclaves[i])]
        <3>1. j # i => enclaves'[j] = enclaves[j]
            BY <2>3 DEF TypeOK, Latest
        <3>2. enclaves'[i] = Taken(enclaves[i])
            BY <2>3 DEF TypeOK, Latest
        <3>3. QED
            BY <2>1, <2>3, <3>1, <3>2 DEF Taken, EnclaveType
    <2>4. QED
        BY <2>2, <2>3 DEF Connected
<1>5. WireInv'
    <2>1. ASSUME NEW j \in 1..Latest
          PROVE  /\ enclaves'[j].peer <= run
                 /\ enclaves'[j].peer = run => i = j
                 /\ enclaves'[j].state \in {"listening", "gone"} =>
                       enclaves'[j].ask = NoRequest
                 /\ enclaves'[j].state = "listening" => enclaves'[j].peer = 0
                 /\ enclaves'[j].peer = run => enclaves'[j].ask = NoRequest
        <3>1. /\ enclaves[j].peer <= run
              /\ enclaves[j].state \in {"listening", "gone"} =>
                    enclaves[j].ask = NoRequest
              /\ enclaves[j].state = "listening" => enclaves[j].peer = 0
            BY DEF WireInv
        <3>2. CASE enclaves'[j] = enclaves[j]
            BY <1>3, <3>1, <3>2
        <3>3. CASE /\ j = i /\ enclaves'[j].peer = run
                   /\ enclaves'[j].state = "serving"
                   /\ enclaves[j].state = "listening"
            BY <1>1, <1>4, <3>1, <3>3
        <3>4. QED
            BY <1>4, <3>2, <3>3
    <2>2. QED
        BY <1>1, <1>2, <2>1 DEF WireInv, Joined, InFlight
<1>6. BootInv'
    BY <1>1, <1>2, <1>4 DEF BootInv
<1>7. QED
    BY <1>5, <1>6

\* The request goes out to the enclave at the other end, if there is one.
LEMMA WireSend ==
    ASSUME TypeOK, PlaceInv, WireInv, BootInv, Send
    PROVE  WireInv' /\ BootInv'
<1>1. /\ Latest \in Nat /\ conn \in 1..Latest
      /\ pc = "sending" /\ pc' = "waiting"
      /\ UNCHANGED <<setup, run, todo, msg, conn, reply, verdict>>
    BY LatestIsNat DEF Send, TypeOK, PlaceInv
<1>2. Latest' = Latest
    BY DEF Send, TypeOK, Latest
<1>3. ASSUME NEW j \in 1..Latest
      PROVE  /\ enclaves'[j].peer = enclaves[j].peer
             /\ enclaves'[j].state = enclaves[j].state
             /\ enclaves'[j].admitted = enclaves[j].admitted
             /\ enclaves'[j].recorded = enclaves[j].recorded
             /\ \/ enclaves'[j].ask = enclaves[j].ask /\ (j # conn \/ ~Alive(j) \/ ~Joined(j))
                \/ /\ j = conn /\ Alive(j) /\ Joined(j)
                   /\ enclaves'[j].ask = msg
    <2>1. enclaves[j] \in EnclaveType /\ enclaves[conn] \in EnclaveType
        BY <1>1, EnclaveFields DEF TypeOK
    <2>2. CASE UNCHANGED enclaves /\ ~(Alive(conn) /\ Joined(conn))
        BY <2>2
    <2>3. CASE /\ Alive(conn) /\ Joined(conn)
               /\ enclaves' = [enclaves EXCEPT ![conn].ask = msg]
        BY <1>1, <2>1, <2>3 DEF TypeOK, Latest, EnclaveType
    <2>4. QED
        BY <2>2, <2>3 DEF Send
<1>4. reply = "none"
    BY <1>1 DEF WireInv
<1>5. WireInv'
    <2>1. ASSUME NEW j \in 1..Latest
          PROVE  /\ enclaves'[j].peer <= run
                 /\ enclaves'[j].peer = run => conn = j
                 /\ enclaves'[j].state = "listening" => enclaves'[j].peer = 0
        BY <1>1, <1>3 DEF WireInv
    <2>2. ASSUME NEW j \in 1..Latest
          PROVE  Joined(j)' => enclaves'[j].ask \in {NoRequest, msg}
        <3>1. Joined(j)' <=> Joined(j)
            BY <1>1, <1>3 DEF Joined
        <3>2. ~Alive(j) \/ (Joined(j) /\ enclaves[j].ask # NoRequest) =>
                  ~Alive(j) /\ enclaves[j].ask = NoRequest
            BY <1>1 DEF WireInv, Alive
        <3>3. j # conn => ~Joined(j)
            BY DEF Joined
        <3>4. QED
            BY <1>3, <3>1, <3>2, <3>3
    <2>3. ASSUME NEW j \in 1..Latest, enclaves'[j].state \in {"listening", "gone"}
          PROVE  enclaves'[j].ask = NoRequest
        <3>1. enclaves[j].state \in {"listening", "gone"}
            BY <1>3, <2>3
        <3>2. enclaves[j].ask = NoRequest
            BY <3>1 DEF WireInv
        <3>3. enclaves[j].state = "listening" => ~Joined(j)
            <4>1. enclaves[j].state = "listening" => enclaves[j].peer = 0
                BY DEF WireInv
            <4>2. run > 0
                BY <1>1 DEF WireInv
            <4>3. QED
                BY <4>1, <4>2 DEF Joined
        <3>4. QED
            BY <1>3, <3>1, <3>2, <3>3 DEF Alive
    <2>4. /\ run > 0
          /\ todo \in Checks => msg.op = todo
          /\ msg.op \in Exports => todo = "export"
        BY <1>1 DEF WireInv, InFlight
    <2>5. QED
        BY <1>1, <1>2, <1>4, <2>1, <2>2, <2>3, <2>4 DEF WireInv, InFlight
<1>6. ASSUME setup.attests PROVE BootInv'
    <2>1. conn # 0 /\ pc # "down"
        BY <1>1
    <2>2. todo = "export" \/ verdict = "ok" => enclaves'[conn].admitted
        BY <1>1, <1>3, <1>6, <2>1 DEF BootInv
    <2>3. ASSUME NEW j \in 1..Latest,
                 enclaves'[j].ask.op \in Exports \/ enclaves'[j].recorded
          PROVE  enclaves'[j].admitted
        <3>1. CASE enclaves'[j].ask = enclaves[j].ask
            BY <1>3, <1>6, <2>3, <3>1 DEF BootInv
        <3>2. CASE j = conn /\ enclaves'[j].ask = msg /\ msg.op \in Exports
            BY <1>1, <2>2, <3>2 DEF WireInv, InFlight
        <3>3. CASE enclaves'[j].recorded
            BY <1>3, <1>6, <3>3 DEF BootInv
        <3>4. QED
            BY <1>3, <2>3, <3>1, <3>2, <3>3
    <2>4. QED
        BY <1>1, <1>2, <1>4, <2>1, <2>2, <2>3 DEF BootInv
<1>7. QED
    BY <1>1, <1>5, <1>6 DEF BootInv

LEMMA WireStep ==
    TypeOK /\ PlaceInv /\ WireInv /\ BootInv /\ [Next]_vars => WireInv' /\ BootInv'
<1> SUFFICES ASSUME TypeOK, PlaceInv, WireInv, BootInv, [Next]_vars
             PROVE  WireInv' /\ BootInv'
    OBVIOUS
<1>1. CASE \/ Start \/ AskNonce \/ AskVerify \/ VerifyCached \/ Poll \/ Cycle
           \/ Closed \/ Kill \/ LaunchFails \/ ConnectFails \/ ChildEnded
           \/ Receive \/ Broken
    <2>1. UNCHANGED <<setup, enclaves>>
        BY <1>1 DEF Start, AskNonce, AskVerify, VerifyCached, Poll, Cycle, Closed,
                    Kill, LaunchFails, ConnectFails, ChildEnded, Receive, Broken
    <2>2. QED
        BY <1>1, <2>1, WireExporter
<1>2. CASE Launch \/ StartRemote
    BY <1>2, WireLaunch
<1>3. CASE Connect \/ ConnectRemote
    <2>1. Latest \in 1..Latest
        <3>1. Latest \in Nat
            BY LatestIsNat
        <3>2. Latest # 0
            BY <1>3 DEF PlaceInv, Connect, ConnectRemote
        <3>3. QED
            BY <3>1, <3>2
    <2>2. /\ pc \in {"opening", "connecting"}
          /\ UNCHANGED <<setup, run, msg, reply, verdict>>
        BY <1>3 DEF Connect, ConnectRemote
    <2>3. CASE Connected(Latest)
        BY <2>1, <2>2, <2>3, WireConnect
    <2>4. CASE ConnectRemote /\ Failed /\ UNCHANGED enclaves
        BY <2>2, <2>4, WireExporter
    <2>5. QED
        BY <1>3, <2>3, <2>4 DEF Connect, ConnectRemote
<1>4. CASE Send
    BY <1>4, WireSend
<1>5. ASSUME NEW i \in 1..Latest, Handle(i) PROVE WireInv' /\ BootInv'
    <2> DEFINE m == enclaves[i].ask
    <2>1. PICK status \in IF Known(m.op) THEN Statuses(m.op) ELSE {"unknown"} :
             /\ reply' = IF Joined(i) THEN status ELSE reply
             /\ enclaves' = [enclaves EXCEPT ![i] = Done(@, status)]
        BY <1>5 DEF Handle
    <2> DEFINE e == Done(enclaves[i], status)
    <2>2. enclaves[i] \in EnclaveType /\ NoRequest \in Requests
        BY EnclaveFields DEF TypeOK
    <2>3. /\ e \in EnclaveType
          /\ e.peer = enclaves[i].peer
          /\ e.ask = NoRequest
          /\ e.state = enclaves[i].state
          /\ enclaves[i].admitted => e.admitted
          /\ e.recorded => enclaves[i].recorded \/ enclaves[i].ask.op \in Exports
          /\ status = "ok" /\ enclaves[i].ask.op \in Checks => e.admitted
        BY <2>2 DEF Done, EnclaveType
    <2>4. enclaves' = [enclaves EXCEPT ![i] = e]
        BY <2>1
    <2>5. UNCHANGED <<setup, pc, run, todo, msg, conn, verdict>>
        BY <1>5 DEF Handle
    <2>6. enclaves[i].ask # NoRequest
        BY <1>5 DEF Handle, Asked
    <2>7. \/ reply' = reply
          \/ Joined(i) /\ reply' = status
        BY <2>1
    <2> HIDE DEF e, m
    <2>8. QED
        BY <2>3, <2>4, <2>5, <2>6, <2>7, WireEnclave
<1>6. ASSUME NEW i \in 1..Latest, Ends(i) \/ Crash(i) PROVE WireInv' /\ BootInv'
    <2> DEFINE e == Gone(enclaves[i])
    <2>1. enclaves[i] \in EnclaveType /\ NoRequest \in Requests
        BY EnclaveFields DEF TypeOK
    <2>2. /\ e \in EnclaveType
          /\ e.peer = enclaves[i].peer
          /\ e.ask = NoRequest
          /\ e.state = "gone"
          /\ e.admitted = enclaves[i].admitted
          /\ e.recorded = enclaves[i].recorded
        BY <2>1 DEF Gone, EnclaveType
    <2>3. enclaves' = [enclaves EXCEPT ![i] = e]
        BY <1>6 DEF Ends, Crash
    <2>4. UNCHANGED <<setup, pc, run, todo, msg, conn, verdict>>
        BY <1>6 DEF Ends, Crash, exporter
    <2>5. reply' \in {reply, "none"}
        BY <1>6 DEF Ends, Crash, exporter
    <2> HIDE DEF e
    <2>6. QED
        BY <2>2, <2>3, <2>4, <2>5, WireEnclave
<1>7. ASSUME NEW i \in 1..Latest, Hangs(i) PROVE WireInv' /\ BootInv'
    <2> DEFINE e == [enclaves[i] EXCEPT !.state = "hung"]
    <2>1. enclaves[i] \in EnclaveType
        BY EnclaveFields DEF TypeOK
    <2>2. /\ e \in EnclaveType
          /\ e.peer = enclaves[i].peer
          /\ e.ask = enclaves[i].ask
          /\ e.state = "hung"
          /\ e.admitted = enclaves[i].admitted
          /\ e.recorded = enclaves[i].recorded
        BY <2>1 DEF EnclaveType
    <2>3. enclaves' = [enclaves EXCEPT ![i] = e]
        BY <1>7 DEF Hangs
    <2>4. UNCHANGED <<setup, pc, run, todo, msg, conn, verdict, reply>>
        BY <1>7 DEF Hangs, exporter
    <2> HIDE DEF e
    <2>5. QED
        BY <2>2, <2>3, <2>4, WireEnclave
<1>8. CASE UNCHANGED <<setup, exporter, enclaves>>
    BY <1>8 DEF exporter, WireInv, BootInv, Joined, Latest
<1>9. ASSUME NEW p \in Pids, Burn(p) \/ Exit(p)
      PROVE  UNCHANGED <<setup, exporter, enclaves>>
    BY <1>9 DEF Burn, Exit
<1>10. UNCHANGED vars => UNCHANGED <<setup, exporter, enclaves>>
    BY DEF vars
<1>11. QED
    BY <1>1, <1>2, <1>3, <1>4, <1>5, <1>6, <1>7, <1>8, <1>9, <1>10
       DEF Next, ExporterStep, EnclaveStep

\* VM_ENCLAVE_CONNECTION is set once and never opened again, so whatever
\* crashes, is killed, hangs or is lost, and however often it is started
\* again: an enclave that recorded energy had admitted the boot of an exporter
\* that attests, although no handler of the enclave checks that it did.
THEOREM EnergyAfterBoot == Spec => []ServedAfterBoot
<1> DEFINE IInv == TypeOK /\ PlaceInv /\ WireInv /\ BootInv
<1>1. Init => IInv
    BY TypeInit, PlaceInit, WireInit
<1>2. IInv /\ [Next]_vars => IInv'
    BY TypeStep, PlaceStep, WireStep
<1>3. IInv => ServedAfterBoot
    BY DEF BootInv, ServedAfterBoot
<1>4. QED
    BY <1>1, <1>2, <1>3, PTL DEF Spec

-----------------------------------------------------------------------------
(* No tick is charged for twice *)

\* What a request that is about to be sent weighs, and one that an enclave has.
InHand(p) ==
    IF pc \in {"opening", "connecting", "waiting for child", "sending"}
    THEN msg.weights[p] ELSE 0
On(i, p)  == enclaves[i].ask.weights[p]

\* At f[i] are the ticks that have been charged for once the enclaves up to the
\* ith, killed exporters' ones among them, have handled what they were asked.
Counts(f, p) ==
    /\ f \in [0..Latest -> Nat]
    /\ weighed[p] <= f[0]
    /\ \A i, j \in 0..Latest : i < j => f[i] + On(j, p) <= f[j]

\* The ticks charged for, asked for, about to be asked for and not reported yet
\* were all used.
Covered(p) ==
    \E f : Counts(f, p) /\ f[Latest] + InHand(p) + Delta(p) <= used[p]

LEMMA TickTypes ==
    ASSUME TypeOK, NEW p \in Pids
    PROVE  /\ Latest \in Nat
           /\ InHand(p) \in Nat /\ Delta(p) \in Nat
           /\ msg.weights[p] \in Nat
           /\ used[p] \in Nat /\ weighed[p] \in Nat
           /\ \A i \in 1..Latest : On(i, p) \in Nat
<1>1. Latest \in Nat
    BY LatestIsNat
<1>2. msg.weights[p] \in Nat
    BY DEF TypeOK, Requests
<1>3. InHand(p) \in Nat
    BY <1>2 DEF InHand
<1>4. Delta(p) \in Nat
    <2>1. ticks[p] \in Nat \cup {None} /\ prev[p] \in Nat \cup {None}
        BY DEF TypeOK
    <2>2. QED
        BY <2>1 DEF Delta, None
<1>5. used[p] \in Nat /\ weighed[p] \in Nat
    BY DEF TypeOK
<1>6. ASSUME NEW i \in 1..Latest PROVE On(i, p) \in Nat
    <2>1. enclaves[i].ask \in Requests
        BY EnclaveFields DEF TypeOK
    <2>2. QED
        BY <2>1 DEF On, Requests
<1>7. QED
    BY <1>1, <1>2, <1>3, <1>4, <1>5, <1>6

\* The same, one step later.
LEMMA TickTypesNext ==
    (TypeOK => \A p \in Pids :
                  /\ InHand(p) \in Nat /\ Delta(p) \in Nat
                  /\ used[p] \in Nat /\ weighed[p] \in Nat
                  /\ \A i \in 1..Latest : On(i, p) \in Nat)'
<1>1. TypeOK => \A p \in Pids :
                  /\ InHand(p) \in Nat /\ Delta(p) \in Nat
                  /\ used[p] \in Nat /\ weighed[p] \in Nat
                  /\ \A i \in 1..Latest : On(i, p) \in Nat
    BY TickTypes
<1>2. QED
    BY <1>1, PTL

\* A step after which no enclave has more to handle, and what is on its way
\* grew by no more than what was used.
LEMMA TicksKept ==
    ASSUME TypeOK, TypeOK', NEW p \in Pids, Covered(p),
           Latest' = Latest, weighed'[p] = weighed[p],
           \A i \in 1..Latest : On(i, p)' <= On(i, p),
           InHand(p)' + Delta(p)' + used[p] <= InHand(p) + Delta(p) + used'[p]
    PROVE  Covered(p)'
<1>1. PICK f : Counts(f, p) /\ f[Latest] + InHand(p) + Delta(p) <= used[p]
    BY DEF Covered
<1>2. /\ Latest \in Nat /\ f \in [0..Latest -> Nat]
      /\ InHand(p) \in Nat /\ Delta(p) \in Nat /\ used[p] \in Nat
      /\ \A i \in 1..Latest : On(i, p) \in Nat
    BY <1>1, TickTypes DEF Counts
<1>3. /\ InHand(p)' \in Nat /\ Delta(p)' \in Nat /\ used'[p] \in Nat
      /\ \A i \in 1..Latest : On(i, p)' \in Nat
    BY TickTypesNext
<1>4. Counts(f, p)'
    <2>1. ASSUME NEW i \in 0..Latest, NEW j \in 0..Latest, i < j
          PROVE  f[i] + On(j, p)' <= f[j]
        <3>1. j \in 1..Latest /\ f[i] \in Nat /\ f[j] \in Nat
            BY <1>2, <2>1
        <3>2. f[i] + On(j, p) <= f[j]
            BY <1>1, <2>1 DEF Counts
        <3>3. On(j, p) \in Nat /\ On(j, p)' \in Nat /\ On(j, p)' <= On(j, p)
            BY <1>2, <1>3, <3>1
        <3>4. QED
            BY <3>1, <3>2, <3>3
    <2>2. QED
        BY <1>1, <1>2, <2>1 DEF Counts
<1>5. f[Latest] \in Nat
    BY <1>2
<1>6. f[Latest] + InHand(p)' + Delta(p)' <= used'[p]
    BY <1>1, <1>2, <1>3, <1>5, SMTT(30)
<1>7. QED
    BY <1>4, <1>6 DEF Covered

LEMMA TicksLaunched ==
    ASSUME TypeOK, TypeOK', NEW p \in Pids, Covered(p), Launch \/ StartRemote
    PROVE  Covered(p)'
<1>1. PICK f : Counts(f, p) /\ f[Latest] + InHand(p) + Delta(p) <= used[p]
    BY DEF Covered
<1>0. PICK n \in Nat : n = Latest
    BY LatestIsNat
<1>2. /\ n \in Nat /\ f \in [0..n -> Nat]
      /\ \A i \in 1..n : On(i, p) \in Nat
    BY <1>0, <1>1, TickTypes DEF Counts
<1>3. /\ Latest' = n + 1
      /\ enclaves'[n + 1] = Enclave
      /\ \A j \in 1..n : enclaves'[j] = enclaves[j]
    BY <1>0, AddEnclave DEF TypeOK, Launch, StartRemote
<1>4. On(n + 1, p)' = 0
    BY <1>3 DEF On, Enclave, NoRequest, Request, NoWeights
<1>5. \A j \in 1..n : On(j, p)' = On(j, p)
    BY <1>3 DEF On
<1>11. PICK g : g = [j \in 0..(n + 1) |-> IF j <= n THEN f[j] ELSE f[n]]
    OBVIOUS
<1>6. Counts(g, p)'
    <2>1. g \in [0..Latest' -> Nat]
        BY <1>2, <1>3, <1>11
    <2>2. weighed'[p] <= g[0]
        <3>1. weighed' = weighed
            BY DEF Launch, StartRemote
        <3>2. g[0] = f[0]
            BY <1>2, <1>11
        <3>3. QED
            BY <1>1, <3>1, <3>2 DEF Counts
    <2>3. ASSUME NEW i \in 0..(n + 1), NEW j \in 0..(n + 1), i < j
          PROVE  g[i] + On(j, p)' <= g[j]
        <3>1. i \in 0..n /\ g[i] = f[i] /\ f[i] \in Nat
            BY <1>2, <1>11, <2>3
        <3>2. CASE j \in 1..n
            <4>1. f[i] + On(j, p) <= f[j]
                BY <1>0, <1>1, <2>3, <3>1, <3>2 DEF Counts
            <4>2. g[j] = f[j]
                BY <1>2, <1>11, <3>2
            <4>3. QED
                BY <1>5, <3>1, <3>2, <4>1, <4>2
        <3>3. CASE j = n + 1
            <4>1. f[i] <= f[n]
                <5>1. CASE i = n
                    BY <3>1, <5>1
                <5>2. CASE i < n
                    <6>1. n \in 1..n /\ f[n] \in Nat
                        BY <1>2, <3>1, <5>2
                    <6>2. f[i] + On(n, p) <= f[n] /\ On(n, p) \in Nat
                        BY <1>0, <1>1, <1>2, <3>1, <5>2, <6>1 DEF Counts
                    <6>3. QED
                        BY <3>1, <6>1, <6>2
                <5>3. QED
                    BY <1>2, <3>1, <5>1, <5>2
            <4>2. g[j] = f[n]
                BY <1>2, <1>11, <3>3
            <4>3. QED
                BY <1>4, <3>1, <3>3, <4>1, <4>2
        <3>4. QED
            BY <1>2, <2>3, <3>2, <3>3
    <2>4. QED
        BY <1>3, <2>1, <2>2, <2>3 DEF Counts
<1>7. g[Latest'] = f[n]
    BY <1>2, <1>3, <1>11
<1>8. InHand(p)' = InHand(p) /\ Delta(p)' = Delta(p) /\ used' = used
    BY DEF Launch, StartRemote, InHand, Delta, exporter, machine
<1>9. g[Latest'] + InHand(p)' + Delta(p)' <= used'[p]
    BY <1>0, <1>1, <1>7, <1>8
<1>12. QED
    BY <1>6, <1>9 DEF Covered

\* What was in hand is on its way to the enclave.
LEMMA TicksSent ==
    ASSUME TypeOK, TypeOK', NEW p \in Pids, Covered(p), NEW c \in 1..Latest,
           pc = "sending", pc' = "waiting",
           enclaves' = [enclaves EXCEPT ![c].ask = msg],
           UNCHANGED <<machine, prev, weighed>>
    PROVE  Covered(p)'
<1>1. PICK f : Counts(f, p) /\ f[Latest] + InHand(p) + Delta(p) <= used[p]
    BY DEF Covered
<1>2. /\ Latest \in Nat /\ f \in [0..Latest -> Nat]
      /\ msg.weights[p] \in Nat
      /\ \A i \in 1..Latest : On(i, p) \in Nat
    BY <1>1, TickTypes DEF Counts
<1>3. Latest' = Latest
    BY DEF Latest, TypeOK
<1>4. /\ On(c, p)' = msg.weights[p]
      /\ \A j \in 1..Latest : j # c => On(j, p)' = On(j, p)
    <2>1. enclaves[c] \in EnclaveType /\ c \in DOMAIN enclaves
        BY DEF TypeOK, Latest
    <2>2. enclaves'[c] = [enclaves[c] EXCEPT !.ask = msg]
        BY <2>1
    <2>3. enclaves'[c].ask = msg
        BY <2>1, <2>2 DEF EnclaveType
    <2>4. QED
        BY <2>3 DEF On, Latest, TypeOK
<1>0. PICK w \in Nat : w = msg.weights[p]
    BY <1>2
<1>12. PICK g : g = [j \in 0..Latest |-> IF j >= c THEN f[j] + w ELSE f[j]]
    OBVIOUS
<1>5. ASSUME NEW i \in 0..Latest, NEW j \in 0..Latest, i < j
      PROVE  g[i] + On(j, p)' <= g[j]
    <2>1. /\ j \in 1..Latest /\ f[i] \in Nat /\ f[j] \in Nat
          /\ f[i] + On(j, p) <= f[j] /\ On(j, p) \in Nat
        BY <1>1, <1>2, <1>5 DEF Counts
    <2>2. CASE j = c
        <3>1. g[i] = f[i] /\ g[j] = f[j] + w /\ On(j, p)' = w
            BY <1>0, <1>2, <1>4, <1>5, <1>12, <2>2
        <3>2. QED
            BY <1>2, <2>1, <3>1
    <2>3. CASE j < c
        <3>1. g[i] = f[i] /\ g[j] = f[j] /\ On(j, p)' = On(j, p)
            BY <1>0, <1>2, <1>4, <1>5, <1>12, <2>1, <2>3
        <3>2. QED
            BY <2>1, <3>1
    <2>4. CASE j > c
        <3>1. g[i] \in {f[i], f[i] + w} /\ g[j] = f[j] + w /\ On(j, p)' = On(j, p)
            BY <1>0, <1>2, <1>4, <1>5, <1>12, <2>1, <2>4
        <3>2. QED
            BY <1>2, <2>1, <3>1
    <2>5. QED
        BY <1>2, <2>2, <2>3, <2>4
<1>6. Counts(g, p)'
    <2>1. g \in [0..Latest -> Nat]
        BY <1>2, <1>12
    <2>2. weighed'[p] <= g[0]
        <3>1. g[0] = f[0] /\ weighed[p] <= f[0] /\ weighed' = weighed
            BY <1>1, <1>2, <1>12 DEF Counts
        <3>2. QED
            BY <3>1
    <2>3. QED
        BY <1>3, <1>5, <2>1, <2>2 DEF Counts
<1>7. InHand(p) = w /\ InHand(p)' = 0 /\ Delta(p)' = Delta(p) /\ used' = used
    BY <1>0 DEF InHand, Delta, machine
<1>8. g[Latest] = f[Latest] + w /\ f[Latest] \in Nat
    BY <1>2, <1>12
<1>9. Delta(p) \in Nat /\ used[p] \in Nat
    BY TickTypes
<1>10. g[Latest'] + InHand(p)' + Delta(p)' <= used'[p]
    <2>1. f[Latest] + w + Delta(p) <= used[p]
        BY <1>1, <1>7
    <2>2. g[Latest'] + InHand(p)' + Delta(p)' = f[Latest] + w + 0 + Delta(p)
        BY <1>3, <1>7, <1>8
    <2>3. QED
        BY <1>2, <1>7, <1>8, <1>9, <2>1, <2>2
<1>11. QED
    BY <1>6, <1>10 DEF Covered

\* A request that was handled is charged for, or not.
LEMMA TicksHandled ==
    ASSUME TypeOK, TypeOK', NEW p \in Pids, Covered(p), NEW k \in 1..Latest,
           Handle(k)
    PROVE  Covered(p)'
<1>1. PICK f : Counts(f, p) /\ f[Latest] + InHand(p) + Delta(p) <= used[p]
    BY DEF Covered
<1>2. /\ Latest \in Nat /\ f \in [0..Latest -> Nat]
      /\ weighed[p] \in Nat
      /\ \A i \in 1..Latest : On(i, p) \in Nat
    BY <1>1, TickTypes DEF Counts
<1>3. PICK status :
         /\ enclaves' = [enclaves EXCEPT ![k] = Done(@, status)]
         /\ weighed' = [q \in Pids |-> IF status = "ok"
                                       THEN weighed[q] + enclaves[k].ask.weights[q]
                                       ELSE weighed[q]]
    BY DEF Handle
<1>4. Latest' = Latest
    BY <1>3 DEF Latest, TypeOK
<1>5. /\ On(k, p)' = 0
      /\ \A j \in 1..Latest : j # k => On(j, p)' = On(j, p)
    <2>1. enclaves[k] \in EnclaveType /\ k \in DOMAIN enclaves
        BY DEF TypeOK, Latest
    <2>2. enclaves'[k] = Done(enclaves[k], status)
        BY <1>3, <2>1
    <2>3. enclaves'[k].ask = NoRequest
        BY <2>1, <2>2 DEF EnclaveType, Done
    <2>4. QED
        BY <1>3, <2>3 DEF On, Latest, TypeOK, NoRequest, Request, NoWeights
<1>6. On(k, p) \in Nat /\ weighed'[p] <= weighed[p] + On(k, p)
    BY <1>2, <1>3 DEF On
<1>0. PICK w \in Nat : w = On(k, p)
    BY <1>6
<1>13. PICK g : g = [j \in 0..Latest |-> IF j < k THEN f[j] + w ELSE f[j]]
    OBVIOUS
<1>7. ASSUME NEW i \in 0..Latest, NEW j \in 0..Latest, i < j
      PROVE  g[i] + On(j, p)' <= g[j]
    <2>1. /\ j \in 1..Latest /\ f[i] \in Nat /\ f[j] \in Nat
          /\ f[i] + On(j, p) <= f[j] /\ On(j, p) \in Nat
        BY <1>1, <1>2, <1>7 DEF Counts
    <2>2. CASE j < k
        <3>1. g[i] = f[i] + w /\ g[j] = f[j] + w /\ On(j, p)' = On(j, p)
            BY <1>0, <1>2, <1>5, <1>7, <1>13, <2>1, <2>2
        <3>2. QED
            BY <1>0, <2>1, <3>1
    <2>3. CASE j = k
        <3>1. g[i] = f[i] + w /\ g[j] = f[j] /\ On(j, p)' = 0
            BY <1>0, <1>2, <1>5, <1>7, <1>13, <2>3
        <3>2. QED
            BY <1>0, <2>1, <2>3, <3>1
    <2>4. CASE j > k
        <3>1. g[j] = f[j] /\ On(j, p)' = On(j, p)
            BY <1>0, <1>2, <1>5, <1>7, <1>13, <2>1, <2>4
        <3>2. CASE i < k
            <4>1. g[i] = f[i] + w
                BY <1>2, <1>13, <3>2
            <4>2. f[k] \in Nat /\ k \in 0..Latest
                BY <1>2
            <4>3. f[i] + w <= f[k]
                BY <1>0, <1>1, <1>7, <3>2, <4>2 DEF Counts
            <4>4. f[k] + On(j, p) <= f[j]
                BY <1>1, <1>7, <2>4, <4>2 DEF Counts
            <4>5. QED
                BY <1>0, <2>1, <3>1, <4>1, <4>2, <4>3, <4>4
        <3>3. CASE i >= k
            BY <1>2, <1>7, <1>13, <2>1, <3>1, <3>3
        <3>4. QED
            BY <1>2, <3>2, <3>3
    <2>5. QED
        BY <1>2, <2>2, <2>3, <2>4
<1>8. Counts(g, p)'
    <2>1. g \in [0..Latest -> Nat]
        BY <1>0, <1>2, <1>13
    <2>2. weighed'[p] <= g[0]
        <3>1. g[0] = f[0] + w /\ f[0] \in Nat /\ weighed[p] <= f[0]
            BY <1>1, <1>2, <1>13 DEF Counts
        <3>2. weighed'[p] \in Nat
            BY DEF TypeOK
        <3>3. QED
            BY <1>0, <1>2, <1>6, <3>1, <3>2
    <2>3. QED
        BY <1>4, <1>7, <2>1, <2>2 DEF Counts
<1>9. InHand(p)' = InHand(p) /\ Delta(p)' = Delta(p) /\ used' = used
    BY DEF Handle, InHand, Delta, machine
<1>10. g[Latest'] = f[Latest]
    BY <1>2, <1>4, <1>13
<1>11. g[Latest'] + InHand(p)' + Delta(p)' <= used'[p]
    BY <1>1, <1>9, <1>10
<1>12. QED
    BY <1>8, <1>11 DEF Covered

LEMMA TicksInit == Init => \A p \in Pids : Covered(p)
<1> SUFFICES ASSUME Init, NEW p \in Pids PROVE Covered(p)
    OBVIOUS
<1>1. /\ Latest \in {0, 1}
      /\ \A i \in 1..Latest : On(i, p) = 0
    BY DEF Init, Latest, On, Enclave, NoRequest, Request, NoWeights
<1>2. InHand(p) = 0 /\ Delta(p) = 0 /\ weighed[p] = 0 /\ used[p] = 0
    BY DEF Init, InHand, Delta, None
<1> DEFINE f == [j \in 0..Latest |-> 0]
<1>3. Counts(f, p)
    BY <1>1, <1>2 DEF Counts
<1>4. f[Latest] = 0
    BY <1>1
<1>5. f[Latest] + InHand(p) + Delta(p) <= used[p]
    BY <1>2, <1>4
<1>6. QED
    BY <1>3, <1>5 DEF Covered

LEMMA TicksStep ==
    ASSUME TypeOK, TypeOK', PlaceInv, [Next]_vars, NEW p \in Pids, Covered(p)
    PROVE  Covered(p)'
<1> DEFINE Held == InHand(p)' + Delta(p)' + used[p]
                     <= InHand(p) + Delta(p) + used'[p]
<1>1. /\ Latest \in Nat /\ InHand(p) \in Nat /\ Delta(p) \in Nat /\ used[p] \in Nat
      /\ msg.weights[p] \in Nat
      /\ \A i \in 1..Latest : On(i, p) \in Nat
    BY TickTypes
<1>2. InHand(p)' \in Nat /\ Delta(p)' \in Nat /\ used'[p] \in Nat
    BY TickTypesNext
<1>3. ASSUME UNCHANGED <<enclaves, weighed>>, Held PROVE Covered(p)'
    <2>1. Latest' = Latest /\ \A i \in 1..Latest : On(i, p)' <= On(i, p)
        BY <1>1, <1>3 DEF Latest, On
    <2>2. QED
        BY <1>3, <2>1, TicksKept
<1>4. ASSUME NEW i \in 1..Latest, NEW e \in EnclaveType,
             enclaves' = [enclaves EXCEPT ![i] = e],
             e.ask \in {enclaves[i].ask, NoRequest},
             UNCHANGED weighed, Held
      PROVE  Covered(p)'
    <2>1. /\ Latest' = Latest
          /\ \A j \in 1..Latest : enclaves'[j] = IF j = i THEN e ELSE enclaves[j]
        BY <1>4, ReplaceEnclave DEF TypeOK
    <2>2. ASSUME NEW j \in 1..Latest PROVE On(j, p)' <= On(j, p)
        <3>1. enclaves'[j].ask \in {enclaves[j].ask, NoRequest}
            BY <1>4, <2>1
        <3>2. NoRequest.weights[p] = 0
            BY DEF NoRequest, Request, NoWeights
        <3>3. On(j, p) \in Nat
            BY <1>1
        <3>4. QED
            BY <3>1, <3>2, <3>3 DEF On
    <2>3. QED
        BY <1>4, <2>1, <2>2, TicksKept
<1>5. CASE Start
    <2>1. InHand(p)' = 0 /\ Delta(p)' = 0 /\ used' = used
        BY <1>5 DEF Start, InHand, Delta, machine
    <2>2. QED
        BY <1>1, <1>3, <1>5, <2>1 DEF Start
<1>6. CASE AskNonce \/ AskVerify \/ Cycle
    <2>1. msg'.weights[p] = 0
        BY <1>6 DEF AskNonce, AskVerify, Cycle, Asks, Request, NoWeights
    <2>2. InHand(p)' = 0
        BY <2>1 DEF InHand
    <2>3. UNCHANGED <<enclaves, weighed, machine, prev>>
        BY <1>6 DEF AskNonce, AskVerify, Cycle
    <2>4. Delta(p)' = Delta(p) /\ used' = used
        BY <2>3 DEF Delta, machine
    <2>5. QED
        BY <1>1, <1>3, <2>2, <2>3, <2>4
<1>7. CASE VerifyCached \/ Closed \/ Kill \/ LaunchFails \/ ChildEnded \/ Receive
           \/ Broken \/ ConnectFails
    <2>1. UNCHANGED <<msg, enclaves, weighed, machine, prev>>
        BY <1>7 DEF VerifyCached, Closed, Kill, LaunchFails, ChildEnded, Receive,
                    Broken, ConnectFails
    <2>2. \/ pc' \in {"ready", "closing", "down"}
          \/ pc = "connecting" /\ pc' = "waiting for child"
        BY <1>7, FailedOutcome, AnsweredOutcome
           DEF VerifyCached, Closed, Kill, LaunchFails, ChildEnded, Receive,
               Broken, ConnectFails
    <2>3. InHand(p)' <= InHand(p)
        <3>1. InHand(p)' = 0 \/ InHand(p)' = InHand(p)
            BY <2>1, <2>2 DEF InHand
        <3>2. QED
            BY <1>1, <3>1
    <2>4. Delta(p)' = Delta(p) /\ used' = used
        BY <2>1 DEF Delta, machine
    <2>5. QED
        BY <1>1, <1>2, <1>3, <2>1, <2>3, <2>4
<1>8. CASE Poll
    <2>1. prev' = ticks /\ UNCHANGED <<enclaves, weighed, machine>> /\ pc = "ready"
        BY <1>8 DEF Poll
    <2>2. Delta(p)' = 0 /\ used' = used
        <3>1. ticks[p] \in Nat \cup {None}
            BY DEF TypeOK
        <3>2. QED
            BY <2>1, <3>1 DEF Delta, machine, None
    <2>3. InHand(p)' \in {0, Delta(p)}
        <3>1. CASE UNCHANGED <<pc, msg>>
            BY <2>1, <3>1 DEF InHand
        <3>2. CASE msg' = Request("vm_export", 1, [q \in Pids |-> Delta(q)])
            <4>1. msg'.weights[p] = Delta(p)
                BY <3>2 DEF Request
            <4>2. QED
                BY <4>1 DEF InHand
        <3>3. QED
            BY <1>8, <3>1, <3>2 DEF Poll, Asks
    <2>4. QED
        BY <1>1, <1>2, <1>3, <2>1, <2>2, <2>3
<1>9. CASE Launch \/ StartRemote
    BY <1>9, TicksLaunched
<1>10. ASSUME NEW i \in 1..Latest, Connected(i),
              pc \in {"opening", "connecting"},
              UNCHANGED <<msg, weighed, machine, prev>>
       PROVE  Covered(p)'
    <2>1. Held
        <3>1. InHand(p)' = InHand(p) /\ Delta(p)' = Delta(p) /\ used' = used
            BY <1>10 DEF Connected, InHand, Delta, machine
        <3>2. QED
            BY <1>1, <3>1
    <2>2. CASE UNCHANGED enclaves
        BY <1>3, <1>10, <2>1, <2>2
    <2>3. CASE enclaves' = [enclaves EXCEPT ![i] = Taken(@)]
        <3>1. enclaves[i] \in EnclaveType /\ run \in Nat /\ i \in DOMAIN enclaves
            BY EnclaveFields, LinkAssumption DEF TypeOK, Latest
        <3>2. Taken(enclaves[i]) \in EnclaveType
              /\ Taken(enclaves[i]).ask = enclaves[i].ask
            BY <3>1 DEF Taken, EnclaveType
        <3>3. enclaves' = [enclaves EXCEPT ![i] = Taken(enclaves[i])]
            BY <2>3, <3>1
        <3>4. QED
            BY <1>4, <1>10, <2>1, <3>2, <3>3
    <2>4. QED
        BY <1>10, <2>2, <2>3 DEF Connected
<1>11. CASE Connect \/ ConnectRemote
    <2>1. UNCHANGED <<msg, weighed, machine, prev>> /\ pc \in {"opening", "connecting"}
        BY <1>11 DEF Connect, ConnectRemote
    <2>2. CASE Connected(Latest)
        <3>1. Latest \in 1..Latest
            <4>1. Latest # 0
                BY <1>11 DEF Connect, ConnectRemote, PlaceInv
            <4>2. QED
                BY <1>1, <4>1
        <3>2. QED
            BY <1>10, <2>1, <2>2, <3>1
    <2>3. CASE Failed /\ UNCHANGED enclaves
        <3>1. InHand(p)' = 0
            BY <2>3, FailedOutcome DEF InHand
        <3>2. Delta(p)' = Delta(p) /\ used' = used
            BY <2>1 DEF Delta, machine
        <3>3. QED
            BY <1>1, <1>3, <2>1, <2>3, <3>1, <3>2
    <2>4. QED
        BY <1>11, <2>2, <2>3 DEF Connect, ConnectRemote
<1>12. CASE Send
    <2>1. /\ pc = "sending" /\ pc' = "waiting"
          /\ UNCHANGED <<msg, machine, prev, weighed>>
        BY <1>12 DEF Send
    <2>2. CASE UNCHANGED enclaves
        <3>1. InHand(p)' = 0 /\ Delta(p)' = Delta(p) /\ used' = used
            BY <2>1 DEF InHand, Delta, machine
        <3>2. QED
            BY <1>1, <1>3, <2>1, <2>2, <3>1
    <2>3. CASE enclaves' = [enclaves EXCEPT ![conn].ask = msg]
        <3>1. conn \in 1..Latest
            BY <1>1, <2>1 DEF PlaceInv, TypeOK
        <3>2. QED
            BY <2>1, <2>3, <3>1, TicksSent
    <2>4. QED
        BY <1>12, <2>2, <2>3 DEF Send
<1>13. ASSUME NEW i \in 1..Latest, Handle(i) PROVE Covered(p)'
    BY <1>13, TicksHandled
<1>14. ASSUME NEW i \in 1..Latest, Ends(i) \/ Hangs(i) \/ Crash(i)
       PROVE  Covered(p)'
    <2>1. enclaves[i] \in EnclaveType /\ i \in DOMAIN enclaves
          /\ NoRequest \in Requests
        BY EnclaveFields DEF TypeOK, Latest
    <2>2. UNCHANGED <<pc, msg, prev, machine, weighed>>
        BY <1>14 DEF Ends, Hangs, Crash, exporter
    <2>3. Held
        <3>1. InHand(p)' = InHand(p) /\ Delta(p)' = Delta(p) /\ used' = used
            BY <2>2 DEF InHand, Delta, machine
        <3>2. QED
            BY <1>1, <3>1
    <2>4. CASE enclaves' = [enclaves EXCEPT ![i] = Gone(@)]
        <3>1. Gone(enclaves[i]) \in EnclaveType /\ Gone(enclaves[i]).ask = NoRequest
            BY <2>1 DEF Gone, EnclaveType
        <3>2. enclaves' = [enclaves EXCEPT ![i] = Gone(enclaves[i])]
            BY <2>1, <2>4
        <3>3. QED
            BY <1>4, <2>2, <2>3, <3>1, <3>2
    <2>5. CASE enclaves' = [enclaves EXCEPT ![i].state = "hung"]
        <3> DEFINE e == [enclaves[i] EXCEPT !.state = "hung"]
        <3>1. e \in EnclaveType /\ e.ask = enclaves[i].ask
            BY <2>1 DEF EnclaveType
        <3>2. enclaves' = [enclaves EXCEPT ![i] = e]
            BY <2>1, <2>5
        <3>3. QED
            BY <1>4, <2>2, <2>3, <3>1, <3>2
    <2>6. QED
        BY <1>14, <2>4, <2>5 DEF Ends, Hangs, Crash
<1>15. ASSUME NEW q \in Pids, Burn(q) \/ Exit(q) PROVE Covered(p)'
    <2>1. UNCHANGED <<pc, msg, prev, enclaves, weighed>>
        BY <1>15 DEF Burn, Exit, exporter
    <2>2. InHand(p)' = InHand(p)
        BY <2>1 DEF InHand
    <2>3. ticks[p] \in Nat \cup {None} /\ prev[p] \in Nat \cup {None}
        BY DEF TypeOK
    <2>4. Delta(p)' + used[p] <= Delta(p) + used'[p]
        <3>1. CASE ticks'[p] = ticks[p] /\ used'[p] = used[p]
            <4>1. Delta(p)' = Delta(p)
                BY <2>1, <3>1 DEF Delta
            <4>2. QED
                BY <1>1, <3>1, <4>1
        <3>2. CASE /\ ticks[p] # None
                   /\ ticks'[p] = ticks[p] + 1 /\ used'[p] = used[p] + 1
            <4>1. Delta(p)' <= Delta(p) + 1
                BY <2>1, <2>3, <3>2 DEF Delta, None
            <4>2. QED
                BY <1>1, <1>2, <3>2, <4>1
        <3>3. CASE ticks'[p] \in {0, None} /\ used'[p] = used[p]
            <4>1. Delta(p)' = 0
                BY <2>1, <2>3, <3>3 DEF Delta, None
            <4>2. QED
                BY <1>1, <3>3, <4>1
        <3>4. QED
            BY <1>15, <3>1, <3>2, <3>3, SMTT(30) DEF Burn, Exit, TypeOK
    <2>5. Held
        BY <1>1, <1>2, <2>2, <2>4
    <2>6. QED
        BY <1>3, <2>1, <2>5
<1>16. CASE UNCHANGED vars
    <2>1. UNCHANGED <<pc, msg, prev, machine, enclaves, weighed>>
        BY <1>16 DEF vars, exporter
    <2>2. InHand(p)' = InHand(p) /\ Delta(p)' = Delta(p) /\ used' = used
        BY <2>1 DEF InHand, Delta, machine
    <2>3. QED
        BY <1>1, <1>3, <2>1, <2>2
<1>17. QED
    BY <1>5, <1>6, <1>7, <1>8, <1>9, <1>11, <1>12, <1>13, <1>14, <1>15, <1>16
       DEF Next, ExporterStep, EnclaveStep

LEMMA CoveredTicks == TypeOK /\ (\A p \in Pids : Covered(p)) => TicksOnce
<1> SUFFICES ASSUME TypeOK, NEW p \in Pids, Covered(p)
             PROVE  weighed[p] <= used[p]
    BY DEF TicksOnce
<1>1. PICK f : Counts(f, p) /\ f[Latest] + InHand(p) + Delta(p) <= used[p]
    BY DEF Covered
<1>2. /\ Latest \in Nat /\ InHand(p) \in Nat /\ Delta(p) \in Nat
      /\ used[p] \in Nat /\ weighed[p] \in Nat
      /\ \A i \in 1..Latest : On(i, p) \in Nat
    BY TickTypes
<1>3. f[0] \in Nat /\ f[Latest] \in Nat /\ weighed[p] <= f[0]
    BY <1>1, <1>2 DEF Counts
<1>4. f[0] <= f[Latest]
    <2>1. CASE Latest = 0
        BY <1>3, <2>1
    <2>2. CASE Latest # 0
        <3>1. Latest \in 1..Latest
            BY <1>2, <2>2
        <3>2. f[0] + On(Latest, p) <= f[Latest] /\ On(Latest, p) \in Nat
            BY <1>1, <1>2, <3>1 DEF Counts
        <3>3. QED
            BY <1>3, <3>2
    <2>3. QED
        BY <2>1, <2>2
<1>5. QED
    BY <1>1, <1>2, <1>3, <1>4

\* The ticks that the guest's exporter reports are counted once, although a
\* request may be lost, refused, answered after its exporter was killed, or
\* handled by an enclave that an earlier run left behind, and although pids are
\* given to other processes.
THEOREM TicksChargedOnce == Spec => []TicksOnce
<1> DEFINE IInv == TypeOK /\ PlaceInv /\ \A p \in Pids : Covered(p)
<1>1. Init => IInv
    BY TypeInit, PlaceInit, TicksInit
<1>2. IInv /\ [Next]_vars => IInv'
    <2> SUFFICES ASSUME IInv, [Next]_vars PROVE IInv'
        OBVIOUS
    <2>1. TypeOK' /\ PlaceInv'
        BY TypeStep, PlaceStep
    <2>2. ASSUME NEW p \in Pids PROVE Covered(p)'
        BY <2>1, TicksStep
    <2>3. QED
        BY <2>1, <2>2
<1>3. IInv => TicksOnce
    BY CoveredTicks
<1>4. QED
    BY <1>1, <1>2, <1>3, PTL DEF Spec

=============================================================================
