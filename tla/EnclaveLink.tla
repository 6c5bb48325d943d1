----------------------------- MODULE EnclaveLink -----------------------------
(***************************************************************************)
(* An exporter and the enclave it talks to.  The exporter launches an      *)
(* enclave, or connects to a remote one, when it sends its first request,  *)
(* and keeps that connection until it ends: one request, one answer.  The  *)
(* enclave serves the first connection it gets until that ends.            *)
(*                                                                         *)
(* Three exporters do so: that of a guest ("vm", db.rs), that of the GPUs  *)
(* ("gpu", gpu_db.rs), both through sgx_vm_runner.rs, and that of the host *)
(* ("host", powercap_rapl.rs) through sgx_runner.rs, a copy of the former. *)
(* What is said of both copies is mapped to one of them.                   *)
(*                                                                         *)
(* Whether a boot is admitted and an export accepted is the subject of     *)
(* other modules; here the enclave answers what it likes.  A poll of the   *)
(* guest that finds no energy file or no metadata changes nothing.         *)
(***************************************************************************)
EXTENDS Integers, Sequences

CONSTANTS
    Pids,        \* process ids of the guest
    FaultSets,   \* which failures may come together in one behaviour
    MaxTicks,    \* bound: CPU ticks used under one pid
    MaxRuns,     \* bound: starts of the exporter
    MaxEnclaves  \* bound: enclaves started before the last one that crashes

FaultKinds ==
    { "launch",   \* the enclave's process ends before it names its port
      "connect",  \* the connection to the port it named fails
      "crash",    \* an enclave ends, or its connection breaks, at any point
      "registry", \* immudb is connected to and does not answer
      "redis",    \* Redis is, or it closes the connection within a line, which
                  \* read_line goes on reading
      "files",    \* the metadata of the guest has a hash of a wrong length
      "stop" }    \* the exporter is killed at any point

ASSUME LinkAssumption ==
    /\ FaultSets \subseteq SUBSET FaultKinds
    /\ MaxTicks \in Nat
    /\ MaxRuns \in Nat
    /\ MaxEnclaves \in Nat

VARIABLES
    setup,     \* the kind of exporter and the failures, chosen once
    pc,        \* where the exporter is
    run,       \* how often it was started
    todo,      \* what it asks for next
    msg,       \* the request it is about to send
    conn,      \* its connection: the number of an enclave, or 0
    reply,     \* the answer that has come in on it and is not read yet
    verdict,   \* BOOT_VERIFICATION
    prev,      \* prev_ticks
    enclaves,  \* every enclave there ever was
    ticks,     \* per pid: the ticks of its process
    \* history
    used,      \* per pid: ticks used by all processes that had it
    weighed    \* per pid: ticks by which it was charged energy

exporter == <<pc, run, todo, msg, conn, reply, verdict, prev>>
machine  == <<ticks, used>>
vars     == <<setup, exporter, enclaves, machine, weighed>>

None == -1  \* of a pid: no process has it; of prev_ticks: no entry

\* exporter_attests_itself, SGX_REMOTE_HOST: a GPU exporter of a host whose
\* own enclave checks the boot does not ask its own to.
Setups ==
    {s \in [kind : {"vm", "gpu", "host"}, remote : BOOLEAN,
            attests : BOOLEAN, faults : FaultSets] :
        /\ s.kind = "host" => ~s.remote
        /\ ~s.attests => s.kind = "gpu" /\ ~s.remote}

Faulty(kind) == kind \in setup.faults

-----------------------------------------------------------------------------
(* Requests and enclaves *)

Checks == {"attest", "verify"}  \* both ask for a verification of the boot

\* Sizes of a request: 1 is at most 10 MiB, 2 at most 256 MiB, 3 is more.
Sizes == 1..3
Request(op, size, weights) == [op |-> op, size |-> size, weights |-> weights]
NoWeights == [p \in Pids |-> 0]
NoRequest == Request("none", 1, NoWeights)

\* The largest request that an enclave reads.
HostCap == 2
GuestCap == 1
Cap == IF setup.kind = "host" THEN HostCap ELSE GuestCap

\* The operations that have an answer of their own; any other has -1000.
GuestOperations == {"get_nonce", "attest", "verify", "vm_export", "gpu_export"}
HostOperations  == {"get_nonce", "attest", "verify", "host_export"}
Known(op) ==
    op \in IF setup.kind = "host" THEN HostOperations ELSE GuestOperations

Exports == {"vm_export", "gpu_export", "host_export"}

\* An enclave that has named its port and waits in accept.
Enclave == [state |-> "listening", peer |-> 0, ask |-> NoRequest,
            admitted |-> FALSE, recorded |-> FALSE]

Gone(e)  == [e EXCEPT !.state = "gone", !.ask = NoRequest]
Taken(e) == [e EXCEPT !.state = "serving", !.peer = run]
Alive(i) == enclaves[i].state # "gone"
Latest   == Len(enclaves)

\* The enclave has accepted the connection the exporter holds.
Joined(i) == conn = i /\ enclaves[i].peer = run

Init ==
    /\ setup \in Setups
    /\ pc = "down"
    /\ run = 0
    /\ todo = "nothing"
    /\ msg = NoRequest
    /\ conn = 0
    /\ reply = "none"
    /\ verdict = "none"
    /\ prev = [p \in Pids |-> None]
    /\ enclaves = IF setup.remote THEN <<Enclave>> ELSE << >>
    /\ ticks = [p \in Pids |-> 0]
    /\ used = [p \in Pids |-> 0]
    /\ weighed = [p \in Pids |-> 0]

-----------------------------------------------------------------------------
(* What the exporter does with the outcome of a request *)

\* A boot that is not admitted ends the exporter.  The guest's one is dropped
\* then, which stops a local enclave and waits for it to end.
End ==
    /\ UNCHANGED todo
    /\ IF setup.kind = "vm" /\ conn # 0 /\ ~setup.remote
       THEN pc' = "closing" /\ UNCHANGED conn
       ELSE pc' = "down" /\ conn' = 0

Go(next) ==
    /\ pc' = "ready"
    /\ todo' = next
    /\ UNCHANGED conn

\* Mutant: a broken connection is forgotten, and the next request opens one.
FailedReopens ==
    CASE todo = "export"    -> pc' = "ready" /\ conn' = 0 /\ UNCHANGED todo
      [] todo = "get_nonce" -> Go("verify")
      [] OTHER              -> End

\* No answer.  Nothing reopens the connection: it is set once and stays.
Failed ==
    CASE todo = "export"    -> Go("export")
      [] todo = "get_nonce" -> Go("verify")
      [] OTHER              -> End

\* An answer: only a boot that was admitted lets the exporter go on.
Answered(status) ==
    CASE todo = "export"                  -> Go("export")
      [] todo = "get_nonce"               -> Go("verify")
      [] todo = "attest" /\ status = "ok" -> Go("verify")
      [] todo = "verify" /\ status = "ok" -> Go("export")
      [] OTHER                            -> End

Asks(m) ==
    /\ msg' = m
    /\ pc' = IF conn = 0 THEN "opening" ELSE "sending"

-----------------------------------------------------------------------------
(* The exporter *)

\* main: the host attests with its TPM before it verifies, if built to; a
\* runner asks for a nonce first, if there may be a quote.
FirstSteps ==
    CASE setup.kind = "host" -> {"attest", "verify"}
      [] setup.attests       -> {"get_nonce", "verify"}
      [] OTHER               -> {"export"}

Start ==
    /\ pc = "down"
    /\ run < MaxRuns
    /\ pc' = "ready"
    /\ run' = run + 1
    /\ todo' \in FirstSteps
    /\ msg' = NoRequest
    /\ reply' = "none"
    /\ verdict' = "none"
    /\ prev' = [p \in Pids |-> None]
    /\ UNCHANGED <<setup, conn, enclaves, machine, weighed>>

AskNonce ==
    /\ pc = "ready"
    /\ todo = "get_nonce"
    /\ Asks(Request("get_nonce", 1, NoWeights))
    /\ UNCHANGED <<setup, run, todo, conn, reply, verdict, prev, enclaves,
                   machine, weighed>>

\* The request carries the IMA log, however long it is.
AskVerify ==
    /\ pc = "ready"
    /\ todo \in Checks
    /\ verdict = "none"
    /\ \E size \in Sizes : Asks(Request(todo, size, NoWeights))
    /\ UNCHANGED <<setup, run, todo, conn, reply, verdict, prev, enclaves,
                   machine, weighed>>

\* verify_in_sgx_enclave: one answer serves for the life of the process.
VerifyCached ==
    /\ pc = "ready"
    /\ todo \in Checks
    /\ verdict # "none"
    /\ Answered(verdict)
    /\ UNCHANGED <<setup, run, msg, reply, verdict, prev, enclaves, machine,
                   weighed>>

\* Mutant: a process not seen before is charged for all its ticks.
DeltaFromZero(p) ==
    IF ticks[p] = None \/ ticks[p] < prev[p] THEN 0
    ELSE IF prev[p] = None THEN ticks[p] ELSE ticks[p] - prev[p]

\* Mutant: the difference does not saturate.
DeltaWraps(p) ==
    IF ticks[p] = None \/ prev[p] = None THEN 0 ELSE ticks[p] - prev[p]

\* The ticks of a process since the last poll; none if it was not seen then.
\* If its pid was another's then, what it used beyond the other's count.
Delta(p) ==
    IF ticks[p] = None \/ prev[p] = None \/ ticks[p] < prev[p]
    THEN 0 ELSE ticks[p] - prev[p]

\* A poll of the guest: the ticks are taken before the lengths of the hashes
\* are checked, and before it is known whether the enclave uses them.
Poll ==
    /\ pc = "ready"
    /\ todo = "export"
    /\ setup.kind = "vm"
    /\ prev' = ticks
    /\ \/ Asks(Request("vm_export", 1, [p \in Pids |-> Delta(p)]))
       \/ Faulty("files") /\ UNCHANGED <<pc, msg>>
    /\ UNCHANGED <<setup, run, todo, conn, reply, verdict, enclaves, machine,
                   weighed>>

\* A cycle of the other two, process_cycle and iterate.
Cycle ==
    /\ pc = "ready"
    /\ todo = "export"
    /\ setup.kind # "vm"
    /\ Asks(Request(IF setup.kind = "gpu" THEN "gpu_export" ELSE "host_export",
                    1, NoWeights))
    /\ UNCHANGED <<setup, run, todo, conn, reply, verdict, prev, enclaves,
                   machine, weighed>>

\* shutdown_vm_enclave has sent a length of 0; the child has ended.
Closed ==
    /\ pc = "closing"
    /\ ~Alive(conn)
    /\ pc' = "down"
    /\ conn' = 0
    /\ UNCHANGED <<setup, run, todo, msg, reply, verdict, prev, enclaves,
                   machine, weighed>>

\* The exporter is killed; its connection is closed.
Kill ==
    /\ pc # "down"
    /\ Faulty("stop")
    /\ pc' = "down"
    /\ conn' = 0
    /\ UNCHANGED <<setup, run, todo, msg, reply, verdict, prev, enclaves,
                   machine, weighed>>

-----------------------------------------------------------------------------
(* The connection *)

\* spawn_enclave_with_tcp: the enclave prints its port and waits.
Launch ==
    /\ pc = "opening"
    /\ ~setup.remote
    /\ enclaves' = Append(enclaves, Enclave)
    /\ pc' = "connecting"
    /\ UNCHANGED <<setup, run, todo, msg, conn, reply, verdict, prev, machine,
                   weighed>>

\* ... or it cannot be started or ends without printing one.
LaunchFails ==
    /\ pc = "opening"
    /\ ~setup.remote
    /\ Faulty("launch")
    /\ Failed
    /\ UNCHANGED <<setup, run, msg, reply, verdict, prev, enclaves, machine,
                   weighed>>

Connected(i) ==
    /\ conn' = i
    /\ enclaves' = IF enclaves[i].state = "listening"
                   THEN [enclaves EXCEPT ![i] = Taken(@)] ELSE enclaves
    /\ pc' = "sending"
    /\ UNCHANGED todo

Connect ==
    /\ pc = "connecting"
    /\ Alive(Latest)
    /\ Connected(Latest)
    /\ UNCHANGED <<setup, run, msg, reply, verdict, prev, machine, weighed>>

\* The runner waits for its child to end, which waits in accept.
ConnectFails ==
    /\ pc = "connecting"
    /\ Faulty("connect") \/ ~Alive(Latest)
    /\ pc' = "waiting for child"
    /\ UNCHANGED <<setup, run, todo, msg, conn, reply, verdict, prev, enclaves,
                   machine, weighed>>

ChildEnded ==
    /\ pc = "waiting for child"
    /\ ~Alive(Latest)
    /\ Failed
    /\ UNCHANGED <<setup, run, msg, reply, verdict, prev, enclaves, machine,
                   weighed>>

\* connect_to_remote_enclave: a remote enclave that serves another connection
\* does not refuse this one, but never accepts it.
ConnectRemote ==
    /\ pc = "opening"
    /\ setup.remote
    /\ IF Alive(Latest) THEN Connected(Latest)
                        ELSE Failed /\ UNCHANGED enclaves
    /\ UNCHANGED <<setup, run, msg, reply, verdict, prev, machine, weighed>>

\* send_tls_request: the request goes out ...
Send ==
    /\ pc = "sending"
    /\ pc' = "waiting"
    /\ enclaves' = IF Alive(conn) /\ Joined(conn)
                   THEN [enclaves EXCEPT ![conn].ask = msg] ELSE enclaves
    /\ UNCHANGED <<setup, run, todo, msg, conn, reply, verdict, prev, machine,
                   weighed>>

\* ... and its answer comes in, without a limit of time.
Receive ==
    /\ pc = "waiting"
    /\ reply # "none"
    /\ reply' = "none"
    /\ verdict' = IF setup.kind = "host" /\ todo \in Checks THEN reply
                                                            ELSE verdict
    /\ Answered(reply)
    /\ UNCHANGED <<setup, run, msg, prev, enclaves, machine, weighed>>

\* The connection breaks before the answer comes in.
Broken ==
    /\ pc = "waiting"
    /\ reply = "none"
    /\ ~Alive(conn)
    /\ Failed
    /\ UNCHANGED <<setup, run, msg, reply, verdict, prev, enclaves, machine,
                   weighed>>

-----------------------------------------------------------------------------
(* An enclave *)

Asked(i) == enclaves[i].state = "serving" /\ enclaves[i].ask # NoRequest

Statuses(op) ==
    CASE op \in {"get_nonce"} \cup Checks -> {"ok", "refused"}
      [] op = "vm_export"                 -> {"ok", "refused", "skipped"}
      [] op \in Exports                   -> {"ok", "refused"}

\* The enclave after it gave an answer to its request.
Done(e, status) ==
    [e EXCEPT !.ask = NoRequest,
              !.admitted = @ \/ (e.ask.op \in Checks /\ status = "ok"),
              !.recorded = @ \/ (e.ask.op \in Exports /\ status = "ok")]

\* handle_single_tls_request: what the handler does, and its answer.
Handle(i) ==
    /\ Asked(i)
    /\ enclaves[i].ask.size <= Cap
    /\ LET m == enclaves[i].ask IN
       \E status \in IF Known(m.op) THEN Statuses(m.op) ELSE {"unknown"} :
         /\ reply' = IF Joined(i) THEN status ELSE reply
         /\ enclaves' = [enclaves EXCEPT ![i] = Done(@, status)]
         /\ weighed' = [p \in Pids |-> IF status = "ok"
                                       THEN weighed[p] + m.weights[p]
                                       ELSE weighed[p]]
    /\ UNCHANGED <<setup, pc, run, todo, msg, conn, verdict, prev, machine>>

\* Mutant: a request that is too long is left unread.
EndsNotTooLong(i) ==
    /\ enclaves[i].state = "serving"
    /\ enclaves[i].ask = NoRequest
    /\ ~Joined(i) \/ pc = "closing"
    /\ enclaves' = [enclaves EXCEPT ![i] = Gone(@)]
    /\ UNCHANGED <<setup, exporter, machine, weighed>>

\* main returns when it can read no further request, when a request is too
\* long and when it reads a length of 0.
Ends(i) ==
    /\ enclaves[i].state = "serving"
    /\ \/ enclaves[i].ask.size > Cap
       \/ enclaves[i].ask = NoRequest /\ ~Joined(i)
       \/ enclaves[i].ask = NoRequest /\ pc = "closing"
    /\ enclaves' = [enclaves EXCEPT ![i] = Gone(@)]
    /\ UNCHANGED <<setup, exporter, machine, weighed>>

\* The servers that a handler waits for, without a limit of time: immudb for
\* registered hashes and the enrolment of GPUs, Redis for a batch that is full.
\* The enclave of the host has no batches.
Awaits(op) ==
    CASE op \in Checks       -> {"registry"}
      [] op = "vm_export"    -> {"redis"}
      [] op = "gpu_export"   -> {"registry", "redis"}
      [] OTHER               -> {}

\* A handler waits for a server that does not answer.
Hangs(i) ==
    /\ Asked(i)
    /\ Awaits(enclaves[i].ask.op) \cap setup.faults # {}
    /\ enclaves' = [enclaves EXCEPT ![i].state = "hung"]
    /\ UNCHANGED <<setup, exporter, machine, weighed>>

\* An answer on its way may be lost with the connection.
Crash(i) ==
    /\ Faulty("crash")
    /\ Alive(i)
    /\ Latest < MaxEnclaves
    /\ enclaves' = [enclaves EXCEPT ![i] = Gone(@)]
    /\ reply' \in IF Joined(i) THEN {reply, "none"} ELSE {reply}
    /\ UNCHANGED <<setup, pc, run, todo, msg, conn, verdict, prev, machine,
                   weighed>>

\* Somebody starts a remote enclave again.
StartRemote ==
    /\ setup.remote
    /\ ~Alive(Latest)
    /\ Latest < MaxEnclaves
    /\ enclaves' = Append(enclaves, Enclave)
    /\ UNCHANGED <<setup, exporter, machine, weighed>>

-----------------------------------------------------------------------------
(* The processes of the guest *)

Burn(p) ==
    /\ setup.kind = "vm"
    /\ ticks[p] # None
    /\ used[p] < MaxTicks
    /\ ticks' = [ticks EXCEPT ![p] = @ + 1]
    /\ used' = [used EXCEPT ![p] = @ + 1]
    /\ UNCHANGED <<setup, exporter, enclaves, weighed>>

\* A process ends; another one may be given its pid.
Exit(p) ==
    /\ setup.kind = "vm"
    /\ ticks' = [ticks EXCEPT ![p] = IF @ = None THEN 0 ELSE None]
    /\ UNCHANGED <<setup, exporter, enclaves, used, weighed>>

-----------------------------------------------------------------------------

ExporterStep ==
    \/ AskNonce \/ AskVerify \/ VerifyCached \/ Poll \/ Cycle \/ Closed
    \/ Launch \/ LaunchFails \/ Connect \/ ConnectFails \/ ChildEnded
    \/ ConnectRemote \/ Send \/ Receive \/ Broken

EnclaveStep(i) == Handle(i) \/ Ends(i) \/ Hangs(i)

Next ==
    \/ Start \/ ExporterStep \/ Kill \/ StartRemote
    \/ \E i \in 1..Latest : EnclaveStep(i) \/ Crash(i)
    \/ \E p \in Pids : Burn(p) \/ Exit(p)

\* The exporter and its enclaves run; nobody has to start anything again.
Fairness ==
    /\ WF_vars(ExporterStep)
    /\ \A i \in 1..(MaxRuns + MaxEnclaves) :
          WF_vars(i \in 1..Latest /\ EnclaveStep(i))

Spec == Init /\ [][Next]_vars /\ Fairness

-----------------------------------------------------------------------------
(* Properties *)

Places == {"down", "ready", "opening", "connecting", "waiting for child",
           "sending", "waiting", "closing"}
Replies == {"none", "ok", "refused", "skipped", "unknown"}
Requests == [op : GuestOperations \cup HostOperations \cup {"none"},
             size : Sizes, weights : [Pids -> Nat]]
EnclaveType == [state : {"listening", "serving", "hung", "gone"}, peer : Nat,
                ask : Requests, admitted : BOOLEAN, recorded : BOOLEAN]

\* Every variable keeps its type; what a request weighs is never negative,
\* which fails if the ticks of a pid are subtracted from those of a younger
\* process that was given the same one.
TypeOK ==
    /\ setup \in Setups
    /\ pc \in Places
    /\ run \in 0..MaxRuns
    /\ todo \in {"nothing", "get_nonce", "export"} \cup Checks
    /\ msg \in Requests
    /\ conn \in 0..Latest
    /\ reply \in Replies
    /\ verdict \in Replies
    /\ prev \in [Pids -> Nat \cup {None}]
    /\ enclaves \in Seq(EnclaveType)
    /\ ticks \in [Pids -> Nat \cup {None}]
    /\ used \in [Pids -> Nat]
    /\ weighed \in [Pids -> Nat]

\* The enclave that records energy is the one that admitted the boot of the
\* exporter that sent it.  No enclave checks this itself: it holds because a
\* connection that broke is never opened again, by any of the exporters, so
\* that the price of it is that a failed enclave stops the export for good.
ServedAfterBoot ==
    \A i \in 1..Latest :
        setup.attests /\ enclaves[i].recorded => enclaves[i].admitted

\* No tick of a process is charged for twice, whatever is lost or refused,
\* over restarts of the exporter and the enclave and when a pid is reused.
TicksOnce == \A p \in Pids : weighed[p] <= used[p]

\* Unless a connection to a listening enclave fails, whose process is then
\* waited for, or a server that the enclave of this exporter asks does not
\* answer, no exporter waits for ever, and no enclave outlives the exporter it
\* serves.  A check of the boot and an enrolment end only with immudb, a batch
\* of a guest or of its GPUs only with Redis; the host's enclave has none.
NobodyWaits ==
    /\ setup.faults \cap {"connect", "registry"} = {}
    /\ "redis" \in setup.faults => setup.kind = "host"
    =>
        /\ []<>(pc \in {"ready", "down"})
        /\ []<>(\A i \in 1..Latest :
                    enclaves[i].state = "serving" => Joined(i))

=============================================================================
