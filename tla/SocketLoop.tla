----------------------------- MODULE SocketLoop -----------------------------
(***************************************************************************)
(* The accept loop of the socket daemon (privileged/socket.rs): one thread *)
(* multiplexes a bounded table of nonblocking connections, dispatches one  *)
(* complete request of a client at a time, polls the channels of worker    *)
(* threads, and ends on an explicit shutdown or when idle.                 *)
(*                                                                         *)
(* Data is cut down to what the loop looks at.  A stream is a sequence of  *)
(* chunks: "part" carries no newline, every other chunk ends one request   *)
(* and is named after what the request asks for; a "torn" part has lost a  *)
(* byte.  A response is ResponseUnits units long and the kernel's send     *)
(* buffer holds one.                                                       *)
(*                                                                         *)
(* Of the clock the model keeps which deadlines have passed.  Deadlines    *)
(* pass while the loop sleeps; what needs service is served sooner than    *)
(* that (see Expire), so a deadline that is renewed has not passed.        *)
(***************************************************************************)
EXTENDS Naturals, Sequences, FiniteSets

CONSTANTS
  Clients,        \* connections
  Processes,      \* client processes
  ProcOf,         \* the process that opens a connection
  Asks,           \* the chunks a connection may send
  Cli,            \* connections of the wgd command: one request at a time, answers read
  Prompt,         \* of those, the ones that carry a single request, sent at once
  Deaf,           \* connections whose client never reads
  MaxSent,        \* bound: chunks a connection sends
  MaxClients,     \* MAX_CLIENTS
  MaxInput,       \* MAX_REQUEST_BYTES, in chunks
  ResponseUnits,  \* size of a response, in send buffers
  AllowShutdown,  \* --autostarted
  IdleExits,      \* an idle timeout is configured
  Activated,      \* launchd owns the listening socket
  AcceptFaults    \* accept() or getpeereid() may fail

Requests == {"imm", "work", "acquire", "release", "shutdown"}
Chunks   == Requests \cup {"part", "torn", "bad"}

ASSUME ClientsAssumption ==
  /\ ProcOf \in [Clients -> Processes]
  /\ Asks \in [Clients -> SUBSET (Requests \cup {"part"})]
  /\ Prompt \subseteq Cli
  /\ Cli \subseteq Clients \ Deaf
  /\ \A c \in Cli : "part" \notin Asks[c]
  /\ \A c \in Prompt, d \in Clients : ProcOf[c] = ProcOf[d] => d \in Cli

ASSUME LimitsAssumption ==
  /\ MaxSent \in Nat /\ MaxClients \in Nat \ {0} /\ MaxInput \in Nat \ {0}
  /\ ResponseUnits \in Nat \ {0}
  /\ AllowShutdown \in BOOLEAN /\ IdleExits \in BOOLEAN
  /\ Activated \in BOOLEAN /\ AcceptFaults \in BOOLEAN

VARIABLES
  place,       \* where the loop is
  quota,       \* accept() calls left in this pass
  todo,        \* clients still to be stepped in this pass
  conn,        \* life of a connection
  hung,        \* connections the client has closed
  wire,        \* chunks sent and not yet read by the daemon
  input, out, pending, late,      \* Client: input, output, worker channel, deadline passed
  buf,         \* units of a response in the kernel's send buffer
  sent, dispatched, got,          \* history: chunks sent, requests dispatched, units read
  leases, shutdown_requested,     \* ControlState
  granted,     \* history: processes whose lease was acquired and that sent no release
  alive,       \* client processes whose pid answers signal 0
  idle,        \* the idle timeout has elapsed since the last dispatch
  background   \* boot reconciliation is running

controlVars == <<leases, shutdown_requested, granted>>
loopVars    == <<place, quota, todo>>
clientVars  == <<conn, input, out, pending>>
vars == <<loopVars, clientVars, late, hung, wire, buf, sent, dispatched, got,
          controlVars, alive, idle, background>>

Open    == {c \in Clients : conn[c] = "open"}
Backlog == {c \in Clients : conn[c] = "backlog"}

\* Every response owed to c has been read by it.
Answered(c) == got[c] = dispatched[c] * ResponseUnits /\ dispatched[c] = sent[c]

Min2(a, b) == IF a < b THEN a ELSE b

-----------------------------------------------------------------------------
(* Clients.                                                                *)

\* With launchd the socket exists whether or not the daemon runs.
Connect(c) ==
  /\ conn[c] = "out"
  /\ ProcOf[c] \in alive
  /\ Activated \/ place # "down"
  /\ conn' = [conn EXCEPT ![c] = "backlog"]
  /\ UNCHANGED <<loopVars, input, out, pending, late, hung, wire, buf, sent, dispatched,
                 got, controlVars, alive, idle, background>>

Sending(c, chunk) ==
  /\ wire' = [wire EXCEPT ![c] = Append(@, chunk)]
  /\ sent' = [sent EXCEPT ![c] = @ + 1]
  /\ granted' = IF chunk = "release" THEN granted \ {ProcOf[c]} ELSE granted
  /\ UNCHANGED <<loopVars, clientVars, late, hung, buf, dispatched, got, leases,
                 shutdown_requested, alive, idle, background>>

Send(c) ==
  /\ conn[c] \in {"backlog", "open"}
  /\ c \notin hung
  /\ sent[c] < MaxSent
  /\ c \in Cli => \A d \in Clients : ProcOf[d] = ProcOf[c] /\ conn[d] # "out" => Answered(d) \/ conn[d] = "gone"
  /\ c \in Prompt => sent[c] = 0
  /\ \E chunk \in Asks[c] : Sending(c, chunk)

Receive(c) ==
  /\ c \notin Deaf \cup hung
  /\ buf[c] > 0
  /\ buf' = [buf EXCEPT ![c] = 0]
  /\ got' = [got EXCEPT ![c] = @ + buf[c]]
  /\ UNCHANGED <<loopVars, clientVars, late, hung, wire, sent, dispatched, controlVars,
                 alive, idle, background>>

\* The wgd command closes a connection once it is answered or finds it closed.
Hangup(c) ==
  /\ conn[c] # "out"
  /\ c \notin hung
  /\ c \in Prompt => (sent[c] > 0 /\ Answered(c)) \/ (conn[c] = "gone" /\ buf[c] = 0)
  /\ hung' = hung \cup {c}
  /\ UNCHANGED <<loopVars, clientVars, late, wire, buf, sent, dispatched, got, controlVars,
                 alive, idle, background>>

\* An exiting process closes its sockets before its pid disappears.
Die(p) ==
  /\ p \in alive
  /\ \A c \in Clients : ProcOf[c] = p => conn[c] = "out" \/ c \in hung
  /\ alive' = alive \ {p}
  /\ UNCHANGED <<loopVars, clientVars, late, hung, wire, buf, sent, dispatched, got,
                 controlVars, idle, background>>

-----------------------------------------------------------------------------
(* The accept loop of a pass.                                              *)

AcceptOne(c) ==
  /\ place = "accept"
  /\ quota > 0
  /\ conn[c] = "backlog"
  /\ quota' = quota - 1
  /\ conn' = [conn EXCEPT ![c] = IF Cardinality(Open) < MaxClients THEN "open" ELSE "gone"]
  /\ UNCHANGED <<place, todo, input, out, pending, late, hung, wire, buf, sent, dispatched,
                 got, controlVars, alive, idle, background>>

AcceptDone ==
  /\ place = "accept"
  /\ quota = 0 \/ Backlog = {}
  /\ place' = "step"
  /\ todo' = Open
  /\ UNCHANGED <<quota, clientVars, late, hung, wire, buf, sent, dispatched, got,
                 controlVars, alive, idle, background>>

\* The process ends: its connections close, and so does a socket it bound itself.
End ==
  /\ place' = "down"
  /\ todo' = {}
  /\ conn' = [c \in Clients |->
                IF conn[c] = "open" \/ (conn[c] = "backlog" /\ ~Activated) THEN "gone" ELSE conn[c]]

\* A failed accept() or getpeereid() is returned from serve and ends the daemon,
\* and the leases with it.
AcceptError ==
  /\ AcceptFaults
  /\ place = "accept"
  /\ Backlog # {}
  /\ End
  /\ granted' = {}
  /\ UNCHANGED <<quota, input, out, pending, late, hung, wire, buf, sent, dispatched, got,
                 leases, shutdown_requested, alive, idle, background>>

-----------------------------------------------------------------------------
(* One step of a client.                                                   *)

\* The client has closed its end and everything it sent has been read.
AtEof(c) == c \in hung /\ wire[c] = <<>>

Complete(s) == \E n \in 1..Len(s) : s[n] \notin {"part", "torn"}

\* Position of the first newline.
End1(s) == CHOOSE n \in 1..Len(s) :
             /\ s[n] \notin {"part", "torn"}
             /\ \A m \in 1..n - 1 : s[m] \in {"part", "torn"}

\* What the first complete frame parses to.
FirstRequest(s) ==
  IF \E n \in 1..End1(s) : s[n] = "torn" THEN "bad" ELSE s[End1(s)]

\* Reading one byte damages the first chunk or uses it up.
Probed(s) ==
  IF s = <<>> THEN {s}
  ELSE {Tail(s), <<IF Head(s) \in {"part", "torn"} THEN "torn" ELSE "bad">> \o Tail(s)}

Stepping(c) ==
  /\ place = "step"
  /\ c \in todo
  /\ todo' = todo \ {c}
  /\ UNCHANGED <<place, quota, late, hung, sent, got, alive, background>>

Drop(c) ==
  /\ conn' = [conn EXCEPT ![c] = "gone"]
  /\ UNCHANGED <<input, out, pending, wire, buf, dispatched, controlVars, idle>>

\* write() moves what fits into the send buffer; writing to a closed peer fails.
Write(c, units) ==
  /\ out' = [out EXCEPT ![c] = IF c \in hung THEN units ELSE units - Min2(units, 1 - buf[c])]
  /\ buf' = [buf EXCEPT ![c] = IF c \in hung THEN @ ELSE @ + Min2(units, 1 - @)]
  /\ conn' = [conn EXCEPT ![c] = IF c \in hung THEN "gone" ELSE @]

NoWrite == UNCHANGED <<out, buf, conn>>

StepLate(c) ==
  /\ Stepping(c)
  /\ c \in late
  /\ Drop(c)

StepPendingEnd(c) ==
  /\ Stepping(c)
  /\ c \notin late
  /\ pending[c] # "no"
  /\ AtEof(c) \/ pending[c] = "dead"
  /\ Drop(c)

\* Mutant: the channel is kept after its response was taken.
StepPendingAgain(c) ==
  /\ Stepping(c)
  /\ c \notin late
  /\ pending[c] \in {"busy", "done"}
  /\ ~AtEof(c)
  /\ IF pending[c] = "done" THEN Write(c, ResponseUnits) ELSE NoWrite
  /\ UNCHANGED <<wire, input, pending, dispatched, controlVars, idle>>

StepPending(c) ==
  /\ Stepping(c)
  /\ c \notin late
  /\ pending[c] \in {"busy", "done"}
  /\ ~AtEof(c)
  /\ wire' \in {[wire EXCEPT ![c] = s] : s \in Probed(wire[c])}
  /\ IF pending[c] = "done"
       THEN Write(c, ResponseUnits) /\ pending' = [pending EXCEPT ![c] = "no"]
       ELSE NoWrite /\ UNCHANGED pending
  /\ UNCHANGED <<input, dispatched, controlVars, idle>>

Live(ls) == ls \cap alive

\* Mutant: a release clears every lease.
ControlClears(c, request) ==
  LET p == ProcOf[c] IN
  /\ leases' = CASE request = "acquire" -> Live(leases) \cup {p}
                 [] request = "release" -> {}
                 [] OTHER -> leases
  /\ shutdown_requested' = (shutdown_requested \/ (request = "shutdown" /\ AllowShutdown))
  /\ granted' = IF request = "acquire" THEN granted \cup {p} ELSE granted

\* dispatch of a request that is answered at once, seen from the control state.
Control(c, request) ==
  LET p == ProcOf[c] IN
  /\ leases' = CASE request = "acquire"  -> Live(leases) \cup {p}
                 [] request = "release"  -> Live(leases \ {p})
                 [] request = "shutdown" /\ AllowShutdown -> Live(leases)
                 [] OTHER -> leases
  /\ shutdown_requested' = (shutdown_requested \/ (request = "shutdown" /\ AllowShutdown))
  /\ granted' = IF request = "acquire" THEN granted \cup {p} ELSE granted

\* A valid request is dispatched, an invalid one answered with an error.
Dispatch(c, request) ==
  /\ dispatched' = [dispatched EXCEPT ![c] = @ + 1]
  /\ idle' = FALSE
  /\ Control(c, request)
  /\ IF request = "work"
       THEN NoWrite /\ pending' = [pending EXCEPT ![c] = "busy"]
       ELSE Write(c, ResponseUnits) /\ UNCHANGED pending

StepReadEnd(c) ==
  /\ Stepping(c)
  /\ c \notin late
  /\ pending[c] = "no" /\ out[c] = 0
  /\ AtEof(c)
  /\ Drop(c)

\* One read() of any length, then the first complete frame, if any, is handled.
StepRead(c) ==
  /\ Stepping(c)
  /\ c \notin late
  /\ pending[c] = "no" /\ out[c] = 0
  /\ ~AtEof(c)
  /\ \E n \in (IF wire[c] = <<>> THEN {0} ELSE 1..Len(wire[c])) :
       LET inp == input[c] \o SubSeq(wire[c], 1, n) IN
       IF Len(inp) > MaxInput THEN Drop(c)
       ELSE
       /\ wire' = [wire EXCEPT ![c] = SubSeq(@, n + 1, Len(@))]
       /\ IF Complete(inp)
            THEN /\ input' = [input EXCEPT ![c] = SubSeq(inp, End1(inp) + 1, Len(inp))]
                 /\ Dispatch(c, FirstRequest(inp))
            ELSE /\ input' = [input EXCEPT ![c] = inp]
                 /\ NoWrite
                 /\ UNCHANGED <<pending, dispatched, controlVars, idle>>

StepWrite(c) ==
  /\ Stepping(c)
  /\ c \notin late
  /\ pending[c] = "no" /\ out[c] > 0
  /\ Write(c, out[c])
  /\ UNCHANGED <<input, pending, wire, dispatched, controlVars, idle>>

Step(c) == \/ StepLate(c) \/ StepPendingEnd(c) \/ StepPending(c)
           \/ StepReadEnd(c) \/ StepRead(c) \/ StepWrite(c)

StepDone ==
  /\ place = "step"
  /\ todo = {}
  /\ place' = "exit"
  /\ UNCHANGED <<quota, todo, clientVars, late, hung, wire, buf, sent, dispatched, got,
                 controlVars, alive, idle, background>>

-----------------------------------------------------------------------------
(* The end of a pass: leave, or sleep in poll().                           *)

Resting == Open = {} /\ ~background

ShutdownDue == AllowShutdown /\ shutdown_requested

ExitOnShutdown ==
  /\ place = "exit"
  /\ Resting
  /\ ShutdownDue /\ Live(leases) = {}
  /\ End
  /\ leases' = {}
  /\ UNCHANGED <<quota, input, out, pending, late, hung, wire, buf, sent, dispatched, got,
                 shutdown_requested, granted, alive, idle, background>>

ExitOnIdle ==
  /\ place = "exit"
  /\ Resting
  /\ ~(ShutdownDue /\ Live(leases) = {})
  /\ IdleExits /\ idle
  /\ End
  /\ leases' = IF ShutdownDue THEN Live(leases) ELSE leases
  /\ UNCHANGED <<quota, input, out, pending, late, hung, wire, buf, sent, dispatched, got,
                 shutdown_requested, granted, alive, idle, background>>

Stay ==
  /\ place = "exit"
  /\ ~(Resting /\ ((ShutdownDue /\ Live(leases) = {}) \/ (IdleExits /\ idle)))
  /\ place' = "wait"
  /\ leases' = IF Resting /\ ShutdownDue THEN Live(leases) ELSE leases
  /\ UNCHANGED <<quota, todo, clientVars, late, hung, wire, buf, sent, dispatched, got,
                 shutdown_requested, granted, alive, idle, background>>

\* Mutant: the sleep is not shortened for workers.
SleepUncapped ==
  /\ place = "wait"
  /\ place' = "poll"
  /\ UNCHANGED <<quota, todo, clientVars, late, hung, wire, buf, sent, dispatched, got,
                 controlVars, alive, idle, background>>

\* wait_for_io: a channel or the boot thread cannot wake poll(), so while one of
\* them is outstanding the sleep is a nap of PENDING_POLL_INTERVAL.
Sleep ==
  /\ place = "wait"
  /\ place' = IF background \/ \E c \in Open : pending[c] # "no" THEN "nap" ELSE "poll"
  /\ UNCHANGED <<quota, todo, clientVars, late, hung, wire, buf, sent, dispatched, got,
                 controlVars, alive, idle, background>>

Asleep == place \in {"poll", "nap"}

\* Mutant: every connection is watched for input only.
FdReadyInput(c) == c \in hung \/ (pending[c] = "no" /\ wire[c] # <<>>)

\* poll() reports the connection: hang-ups always, otherwise what it waits for.
FdReady(c) ==
  \/ c \in hung
  \/ pending[c] = "no" /\ out[c] = 0 /\ wire[c] # <<>>
  \/ pending[c] = "no" /\ out[c] > 0 /\ buf[c] = 0

Wakes ==
  \/ Backlog # {}
  \/ \E c \in Open : FdReady(c) \/ c \in late
  \/ place = "nap"
  \/ Open = {} /\ IdleExits /\ idle

Wake ==
  /\ Asleep
  /\ Wakes
  /\ place' = "accept"
  /\ quota' = MaxClients
  /\ UNCHANGED <<todo, clientVars, late, hung, wire, buf, sent, dispatched, got,
                 controlVars, alive, idle, background>>

\* A deadline passes only for a client the next pass would not serve: that pass
\* is at most PENDING_POLL_INTERVAL away when the loop is about to wake.
NeedsNothing(c) ==
  /\ ~FdReady(c)
  /\ pending[c] \notin {"done", "dead"}
  /\ Wakes => ~Complete(input[c])

\* A prompt client sends its request and reads the answer well within IO_TIMEOUT.
Expire(c) ==
  /\ Asleep
  /\ conn[c] = "open"
  /\ c \notin late
  /\ NeedsNothing(c)
  /\ c \in Prompt => sent[c] > 0 /\ buf[c] = 0
  /\ late' = late \cup {c}
  /\ UNCHANGED <<loopVars, clientVars, hung, wire, buf, sent, dispatched, got,
                 controlVars, alive, idle, background>>

IdleElapse ==
  /\ IdleExits
  /\ Asleep
  /\ ~idle
  /\ idle' = TRUE
  /\ UNCHANGED <<loopVars, clientVars, late, hung, wire, buf, sent, dispatched, got,
                 controlVars, alive, background>>

-----------------------------------------------------------------------------
(* Other threads of the daemon, and launchd.                               *)

WorkerEnds(c, how) ==
  /\ conn[c] = "open"
  /\ pending[c] = "busy"
  /\ pending' = [pending EXCEPT ![c] = how]
  /\ UNCHANGED <<loopVars, conn, input, out, late, hung, wire, buf, sent, dispatched, got,
                 controlVars, alive, idle, background>>

WorkerDone(c) == WorkerEnds(c, "done")

\* The sender is dropped without a response: the thread panicked.
WorkerDies(c) == WorkerEnds(c, "dead")

BackgroundDone ==
  /\ background
  /\ place # "down"
  /\ background' = FALSE
  /\ UNCHANGED <<loopVars, clientVars, late, hung, wire, buf, sent, dispatched, got,
                 controlVars, alive, idle>>

\* launchd starts the daemon for a waiting connection, the command by itself.
Launch ==
  /\ place = "down"
  /\ Activated => Backlog # {}
  /\ place' = "accept"
  /\ quota' = MaxClients
  /\ leases' = {}
  /\ shutdown_requested' = FALSE
  /\ granted' = {}
  /\ idle' = FALSE
  /\ background' = TRUE
  /\ UNCHANGED <<todo, clientVars, late, hung, wire, buf, sent, dispatched, got, alive>>

-----------------------------------------------------------------------------
Init ==
  /\ place = "down"
  /\ quota = 0
  /\ todo = {}
  /\ conn = [c \in Clients |-> "out"]
  /\ hung = {}
  /\ wire = [c \in Clients |-> <<>>]
  /\ input = [c \in Clients |-> <<>>]
  /\ out = [c \in Clients |-> 0]
  /\ pending = [c \in Clients |-> "no"]
  /\ late = {}
  /\ buf = [c \in Clients |-> 0]
  /\ sent = [c \in Clients |-> 0]
  /\ dispatched = [c \in Clients |-> 0]
  /\ got = [c \in Clients |-> 0]
  /\ leases = {}
  /\ shutdown_requested = FALSE
  /\ granted = {}
  /\ alive = Processes
  /\ idle = FALSE
  /\ background = FALSE

LoopNext ==
  \/ \E c \in Clients : AcceptOne(c) \/ Step(c)
  \/ AcceptDone \/ StepDone \/ Stay \/ Sleep \/ Wake \/ ExitOnShutdown \/ ExitOnIdle

ClientNext ==
  \/ \E c \in Clients : Connect(c) \/ Send(c) \/ Receive(c) \/ Hangup(c)
  \/ \E p \in Processes : Die(p)

Environment ==
  \/ \E c \in Clients : Expire(c) \/ WorkerDone(c) \/ WorkerDies(c)
  \/ IdleElapse \/ BackgroundDone \/ Launch \/ AcceptError

Next == LoopNext \/ ClientNext \/ Environment

Spec == Init /\ [][Next]_vars

\* The loop thread runs on, workers and boot reconciliation end, launchd starts
\* a daemon that is wanted, deadlines of a sleeping loop pass, and the wgd
\* command sends, reads and hangs up.
Fairness ==
  /\ WF_vars(LoopNext)
  /\ WF_vars(BackgroundDone)
  /\ WF_vars(Launch)
  /\ \A c \in Clients : WF_vars(WorkerDone(c) \/ WorkerDies(c)) /\ WF_vars(Expire(c))
  /\ \A c \in Prompt : WF_vars(Send(c)) /\ WF_vars(Receive(c)) /\ WF_vars(Hangup(c))

FairSpec == Spec /\ Fairness

-----------------------------------------------------------------------------
(* Properties.                                                             *)

\* The loop's own bookkeeping is well typed; a client being stepped is open.
TypeOK ==
  /\ place \in {"down", "accept", "step", "exit", "wait", "poll", "nap"}
  /\ quota \in 0..MaxClients
  /\ todo \subseteq Open
  /\ conn \in [Clients -> {"out", "backlog", "open", "gone"}]
  /\ hung \subseteq Clients /\ late \subseteq Clients
  /\ wire \in [Clients -> Seq(Chunks)]
  /\ input \in [Clients -> Seq(Chunks)]
  /\ out \in [Clients -> 0..ResponseUnits]
  /\ pending \in [Clients -> {"no", "busy", "done", "dead"}]
  /\ buf \in [Clients -> {0, 1}]
  /\ sent \in [Clients -> Nat] /\ dispatched \in [Clients -> Nat] /\ got \in [Clients -> Nat]
  /\ leases \subseteq Processes /\ granted \subseteq Processes /\ alive \subseteq Processes
  /\ shutdown_requested \in BOOLEAN /\ idle \in BOOLEAN /\ background \in BOOLEAN

\* Every dispatched request of an open connection has exactly one response: read by
\* the client, under way to it, or still owed by a worker.  A response is never
\* duplicated, dropped or given to a second request, whatever the interleaving of
\* worker completion, partial writes and further input.
OneResponseEach ==
  \A c \in Open :
    dispatched[c] * ResponseUnits
      = got[c] + buf[c] + out[c] + (IF pending[c] = "no" THEN 0 ELSE ResponseUnits)

\* A prompt client is dropped while it waits for an answer only if its worker is at
\* fault (too slow or dead): neither idle, trickling, deaf nor pipelining clients
\* beside it nor a daemon about to exit take its turn away.
PromptNotCutOff ==
  [][\A c \in Prompt : conn[c] = "open" /\ conn'[c] = "gone"
       => Answered(c) \/ pending[c] # "no"]_vars

\* A prompt client is answered in the end, also when it connects while the daemon is
\* idling out (launchd keeps the socket) and whatever its neighbours do, unless its
\* own worker dies or outlives PENDING_WORKER_TIMEOUT.
PromptAnswered ==
  \A c \in Prompt :
    (conn[c] = "backlog") ~> \/ sent[c] > 0 /\ Answered(c)
                             \/ pending[c] = "dead"
                             \/ pending[c] # "no" /\ c \in late

\* A live command process that was granted a lease and has not asked to release it
\* still has a daemon, unless accept() fails: "A lease release from one client must
\* not cut off another client's active session".
LeaseKeepsDaemon ==
  (\E p \in granted \cap alive : \A c \in Clients : ProcOf[c] = p => c \in Cli) => place # "down"

-----------------------------------------------------------------------------
(* What the proofs need beside TypeOK and OneResponseEach.                 *)

\* Nothing has happened to a connection before it is accepted.
Unaccepted ==
  \A c \in Clients : conn[c] \in {"out", "backlog"} =>
    /\ dispatched[c] = 0 /\ got[c] = 0 /\ buf[c] = 0 /\ out[c] = 0
    /\ pending[c] = "no" /\ input[c] = <<>> /\ c \notin late

\* While a worker runs for a connection it has no other response queued.
OneAtATime == \A c \in Open : pending[c] # "no" => out[c] = 0

\* The single request of a prompt connection is unsent, in the kernel or dispatched.
PromptStages(c) ==
  \/ sent[c] = 0 /\ dispatched[c] = 0 /\ wire[c] = <<>>
  \/ sent[c] = 1 /\ dispatched[c] = 0 /\ \E r \in Requests : wire[c] = <<r>>
  \/ sent[c] = 1 /\ dispatched[c] = 1 /\ wire[c] = <<>>

PromptShape ==
  \A c \in Prompt : /\ conn[c] = "out" => sent[c] = 0
                    /\ conn[c] # "gone" => input[c] = <<>> /\ PromptStages(c)

\* Only an answered prompt client hangs up or runs into a deadline, or its worker is slow.
PromptExcused ==
  \A c \in Prompt : conn[c] # "gone" =>
    /\ c \in hung => sent[c] > 0 /\ Answered(c)
    /\ c \in late => (sent[c] > 0 /\ Answered(c)) \/ pending[c] # "no"

\* The inductive invariant of the accept loop.
SocketInv ==
  /\ TypeOK
  /\ OneResponseEach
  /\ Unaccepted
  /\ OneAtATime
  /\ PromptShape
  /\ PromptExcused

\* The one request of a command connection is not under way: none, or dispatched.
Settled(c) == sent[c] = dispatched[c] /\ wire[c] = <<>>

\* ... or it is, and the connection owes nothing else.
UnderWay(c) ==
  /\ sent[c] = dispatched[c] + 1
  /\ \E r \in Requests : wire[c] = <<r>>
  /\ pending[c] = "no" /\ out[c] = 0

CommandShape ==
  \A c \in Cli : /\ conn[c] = "out" => Settled(c)
                 /\ conn[c] # "gone" => input[c] = <<>> /\ (Settled(c) \/ UnderWay(c))

\* A command process has at most one request under way, over all its connections.
OneRequest ==
  \A c, d \in Cli : /\ c # d /\ ProcOf[c] = ProcOf[d]
                    /\ conn[c] # "gone" /\ conn[d] # "gone"
                    => Settled(c) \/ Settled(d)

\* Every connection of the process is one of the wgd command.
Steady(p) == \A c \in Clients : ProcOf[c] = p => c \in Cli

\* A granted lease is in the table of a running daemon, and no release is under way.
LeaseHeld ==
  \A p \in granted \cap alive : Steady(p) =>
    /\ p \in leases
    /\ place # "down"
    /\ \A c \in Clients : ProcOf[c] = p /\ conn[c] # "gone" => wire[c] # <<"release">>

LeaseInv == CommandShape /\ OneRequest /\ LeaseHeld
=============================================================================
