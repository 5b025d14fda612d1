-------------------------- MODULE PrivilegedClient --------------------------
(***************************************************************************)
(* wgd commands as clients of the privileged service: connecting to its    *)
(* socket or autostarting a daemon through sudo under the startup lock,    *)
(* sending requests over a fresh connection each or over the one transport *)
(* of a command scope, the lease that keeps an autostopping daemon alive,  *)
(* and the clean-up of the scope guard.                                    *)
(*                                                                         *)
(* A command sends one listing, which must succeed, and then requests      *)
(* whose failures it survives (reload, disconnect --all, session agent).   *)
(* The daemon is reduced to its socket, leases and exit condition; what it *)
(* does with a request is ConnectionDaemon's and SocketLoop's subject.     *)
(***************************************************************************)
EXTENDS Naturals

CONSTANTS
  Clients,   \* commands, each in a process of its own
  Scoped,    \* those that run under a CommandScopeGuard
  Daemons,   \* daemon processes, numbered in the order they are launched
  Requests,  \* requests that each command sends (1 or more)
  Command,   \* privileged_autostop_mode is Command: leases are used
  Faults,    \* "crash" of a daemon, "drop" of a connection by it, "slow" start
  Drops,     \* bound: connections dropped
  None

ASSUME ClientAssumption ==
  /\ Scoped \subseteq Clients
  /\ Daemons \subseteq Nat /\ None \notin Clients \cup Daemons
  /\ Requests \in [Clients -> Nat \ {0}] /\ Drops \in Nat /\ Command \in BOOLEAN
  /\ Faults \subseteq {"crash", "drop", "slow"}

VARIABLES
  daemon,     \* state of each daemon process
  bound,      \* daemon that the socket path leads to
  open,       \* connections each daemon has, by client
  leases,     \* leases each daemon holds, by client
  asked,      \* daemons with shutdown_requested
  startLock,  \* holder of the startup lock
  pc,         \* program counter of each client
  left,       \* requests each client still has to send
  ask,        \* what the client is sending
  stream,     \* the connection in use, by its daemon
  transport,  \* CommandSessionState.transport, by its daemon
  token,      \* clients whose CommandSessionState holds a lease token
  dead,       \* history: requests in a row that a client lost on its connection
  slow,       \* history: daemons whose launcher stopped waiting for them
  displaced,  \* history: daemons whose socket path another daemon took over
  leased,     \* history: the daemon that granted a client's lease
  drops       \* bound counter

server == <<daemon, bound, open, leases, asked, displaced, drops>>
session == <<transport, token>>
clientvars == <<pc, left, ask, stream, dead>>
vars == <<server, startLock, session, clientvars, slow, leased>>

Sending == {"write", "wait", "served"}
Starting == {"recheck", "launch", "prompt", "relaunch", "ready"}

TypeOK ==
  /\ daemon \in [Daemons -> {"unused", "starting", "listening", "gone"}]
  /\ bound \in Daemons \cup {None}
  /\ open \in [Daemons -> SUBSET Clients] /\ leases \in [Daemons -> SUBSET Clients]
  /\ asked \subseteq Daemons /\ slow \subseteq Daemons /\ displaced \subseteq Daemons
  /\ startLock \in Clients \cup {None}
  /\ pc \in [Clients -> {"next", "connect", "lock", "reconnect", "drop", "done"}
                          \cup Starting \cup Sending]
  /\ left \in [Clients -> Nat] /\ \A c \in Clients : left[c] <= Requests[c]
  /\ ask \in [Clients -> {"none", "acquire", "request", "release", "shutdown"}]
  /\ stream \in [Clients -> Daemons \cup {None}]
  /\ transport \in [Clients -> Daemons \cup {None}] /\ token \subseteq Clients
  /\ dead \in [Clients -> Nat] /\ drops \in 0 .. Drops
  /\ leased \in [Clients -> Daemons \cup {None}]

Init ==
  /\ daemon = [d \in Daemons |-> "unused"] /\ bound = None
  /\ open = [d \in Daemons |-> {}] /\ leases = [d \in Daemons |-> {}]
  /\ asked = {} /\ displaced = {} /\ drops = 0
  /\ startLock = None
  /\ pc = [c \in Clients |-> "next"] /\ left = Requests
  /\ ask = [c \in Clients |-> "none"] /\ stream = [c \in Clients |-> None]
  /\ transport = [c \in Clients |-> None] /\ token = {}
  /\ dead = [c \in Clients |-> 0] /\ slow = {}
  /\ leased = [c \in Clients |-> None]

Goto(c, where) == pc' = [pc EXCEPT ![c] = where]

\* connect(2) on the socket path succeeds.
Connectable == bound # None /\ daemon[bound] = "listening"

\* The daemon still has this end of the connection.
Live(c) == stream[c] # None /\ daemon[stream[c]] = "listening" /\ c \in open[stream[c]]

-----------------------------------------------------------------------------
(* Sending one request. *)

\* send_with_command_session: the lease first, if this scope needs one; the scope's
\* transport if it is open, otherwise a new connection.
Send(c) ==
  /\ pc[c] = "next" /\ left[c] > 0
  /\ ask' = [ask EXCEPT ![c] = IF c \in Scoped /\ Command /\ c \notin token
                                 THEN "acquire" ELSE "request"]
  /\ IF transport[c] # None
       THEN Goto(c, "write") /\ stream' = [stream EXCEPT ![c] = transport[c]]
       ELSE Goto(c, "connect") /\ UNCHANGED stream
  /\ UNCHANGED <<server, startLock, session, left, dead, slow, leased>>

\* A new connection; the scope keeps it as its transport.
Opened(c) ==
  /\ Connectable
  /\ stream' = [stream EXCEPT ![c] = bound]
  /\ open' = [open EXCEPT ![bound] = @ \cup {c}]
  /\ transport' = IF c \in Scoped /\ pc[c] # "drop"
                    THEN [transport EXCEPT ![c] = bound] ELSE transport
  /\ dead' = [dead EXCEPT ![c] = 0]
  /\ Goto(c, "write")
  /\ UNCHANGED <<daemon, bound, leases, asked, displaced, drops, token, left>>

\* A request is lost.  A failed listing ends the command, any other is survived.
Failed(c) ==
  /\ left' = [left EXCEPT ![c] = IF @ = Requests[c] THEN 0 ELSE @ - 1]
  /\ ask' = [ask EXCEPT ![c] = "none"]
  /\ stream' = [stream EXCEPT ![c] = None]
  /\ Goto(c, "next")

\* connect_or_autostart.  Whatever keeps it from autostarting (autostart off, an error
\* that no daemon would cure) fails the request.
Connect(c) ==
  /\ pc[c] = "connect"
  /\ \/ Opened(c) /\ UNCHANGED ask
     \/ ~Connectable /\ Goto(c, "lock") /\ UNCHANGED <<server, session, left, ask, stream, dead>>
     \/ ~Connectable /\ Failed(c) /\ UNCHANGED <<server, session, dead>>
  /\ UNCHANGED <<startLock, slow, leased>>

\* send_on_stream: the request is written, unless the peer has closed.
Write(c) ==
  /\ pc[c] = "write" /\ Live(c)
  /\ Goto(c, "wait")
  /\ UNCHANGED <<server, startLock, session, left, ask, stream, dead, slow, leased>>

Close(c) ==
  open' = [d \in Daemons |-> IF d = stream[c] THEN open[d] \ {c} ELSE open[d]]

\* Mutant: a transport is kept whatever happened on it.
WriteFailsKept(c) ==
  /\ pc[c] = "write" /\ ~Live(c) /\ ask[c] \in {"acquire", "request"}
  /\ Failed(c)
  /\ dead' = [dead EXCEPT ![c] = @ + 1]
  /\ Close(c)
  /\ UNCHANGED <<daemon, bound, leases, asked, displaced, drops, startLock, transport, token,
                 slow, leased>>

\* "write request: broken pipe" is a transport error: the scope drops its transport
\* (but not when the lease was being acquired: that error returns before the check).
WriteFails(c) ==
  /\ pc[c] = "write" /\ ~Live(c) /\ ask[c] \in {"acquire", "request"}
  /\ Failed(c)
  /\ transport' = IF ask[c] = "request" THEN [transport EXCEPT ![c] = None] ELSE transport
  /\ dead' = [dead EXCEPT ![c] = @ + 1]
  /\ Close(c)
  /\ UNCHANGED <<daemon, bound, leases, asked, displaced, drops, startLock, token, slow, leased>>

\* Mutant: an end of file is taken for "nothing yet", and the client reads on.
EofRetried(c) ==
  /\ pc[c] \in {"wait", "served"} /\ ~Live(c) /\ ask[c] \in {"acquire", "request"}
  /\ UNCHANGED vars

\* "privileged server closed connection before responding" is not a transport error:
\* the scope keeps the dead transport, and the next write fails on it.
Eof(c) ==
  /\ pc[c] \in {"wait", "served"} /\ ~Live(c) /\ ask[c] \in {"acquire", "request"}
  /\ Failed(c)
  /\ dead' = [dead EXCEPT ![c] = @ + 1]
  /\ UNCHANGED <<server, startLock, session, slow, leased>>

\* dispatch, by what it does to the control state; leases of dead processes are pruned.
Serve(c) ==
  /\ pc[c] = "wait" /\ Live(c)
  /\ LET d == stream[c]
         pruned == {x \in leases[d] : pc[x] # "done"}
     IN  /\ leases' = [leases EXCEPT ![d] =
                         CASE ask[c] = "acquire" -> pruned \cup {c}
                           [] ask[c] = "release" -> pruned \ {c}
                           [] ask[c] = "shutdown" -> pruned
                           [] OTHER -> @]
         /\ asked' = IF ask[c] = "shutdown" THEN asked \cup {d} ELSE asked
  /\ Goto(c, "served")
  /\ UNCHANGED <<daemon, bound, open, displaced, drops, startLock, session, left, ask, stream,
                 dead, slow, leased>>

\* The response arrives.  A fresh connection is closed; a scope keeps its transport.
Reply(c) ==
  /\ pc[c] = "served" /\ Live(c) /\ ask[c] \in {"acquire", "request"}
  /\ dead' = [dead EXCEPT ![c] = 0]
  /\ IF ask[c] = "acquire"
       THEN /\ token' = token \cup {c}
            /\ leased' = [leased EXCEPT ![c] = stream[c]]
            /\ ask' = [ask EXCEPT ![c] = "request"]
            /\ Goto(c, "write")
            /\ UNCHANGED <<open, left, stream>>
       ELSE /\ left' = [left EXCEPT ![c] = @ - 1]
            /\ ask' = [ask EXCEPT ![c] = "none"]
            /\ stream' = [stream EXCEPT ![c] = None]
            /\ IF c \in Scoped THEN UNCHANGED open ELSE Close(c)
            /\ Goto(c, "next")
            /\ UNCHANGED <<token, leased>>
  /\ UNCHANGED <<daemon, bound, leases, asked, displaced, drops, startLock, transport, slow>>

-----------------------------------------------------------------------------
(* autostart_daemon, under the startup lock. *)

\* Mutant: the daemon is launched without the startup lock.
LockFree(c) ==
  /\ pc[c] = "lock"
  /\ Goto(c, "recheck")
  /\ UNCHANGED <<server, startLock, session, left, ask, stream, dead, slow, leased>>

Lock(c) ==
  /\ pc[c] = "lock" /\ startLock = None
  /\ startLock' = c
  /\ Goto(c, "recheck")
  /\ UNCHANGED <<server, session, left, ask, stream, dead, slow, leased>>

\* "another client is starting daemon; retry shortly"
LockTimeout(c) ==
  /\ pc[c] = "lock" /\ startLock \notin {None, c}
  /\ Failed(c)
  /\ UNCHANGED <<server, startLock, session, dead, slow, leased>>

Unlock(c) == startLock' = IF startLock = c THEN None ELSE startLock

\* Another client may have started the daemon while this one waited for the lock.
Recheck(c) ==
  /\ pc[c] = "recheck"
  /\ IF Connectable
       THEN Unlock(c) /\ Goto(c, "reconnect")
       ELSE Goto(c, "launch") /\ UNCHANGED startLock
  /\ UNCHANGED <<server, session, left, ask, stream, dead, slow, leased>>

Fresh(d) == daemon[d] = "unused" /\ \A e \in Daemons : e < d => daemon[e] # "unused"

\* sudo -n -b wgd privileged --serve --autostarted
Launch(c, d) ==
  /\ pc[c] \in {"launch", "relaunch"} /\ Fresh(d)
  /\ daemon' = [daemon EXCEPT ![d] = "starting"]
  /\ Goto(c, "ready")
  /\ UNCHANGED <<bound, open, leases, asked, displaced, drops, startLock, session, left, ask,
                 stream, dead, slow, leased>>

\* sudo wants a password: the user is asked on the terminal, once.
LaunchRefused(c) ==
  /\ pc[c] = "launch"
  /\ Goto(c, "prompt")
  /\ UNCHANGED <<server, startLock, session, left, ask, stream, dead, slow, leased>>

Authenticated(c) ==
  /\ pc[c] = "prompt"
  /\ Goto(c, "relaunch")
  /\ UNCHANGED <<server, startLock, session, left, ask, stream, dead, slow, leased>>

\* No terminal, a wrong password, a prompt that timed out, or sudo fails again.
StartFails(c) ==
  /\ pc[c] \in {"prompt", "relaunch"}
  /\ Unlock(c)
  /\ Failed(c)
  /\ UNCHANGED <<server, session, dead, slow, leased>>

\* wait_until_ready: a probe got its answer.
Ready(c) ==
  /\ pc[c] = "ready" /\ Connectable
  /\ Unlock(c)
  /\ Goto(c, "reconnect")
  /\ UNCHANGED <<server, session, left, ask, stream, dead, slow, leased>>

\* "startup timeout waiting for privileged daemon readiness"; the daemon starts all the same.
ReadyTimeout(c) ==
  /\ pc[c] = "ready" /\ ~Connectable
  /\ "slow" \in Faults \/ \A d \in Daemons : daemon[d] # "starting"
  /\ slow' = slow \cup {d \in Daemons : daemon[d] = "starting"}
  /\ Unlock(c)
  /\ Failed(c)
  /\ UNCHANGED <<server, session, dead, leased>>

\* "privileged socket unavailable after autostart"
Reconnect(c) ==
  /\ pc[c] = "reconnect"
  /\ \/ Opened(c) /\ UNCHANGED ask
     \/ ~Connectable /\ Failed(c) /\ UNCHANGED <<server, session, dead>>
  /\ UNCHANGED <<startLock, slow, leased>>

-----------------------------------------------------------------------------
(* The end of a command. *)

\* Dropping the guard takes token and transport; with a token, the lease is released
\* and the daemon asked to stop, over the transport if there is one.
Finish(c) ==
  /\ pc[c] = "next" /\ left[c] = 0
  /\ IF c \in token
       THEN /\ ask' = [ask EXCEPT ![c] = "release"]
            /\ stream' = [stream EXCEPT ![c] = transport[c]]
            /\ Goto(c, IF transport[c] = None THEN "drop" ELSE "write")
            /\ UNCHANGED open
       ELSE /\ Goto(c, "done")
            /\ open' = [d \in Daemons |-> open[d] \ {c}]
            /\ UNCHANGED <<ask, stream>>
  /\ UNCHANGED <<daemon, bound, leases, asked, displaced, drops, startLock, session, left, dead,
                 slow, leased>>

\* The next of the two control requests, on the same transport; then the process ends.
After(c) ==
  IF ask[c] = "release"
    THEN /\ ask' = [ask EXCEPT ![c] = "shutdown"]
         /\ stream' = [stream EXCEPT ![c] = transport[c]]
         /\ Goto(c, IF transport[c] = None THEN "drop" ELSE "write")
         /\ open' = IF transport[c] = None THEN [d \in Daemons |-> open[d] \ {c}] ELSE open
         /\ UNCHANGED session
    ELSE /\ ask' = [ask EXCEPT ![c] = "none"]
         /\ stream' = [stream EXCEPT ![c] = None]
         /\ transport' = [transport EXCEPT ![c] = None]
         /\ token' = token \ {c}
         /\ open' = [d \in Daemons |-> open[d] \ {c}]
         /\ Goto(c, "done")

Control(c) == ask[c] \in {"release", "shutdown"}

Released(c) ==
  /\ pc[c] = "served" /\ Live(c) /\ Control(c)
  /\ After(c)
  /\ UNCHANGED <<daemon, bound, leases, asked, displaced, drops, startLock, left, dead, slow,
                 leased>>

\* Mutant: a control request that fails on the transport is not tried again.
ControlFailsOnce(c) ==
  /\ pc[c] \in Sending /\ ~Live(c) /\ Control(c)
  /\ After(c)
  /\ UNCHANGED <<daemon, bound, leases, asked, displaced, drops, startLock, left, dead, slow,
                 leased>>

\* It failed on the transport: once more over a connection of its own; there, give up.
ControlFails(c) ==
  /\ pc[c] \in Sending /\ ~Live(c) /\ Control(c)
  /\ IF stream[c] = transport[c]
       THEN Goto(c, "drop") /\ UNCHANGED <<open, ask, stream, session>>
       ELSE After(c)
  /\ UNCHANGED <<daemon, bound, leases, asked, displaced, drops, startLock, left, dead, slow,
                 leased>>

\* send_control_request_if_connected: no daemon, nothing to tell.
ControlConnect(c) ==
  /\ pc[c] = "drop"
  /\ \/ Opened(c) /\ UNCHANGED ask
     \/ /\ ~Connectable
        /\ After(c)
        /\ UNCHANGED <<daemon, bound, leases, asked, displaced, drops, left, dead>>
  /\ UNCHANGED <<startLock, slow, leased>>

-----------------------------------------------------------------------------
(* The daemon. *)

\* serve: an autostarted daemon takes the socket path over from whoever had it.
Listen(d) ==
  /\ daemon[d] = "starting"
  /\ daemon' = [daemon EXCEPT ![d] = "listening"]
  /\ bound' = d
  /\ displaced' = IF Connectable THEN displaced \cup {bound} ELSE displaced
  /\ UNCHANGED <<open, leases, asked, drops, startLock, session, clientvars, slow, leased>>

\* Mutant: a lease is not looked at.
StopLeased(d) ==
  /\ daemon[d] = "listening" /\ open[d] = {} /\ d \in asked
  /\ daemon' = [daemon EXCEPT ![d] = "gone"]
  /\ UNCHANGED <<bound, open, leases, asked, displaced, drops, startLock, session, clientvars,
                 slow, leased>>

\* should_exit_now with no client connected.
Stop(d) ==
  /\ daemon[d] = "listening" /\ open[d] = {} /\ d \in asked
  /\ \A c \in leases[d] : pc[c] = "done"
  /\ daemon' = [daemon EXCEPT ![d] = "gone"]
  /\ UNCHANGED <<bound, open, leases, asked, displaced, drops, startLock, session, clientvars,
                 slow, leased>>

Crash(d) ==
  /\ "crash" \in Faults /\ daemon[d] \in {"starting", "listening"}
  /\ daemon' = [daemon EXCEPT ![d] = "gone"]
  /\ UNCHANGED <<bound, open, leases, asked, displaced, drops, startLock, session, clientvars,
                 slow, leased>>

\* Client::deadline: a connection whose request takes too long is closed.
Drop(d, c) ==
  /\ "drop" \in Faults /\ drops < Drops
  /\ daemon[d] = "listening" /\ c \in open[d]
  /\ open' = [open EXCEPT ![d] = @ \ {c}]
  /\ drops' = drops + 1
  /\ UNCHANGED <<daemon, bound, leases, asked, displaced, startLock, session, clientvars, slow,
                 leased>>

Done == (\A c \in Clients : pc[c] = "done") /\ UNCHANGED vars

ClientStep(c) ==
  \/ Send(c) \/ Connect(c) \/ Write(c) \/ WriteFails(c) \/ Eof(c) \/ Serve(c) \/ Reply(c)
  \/ Lock(c) \/ LockTimeout(c) \/ Recheck(c) \/ (\E d \in Daemons : Launch(c, d))
  \/ LaunchRefused(c) \/ Authenticated(c) \/ StartFails(c) \/ Ready(c) \/ ReadyTimeout(c)
  \/ Reconnect(c) \/ Finish(c) \/ Released(c) \/ ControlFails(c) \/ ControlConnect(c)

Next ==
  \/ \E c \in Clients : ClientStep(c)
  \/ \E d \in Daemons : Listen(d) \/ Stop(d) \/ Crash(d) \/ \E c \in Clients : Drop(d, c)
  \/ Done

Spec == Init /\ [][Next]_vars

\* Commands and daemons run when they can; faults need not happen.
FairSpec ==
  /\ Spec
  /\ \A c \in Clients : WF_vars(ClientStep(c))
  /\ \A d \in Daemons : WF_vars(Listen(d) \/ Stop(d))

-----------------------------------------------------------------------------
(* Properties. *)

\* One startup lock, one daemon: a listening daemon loses its socket path to another
\* only when one of them was so slow that its launcher had stopped waiting for it.
DisplacedOnlyIfSlow == displaced # {} => slow # {}

\* A connection that the daemon closed costs a scope at most two requests: the one that
\* meets the end of file and the one whose write fails; then the transport is renewed.
FailureIsBounded == \A c \in Clients : dead[c] <= 2

\* Every command ends, whatever the daemon does: no wait on the lock, on readiness or on
\* a response lasts for ever.
CommandsEnd == \A c \in Clients : <>(pc[c] = "done")

\* A daemon that granted a lease to a scope stops after the commands are over: the guard
\* reaches it over the transport or over a connection of its own.
LeasedDaemonStops ==
  \A d \in Daemons, c \in Scoped :
    ((\A x \in Clients : pc[x] = "done") /\ leased[c] = d)
      ~> (daemon[d] = "gone" \/ d \in displaced)

\* While a scope holds the lease of a daemon, that daemon leaves only by a crash: no
\* other command's ShutdownIfIdle stops it between two requests of this one.
LeaseHonoured ==
  [][\A d \in Daemons, c \in Scoped :
       (c \in token /\ leased[c] = d /\ pc[c] = "next" /\ left[c] > 0) => ~Stop(d)]_vars
=============================================================================
