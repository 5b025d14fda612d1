----------------------- MODULE PrivilegedClientProofs -----------------------
(***************************************************************************)
(* Proofs about the commands of one user and the daemons they start, for   *)
(* any number of commands, requests and daemons and any faults: one daemon *)
(* owns the socket path unless a start was too slow, a dead connection     *)
(* costs at most two requests, and a leased daemon does not leave.  Three  *)
(* inductive invariants, one for each, on top of the types.                *)
(***************************************************************************)
EXTENDS PrivilegedClient, TLAPS

\* Places of a request that has no connection yet.
Dialling == {"connect", "lock", "reconnect"} \cup Starting

\* The startup lock is held throughout a start; while no launcher has given up, a daemon
\* that is starting has its launcher waiting, is the only one, and finds the path free.
StartInv ==
  /\ \A c \in Clients : pc[c] \in Starting => startLock = c
  /\ slow = {} =>
       /\ displaced = {}
       /\ \A d, e \in Daemons : daemon[d] = "starting" /\ daemon[e] = "starting" => d = e
       /\ \A d \in Daemons : daemon[d] = "starting" =>
            startLock # None /\ pc[startLock] = "ready" /\ ~Connectable
       /\ \A c \in Clients : pc[c] \in {"launch", "prompt", "relaunch"} => ~Connectable

\* What a client is sending, by its place; one that is sending a request owes it.
AskShape ==
  \A c \in Clients :
    /\ pc[c] = "next" => ask[c] = "none"
    /\ pc[c] \in Dialling => ask[c] \in {"acquire", "request"}
    /\ pc[c] = "drop" => Control(c)
    /\ ask[c] \in {"acquire", "request"} => left[c] > 0

\* A scope that has a token has its lease at the daemon that granted it, until it releases
\* it; a lease that has been served is there when the response is read.
LeaseInv ==
  \A c \in Clients :
       /\ c \in token => pc[c] # "done"
       /\ c \in token /\ ~Control(c) => leased[c] # None /\ c \in leases[leased[c]]
       /\ pc[c] = "served" /\ ask[c] = "acquire" => stream[c] # None /\ c \in leases[stream[c]]

\* The connection that a scope keeps is closed at the other end.
Broken(c) == daemon[transport[c]] # "listening" \/ c \notin open[transport[c]]

\* A client that has lost requests in a row has no transport, or a broken one with one
\* loss so far, or nothing left to send.
DeadClient(c) ==
  /\ transport[c] # None => daemon[transport[c]] \in {"listening", "gone"}
  /\ pc[c] \in Dialling => transport[c] = None
  /\ pc[c] \in Sending /\ ~Control(c) =>
       /\ c \in Scoped => stream[c] = transport[c]
       /\ c \notin Scoped => transport[c] = None
  /\ pc[c] = "next" /\ c \notin Scoped => transport[c] = None
  /\ ask[c] = "acquire" => left[c] = Requests[c]
  /\ Control(c) => left[c] = 0
  /\ ask[c] = "request" /\ c \in Scoped /\ Command => c \in token
  /\ c \in Scoped /\ Command /\ left[c] \notin {0, Requests[c]} => c \in token
  /\ left[c] = Requests[c] => dead[c] = 0
  /\ dead[c] \in 0 .. 2
  /\ dead[c] > 0 /\ ~Control(c) /\ left[c] > 0 =>
       \/ transport[c] = None /\ pc[c] \notin Sending
       \/ /\ transport[c] # None /\ Broken(c) /\ dead[c] = 1
          /\ pc[c] \in {"next", "write"}
          /\ pc[c] = "write" => ask[c] = "request"
  /\ dead[c] > 0 /\ ~Control(c) /\ left[c] = 0 => pc[c] \in {"next", "done"}

DeadInv == \A c \in Clients : DeadClient(c)

Typed == TypeOK /\ AskShape

USE ClientAssumption
USE DEF vars, server, session, clientvars, Sending, Starting, Dialling, Goto, Control

-----------------------------------------------------------------------------
(* Types, and what a client is sending. *)

\* Before the first step.
LEMMA InitTyped == Init => Typed
BY DEF Init, Typed, TypeOK, AskShape

\* A failed request: what is owed stays in range.
LEMMA FailedTyped ==
  ASSUME Typed, NEW c \in Clients, Failed(c), left[c] > 0
  PROVE  /\ left' \in [Clients -> Nat] /\ \A x \in Clients : left'[x] <= Requests[x]
         /\ ask' = [ask EXCEPT ![c] = "none"] /\ stream' = [stream EXCEPT ![c] = None]
         /\ pc' = [pc EXCEPT ![c] = "next"]
         /\ \A x \in Clients : x # c => left'[x] = left[x]
BY DEF Typed, TypeOK, Failed

\* The next control request, or the end of the process.
LEMMA AfterTyped ==
  ASSUME Typed, NEW c \in Clients, After(c)
  PROVE  /\ ask' \in [Clients -> {"none", "acquire", "request", "release", "shutdown"}]
         /\ stream' \in [Clients -> Daemons \cup {None}]
         /\ transport' \in [Clients -> Daemons \cup {None}] /\ token' \subseteq Clients
         /\ open' \in [Daemons -> SUBSET Clients]
         /\ \E w \in {"drop", "write", "done"} : pc' = [pc EXCEPT ![c] = w]
<1> USE DEF Typed, TypeOK
<1>1. CASE ask[c] = "release"
  BY <1>1 DEF After
<1>2. CASE ask[c] # "release"
  BY <1>2 DEF After
<1> QED BY <1>1, <1>2

\* A step of a client keeps the types.
LEMMA ClientTyped ==
  ASSUME Typed, NEW c \in Clients, ClientStep(c) PROVE TypeOK'
<1> USE DEF Typed, TypeOK, AskShape
<1>1. CASE Send(c) \/ Write(c) \/ Lock(c) \/ Recheck(c) \/ LaunchRefused(c) \/ Authenticated(c)
           \/ Ready(c)
  <2>1. CASE Send(c)
    BY <2>1 DEF Send
  <2>2. CASE Lock(c)
    BY <2>2 DEF Lock
  <2>3. CASE Recheck(c)
    BY <2>3 DEF Recheck, Unlock
  <2>4. CASE Ready(c)
    BY <2>4 DEF Ready, Unlock
  <2>5. CASE Write(c)
    BY <2>5 DEF Write
  <2>6. CASE LaunchRefused(c)
    BY <2>6 DEF LaunchRefused
  <2>7. CASE Authenticated(c)
    BY <2>7 DEF Authenticated
  <2> QED BY <1>1, <2>1, <2>2, <2>3, <2>4, <2>5, <2>6, <2>7
<1>2. CASE Connect(c) \/ Reconnect(c)
  <2>1. CASE Opened(c)
    BY <1>2, <2>1 DEF Opened, Connect, Reconnect, Connectable
  <2>2. CASE Failed(c) /\ UNCHANGED <<server, session, dead>>
    BY <1>2, <2>2, FailedTyped DEF Connect, Reconnect
  <2>3. CASE Goto(c, "lock") /\ UNCHANGED <<server, session, left, ask, stream, dead>>
    BY <1>2, <2>3 DEF Connect, Reconnect
  <2> QED BY <1>2, <2>1, <2>2, <2>3 DEF Connect, Reconnect
<1>3. CASE WriteFails(c) \/ Eof(c) \/ LockTimeout(c) \/ StartFails(c) \/ ReadyTimeout(c)
  <2>1. CASE WriteFails(c)
    BY <2>1, FailedTyped DEF WriteFails, Close
  <2>2. CASE Eof(c)
    BY <2>2, FailedTyped DEF Eof
  <2>3. CASE StartFails(c) \/ ReadyTimeout(c)
    BY <2>3, FailedTyped DEF StartFails, ReadyTimeout, Unlock
  <2>4. CASE LockTimeout(c)
    BY <2>4, FailedTyped DEF LockTimeout
  <2> QED BY <1>3, <2>1, <2>2, <2>3, <2>4
<1>4. CASE Serve(c)
  BY <1>4 DEF Serve, Live
<1>5. CASE Reply(c)
  BY <1>5 DEF Reply, Live, Close
<1>6. ASSUME NEW d \in Daemons, Launch(c, d) PROVE TypeOK'
  BY <1>6 DEF Launch
<1>7. CASE Finish(c)
  BY <1>7 DEF Finish
<1>8. CASE Released(c) \/ ControlFails(c)
  <2>0. UNCHANGED <<daemon, bound, leases, asked, displaced, drops, startLock, left, dead, slow,
                    leased>>
    BY <1>8 DEF Released, ControlFails
  <2>1. CASE After(c)
    BY <2>0, <2>1, AfterTyped
  <2>2. CASE Goto(c, "drop") /\ UNCHANGED <<open, ask, stream, session>>
    BY <2>0, <2>2
  <2> QED BY <1>8, <2>1, <2>2 DEF Released, ControlFails
<1>9. CASE ControlConnect(c)
  <2>1. CASE Opened(c)
    BY <1>9, <2>1 DEF Opened, ControlConnect, Connectable
  <2>2. CASE After(c) /\ UNCHANGED <<daemon, bound, leases, asked, displaced, drops, left, dead>>
    BY <1>9, <2>2, AfterTyped DEF ControlConnect
  <2> QED BY <1>9, <2>1, <2>2 DEF ControlConnect
<1> QED BY <1>1, <1>2, <1>3, <1>4, <1>5, <1>6, <1>7, <1>8, <1>9 DEF ClientStep

\* A step of a client keeps the shape of what is sent.
LEMMA ClientShape ==
  ASSUME Typed, NEW c \in Clients, ClientStep(c) PROVE AskShape'
<1> USE DEF Typed, TypeOK, AskShape
<1>1. CASE Send(c) \/ Write(c) \/ Lock(c) \/ Recheck(c) \/ LaunchRefused(c) \/ Authenticated(c)
           \/ Ready(c)
  BY <1>1 DEF Send, Write, Lock, Recheck, LaunchRefused, Authenticated, Ready
<1>2. CASE Connect(c) \/ Reconnect(c)
  <2>1. CASE Opened(c)
    BY <1>2, <2>1 DEF Opened, Connect, Reconnect
  <2>2. CASE Failed(c)
    BY <1>2, <2>2, FailedTyped DEF Connect, Reconnect
  <2>3. CASE Goto(c, "lock") /\ UNCHANGED <<server, session, left, ask, stream, dead>>
    BY <1>2, <2>3 DEF Connect, Reconnect
  <2> QED BY <1>2, <2>1, <2>2, <2>3 DEF Connect, Reconnect
<1>3. CASE WriteFails(c) \/ Eof(c) \/ LockTimeout(c) \/ StartFails(c) \/ ReadyTimeout(c)
  BY <1>3, FailedTyped DEF WriteFails, Eof, LockTimeout, StartFails, ReadyTimeout
<1>4. CASE Serve(c)
  BY <1>4 DEF Serve
<1>5. CASE Reply(c)
  BY <1>5 DEF Reply
<1>6. ASSUME NEW d \in Daemons, Launch(c, d) PROVE AskShape'
  BY <1>6 DEF Launch
<1>7. CASE Finish(c)
  BY <1>7 DEF Finish
<1>8. CASE Released(c) \/ ControlFails(c)
  BY <1>8 DEF Released, ControlFails, After
<1>9. CASE ControlConnect(c)
  <2>1. CASE Opened(c)
    BY <1>9, <2>1 DEF Opened, ControlConnect
  <2>2. CASE ~Opened(c)
    BY <1>9, <2>2 DEF ControlConnect, After
  <2> QED BY <2>1, <2>2
<1> QED BY <1>1, <1>2, <1>3, <1>4, <1>5, <1>6, <1>7, <1>8, <1>9 DEF ClientStep

\* Every step keeps both.
LEMMA StepTyped == Typed /\ [Next]_vars => Typed'
<1> SUFFICES ASSUME Typed, [Next]_vars PROVE Typed'
  OBVIOUS
<1>1. ASSUME NEW c \in Clients, ClientStep(c) PROVE Typed'
  BY <1>1, ClientTyped, ClientShape DEF Typed
<1>2. ASSUME NEW d \in Daemons, Listen(d) \/ Stop(d) \/ Crash(d) PROVE Typed'
  BY <1>2 DEF Typed, TypeOK, AskShape, Listen, Stop, Crash, Connectable
<1>3. ASSUME NEW d \in Daemons, NEW c \in Clients, Drop(d, c) PROVE Typed'
  BY <1>3 DEF Typed, TypeOK, AskShape, Drop
<1>4. CASE UNCHANGED vars
  BY <1>4 DEF Typed, TypeOK, AskShape
<1> QED BY <1>1, <1>2, <1>3, <1>4 DEF Next, Done

\* The types of the clients' and the daemons' state.
THEOREM Types == Spec => []TypeOK
<1>1. Spec => []Typed
  BY InitTyped, StepTyped, PTL DEF Spec
<1> QED BY <1>1, PTL DEF Typed

-----------------------------------------------------------------------------
(* The startup lock. *)

\* A step outside a start leaves the start of others alone.
LEMMA OutsideStart ==
  ASSUME Typed, StartInv, NEW c \in Clients, pc[c] \notin Starting,
         NEW w \in {"next", "connect", "lock", "reconnect", "drop", "done"} \cup Sending,
         pc' = [pc EXCEPT ![c] = w],
         UNCHANGED <<daemon, bound, displaced, startLock, slow>>
  PROVE  StartInv'
BY DEF Typed, TypeOK, StartInv, Connectable

\* A client's step that is not part of a start.
LEMMA OtherStepStart ==
  ASSUME Typed, StartInv, NEW c \in Clients,
         \/ Send(c) \/ Connect(c) \/ Write(c) \/ WriteFails(c) \/ Eof(c) \/ Serve(c) \/ Reply(c)
         \/ LockTimeout(c) \/ Reconnect(c) \/ Finish(c) \/ Released(c) \/ ControlFails(c)
         \/ ControlConnect(c)
  PROVE  StartInv'
<1>1. CASE Send(c) \/ Write(c) \/ Serve(c) \/ Reply(c) \/ Finish(c)
  BY <1>1, OutsideStart DEF Send, Write, Serve, Reply, Finish
<1>2. CASE WriteFails(c) \/ Eof(c) \/ LockTimeout(c)
  BY <1>2, OutsideStart DEF WriteFails, Eof, LockTimeout, Failed
<1>3. CASE Connect(c) \/ Reconnect(c)
  BY <1>3, OutsideStart DEF Connect, Reconnect, Failed, Opened
<1>4. CASE Released(c) \/ ControlFails(c) \/ ControlConnect(c)
  BY <1>4, OutsideStart DEF Released, ControlFails, ControlConnect, After, Opened
<1> QED BY <1>1, <1>2, <1>3, <1>4

\* A step of a start, under the startup lock.
LEMMA StartStepStart ==
  ASSUME Typed, StartInv, NEW c \in Clients,
         \/ Lock(c) \/ Recheck(c) \/ (\E d \in Daemons : Launch(c, d)) \/ LaunchRefused(c)
         \/ Authenticated(c) \/ StartFails(c) \/ Ready(c) \/ ReadyTimeout(c)
  PROVE  StartInv'
<1> USE DEF Typed, TypeOK, StartInv, Connectable
<1>1. CASE Lock(c)
  BY <1>1 DEF Lock
<1>2. CASE Recheck(c)
  BY <1>2 DEF Recheck, Unlock
<1>3. ASSUME NEW d \in Daemons, Launch(c, d) PROVE StartInv'
  BY <1>3 DEF Launch, Fresh
<1>4. CASE LaunchRefused(c)
  BY <1>4 DEF LaunchRefused
<1>5. CASE Authenticated(c)
  BY <1>5 DEF Authenticated
<1>6. CASE StartFails(c)
  BY <1>6 DEF StartFails, Unlock, Failed
<1>7. CASE Ready(c)
  BY <1>7 DEF Ready, Unlock
<1>8. CASE ReadyTimeout(c)
  BY <1>8 DEF ReadyTimeout, Unlock, Failed
<1> QED BY <1>1, <1>2, <1>3, <1>4, <1>5, <1>6, <1>7, <1>8

\* Every step keeps the startup invariant.
LEMMA StepStart == Typed /\ StartInv /\ [Next]_vars => StartInv'
<1> SUFFICES ASSUME Typed, StartInv, [Next]_vars PROVE StartInv'
  OBVIOUS
<1>1. ASSUME NEW c \in Clients, ClientStep(c) PROVE StartInv'
  BY <1>1, OtherStepStart, StartStepStart DEF ClientStep
<1> USE DEF Typed, TypeOK, StartInv, Connectable
<1>2. ASSUME NEW d \in Daemons, Listen(d) PROVE StartInv'
  BY <1>2 DEF Listen
<1>3. ASSUME NEW d \in Daemons, Stop(d) \/ Crash(d) PROVE StartInv'
  <2>1. CASE Stop(d)
    BY <2>1 DEF Stop
  <2>2. CASE Crash(d)
    BY <2>2 DEF Crash
  <2> QED BY <1>3, <2>1, <2>2
<1>4. ASSUME NEW d \in Daemons, NEW c \in Clients, Drop(d, c) PROVE StartInv'
  BY <1>4 DEF Drop
<1>5. CASE UNCHANGED vars
  BY <1>5
<1> QED BY <1>1, <1>2, <1>3, <1>4, <1>5 DEF Next, Done

\* connect_or_autostart under the startup lock: two daemons contend for the socket path only
\* after a launcher has given up on one, for any number of commands and daemons, whatever
\* crashes and whichever connections are dropped.
THEOREM OneDaemonPerPath == Spec => []DisplacedOnlyIfSlow
<1>1. Init => StartInv
  BY DEF Init, StartInv
<1>2. Spec => [](Typed /\ StartInv)
  BY InitTyped, StepTyped, <1>1, StepStart, PTL DEF Spec
<1>3. StartInv => DisplacedOnlyIfSlow
  BY DEF StartInv, DisplacedOnlyIfSlow
<1> QED BY <1>2, <1>3, PTL

-----------------------------------------------------------------------------
(* Leases. *)

\* A step of a client keeps the lease invariant.
LEMMA ClientLease ==
  ASSUME Typed, LeaseInv, NEW c \in Clients, ClientStep(c) PROVE LeaseInv'
<1> USE DEF Typed, TypeOK, AskShape, LeaseInv
<1>1. CASE Send(c)
  BY <1>1 DEF Send
<1>2. CASE Write(c) \/ LaunchRefused(c) \/ Authenticated(c) \/ Lock(c) \/ Recheck(c) \/ Ready(c)
  BY <1>2 DEF Write, LaunchRefused, Authenticated, Lock, Recheck, Ready
<1>3. CASE Connect(c) \/ Reconnect(c)
  BY <1>3 DEF Connect, Reconnect, Opened, Failed
<1>4. CASE WriteFails(c) \/ Eof(c) \/ LockTimeout(c) \/ StartFails(c) \/ ReadyTimeout(c)
  BY <1>4 DEF WriteFails, Eof, LockTimeout, StartFails, ReadyTimeout, Failed
<1>5. CASE Serve(c)
  BY <1>5 DEF Serve, Live
<1>6. CASE Reply(c)
  BY <1>6 DEF Reply, Live
<1>7. ASSUME NEW d \in Daemons, Launch(c, d) PROVE LeaseInv'
  BY <1>7 DEF Launch
<1>8. CASE Finish(c)
  BY <1>8 DEF Finish
<1>9. CASE Released(c) \/ ControlFails(c)
  BY <1>9 DEF Released, ControlFails, After
<1>10. CASE ControlConnect(c)
  BY <1>10 DEF ControlConnect, Opened, After
<1> QED BY <1>1, <1>2, <1>3, <1>4, <1>5, <1>6, <1>7, <1>8, <1>9, <1>10 DEF ClientStep

\* Every step keeps the lease invariant.
LEMMA StepLease == Typed /\ LeaseInv /\ [Next]_vars => LeaseInv'
<1> SUFFICES ASSUME Typed, LeaseInv, [Next]_vars PROVE LeaseInv'
  OBVIOUS
<1>1. ASSUME NEW c \in Clients, ClientStep(c) PROVE LeaseInv'
  BY <1>1, ClientLease
<1>2. ASSUME UNCHANGED <<pc, ask, stream, token, leased, leases>> PROVE LeaseInv'
  BY <1>2 DEF LeaseInv
<1>3. ASSUME NEW d \in Daemons, Listen(d) \/ Stop(d) \/ Crash(d) PROVE LeaseInv'
  BY <1>2, <1>3 DEF Listen, Stop, Crash
<1>4. ASSUME NEW d \in Daemons, NEW c \in Clients, Drop(d, c) PROVE LeaseInv'
  BY <1>2, <1>4 DEF Drop
<1> QED BY <1>1, <1>2, <1>3, <1>4 DEF Next, Done

\* should_exit_now against the lease of a scope between two of its requests: the daemon
\* that granted it does not stop, whatever ShutdownIfIdle others send, which of their
\* connections fail and which of their leases are pruned.
THEOREM LeaseHolds == Spec => LeaseHonoured
<1>1. Init => LeaseInv
  BY DEF Init, LeaseInv
<1>2. Spec => [](Typed /\ LeaseInv)
  BY InitTyped, StepTyped, <1>1, StepLease, PTL DEF Spec
<1>3. ASSUME Typed, LeaseInv, NEW d \in Daemons, NEW c \in Scoped,
             c \in token, leased[c] = d, pc[c] = "next"
      PROVE  ~Stop(d)
  BY <1>3 DEF Typed, AskShape, LeaseInv, Stop
<1>4. Typed /\ LeaseInv =>
        [\A d \in Daemons, c \in Scoped :
           (c \in token /\ leased[c] = d /\ pc[c] = "next" /\ left[c] > 0) => ~Stop(d)]_vars
  BY <1>3
<1> QED BY <1>2, <1>4, PTL DEF LeaseHonoured

-----------------------------------------------------------------------------
(* Requests lost in a row. *)

\* The daemon side of a connection only ever breaks, except when its client opens one.
Breaks(x) ==
  /\ \A d \in Daemons : /\ daemon[d] \in {"listening", "gone"} => daemon'[d] \in {"listening", "gone"}
                        /\ daemon[d] = "gone" => daemon'[d] = "gone"
                        /\ x \in open'[d] => x \in open[d]

\* A client at rest is not disturbed by that.
LEMMA AtRest ==
  ASSUME Typed, NEW x \in Clients, DeadClient(x), Breaks(x),
         pc'[x] = pc[x], left'[x] = left[x], ask'[x] = ask[x], stream'[x] = stream[x],
         transport'[x] = transport[x], x \in token' <=> x \in token, dead'[x] = dead[x]
  PROVE  DeadClient(x)'
BY DEF Typed, TypeOK, DeadClient, Breaks, Broken

\* A step of a client as the others see it.
LEMMA Aside ==
  ASSUME Typed, NEW c \in Clients, ClientStep(c), NEW x \in Clients, x # c
  PROVE  /\ Breaks(x)
         /\ pc'[x] = pc[x] /\ left'[x] = left[x] /\ ask'[x] = ask[x] /\ stream'[x] = stream[x]
         /\ transport'[x] = transport[x] /\ (x \in token' <=> x \in token) /\ dead'[x] = dead[x]
<1> USE DEF Typed, TypeOK, Breaks
<1>1. CASE Send(c) \/ Write(c) \/ LaunchRefused(c) \/ Authenticated(c) \/ Lock(c) \/ Recheck(c)
           \/ Ready(c)
  BY <1>1 DEF Send, Write, LaunchRefused, Authenticated, Lock, Recheck, Ready
<1>2. CASE Connect(c) \/ Reconnect(c)
  BY <1>2 DEF Connect, Reconnect, Opened, Failed
<1>3. CASE WriteFails(c) \/ Eof(c) \/ LockTimeout(c) \/ StartFails(c) \/ ReadyTimeout(c)
  BY <1>3 DEF WriteFails, Eof, LockTimeout, StartFails, ReadyTimeout, Failed, Close
<1>4. CASE Serve(c) \/ Reply(c) \/ Finish(c)
  BY <1>4 DEF Serve, Reply, Finish, Close
<1>5. ASSUME NEW d \in Daemons, Launch(c, d)
      PROVE  /\ Breaks(x)
             /\ pc'[x] = pc[x] /\ left'[x] = left[x] /\ ask'[x] = ask[x] /\ stream'[x] = stream[x]
             /\ transport'[x] = transport[x] /\ (x \in token' <=> x \in token)
             /\ dead'[x] = dead[x]
  BY <1>5 DEF Launch, Fresh
<1>6. CASE Released(c) \/ ControlFails(c)
  BY <1>6 DEF Released, ControlFails, After
<1>7. CASE ControlConnect(c)
  BY <1>7 DEF ControlConnect, Opened, After
<1> QED BY <1>1, <1>2, <1>3, <1>4, <1>5, <1>6, <1>7 DEF ClientStep

\* A step of the client itself.
LEMMA Itself ==
  ASSUME Typed, NEW c \in Clients, DeadClient(c), ClientStep(c) PROVE DeadClient(c)'
<1> USE DEF Typed, TypeOK, AskShape, DeadClient, Broken
<1>1. CASE Send(c)
  BY <1>1 DEF Send
<1>2. CASE Write(c)
  BY <1>2 DEF Write, Live
<1>3. CASE LaunchRefused(c) \/ Authenticated(c) \/ Lock(c) \/ Recheck(c) \/ Ready(c)
  BY <1>3 DEF LaunchRefused, Authenticated, Lock, Recheck, Ready
<1>4. CASE Connect(c) \/ Reconnect(c)
  <2>1. CASE Opened(c)
    BY <1>4, <2>1 DEF Connect, Reconnect, Opened, Connectable
  <2>2. CASE Failed(c) /\ UNCHANGED <<server, session, dead>>
    BY <1>4, <2>2 DEF Connect, Reconnect, Failed
  <2>3. CASE Goto(c, "lock") /\ UNCHANGED <<server, session, left, ask, stream, dead>>
    BY <1>4, <2>3 DEF Connect, Reconnect
  <2> QED BY <1>4, <2>1, <2>2, <2>3 DEF Connect, Reconnect
<1>5. CASE WriteFails(c)
  BY <1>5 DEF WriteFails, Failed, Close, Live
<1>6. CASE Eof(c)
  BY <1>6 DEF Eof, Failed, Live
<1>7. CASE LockTimeout(c) \/ StartFails(c) \/ ReadyTimeout(c)
  BY <1>7 DEF LockTimeout, StartFails, ReadyTimeout, Failed
<1>8. CASE Serve(c)
  BY <1>8 DEF Serve, Live
<1>9. CASE Reply(c)
  BY <1>9 DEF Reply, Live, Close
<1>10. ASSUME NEW d \in Daemons, Launch(c, d) PROVE DeadClient(c)'
  BY <1>10 DEF Launch, Fresh
<1>11. CASE Finish(c)
  BY <1>11 DEF Finish
<1>12. CASE Released(c)
  BY <1>12 DEF Released, After
<1>13. CASE ControlFails(c)
  BY <1>13 DEF ControlFails, After
<1>14. CASE ControlConnect(c)
  <2>1. CASE Opened(c)
    BY <1>14, <2>1 DEF ControlConnect, Opened, Connectable
  <2>2. CASE After(c) /\ UNCHANGED <<daemon, bound, leases, asked, displaced, drops, left, dead>>
    BY <1>14, <2>2 DEF ControlConnect, After
  <2> QED BY <1>14, <2>1, <2>2 DEF ControlConnect
<1> QED BY <1>1, <1>2, <1>3, <1>4, <1>5, <1>6, <1>7, <1>8, <1>9, <1>10, <1>11, <1>12, <1>13,
           <1>14 DEF ClientStep

\* Every step keeps the invariant.
LEMMA StepDead == Typed /\ DeadInv /\ [Next]_vars => DeadInv'
<1> SUFFICES ASSUME Typed, DeadInv, [Next]_vars, NEW x \in Clients PROVE DeadClient(x)'
  BY DEF DeadInv
<1>0. DeadClient(x)
  BY DEF DeadInv
<1>1. ASSUME NEW c \in Clients, ClientStep(c) PROVE DeadClient(x)'
  <2>1. CASE x = c
    BY <1>0, <1>1, <2>1, Itself
  <2>2. CASE x # c
    BY <1>0, <1>1, <2>2, Aside, AtRest
  <2> QED BY <2>1, <2>2
<1>2. ASSUME NEW d \in Daemons, Listen(d) \/ Stop(d) \/ Crash(d) PROVE DeadClient(x)'
  <2>1. Breaks(x) /\ UNCHANGED <<session, clientvars>>
    BY <1>2 DEF Listen, Stop, Crash, Breaks, Typed, TypeOK
  <2> QED BY <1>0, <2>1, AtRest
<1>3. ASSUME NEW d \in Daemons, NEW c \in Clients, Drop(d, c) PROVE DeadClient(x)'
  <2>1. Breaks(x) /\ UNCHANGED <<session, clientvars>>
    BY <1>3 DEF Drop, Breaks, Typed, TypeOK
  <2> QED BY <1>0, <2>1, AtRest
<1>4. CASE UNCHANGED vars
  BY <1>0, <1>4, AtRest DEF Breaks
<1> QED BY <1>1, <1>2, <1>3, <1>4 DEF Next, Done

\* send_with_command_session on a connection that the daemon closed: at most two requests
\* in a row are lost, for any number of commands and requests, whether the daemon crashed,
\* stopped or dropped the connection.
THEOREM LossIsBounded == Spec => []FailureIsBounded
<1>1. Init => DeadInv
  <2> SUFFICES ASSUME Init, NEW c \in Clients PROVE DeadClient(c)
    BY DEF DeadInv
  <2>1. /\ pc[c] = "next" /\ left[c] = Requests[c] /\ ask[c] = "none" /\ transport[c] = None
        /\ dead[c] = 0
    BY DEF Init
  <2> QED BY <2>1 DEF DeadClient
<1>2. Spec => [](Typed /\ DeadInv)
  BY InitTyped, StepTyped, <1>1, StepDead, PTL DEF Spec
<1>3. DeadInv => FailureIsBounded
  <2>1. ASSUME NEW c \in Clients, DeadClient(c) PROVE dead[c] <= 2
    BY <2>1 DEF DeadClient
  <2> QED BY <2>1 DEF DeadInv, FailureIsBounded
<1> QED BY <1>2, <1>3, PTL
=============================================================================
