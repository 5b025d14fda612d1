-------------------------- MODULE ConnectionDaemon --------------------------
(***************************************************************************)
(* The privileged side of wgd: the connection store, the request handlers  *)
(* that run on a service's accept thread, the worker threads that bring    *)
(* tunnels up and down, and the boot reconciliation thread.                *)
(*                                                                         *)
(* Several service processes share one store: the socket daemon, and one   *)
(* `--stdio` service per caller.  They exclude one another with flock()ed  *)
(* files: one index lock, one lock per connection id and one machine-wide  *)
(* network lock, each taken with a timeout.                                *)
(*                                                                         *)
(* The tunnel helper is reduced to what the daemon can observe of it: its  *)
(* process state, its UAPI socket and the runtime files it leaves behind.  *)
(***************************************************************************)
EXTENDS FiniteSets

CONSTANTS
  Ids,           \* connection ids (uuids: never allocated twice)
  Fingerprints,  \* identities of parsed configurations
  Broken,        \* fingerprints `connect` always refuses (stale text, not one peer)
  Users,         \* uids that may own a per-user connection
  Names,         \* display names
  Forces,        \* values of AddConnection's `force` that clients send
  StartModes,    \* start modes that clients ask for
  Services,      \* service processes
  Daemon,        \* the socket daemon, the one service that reconciles at boot
  Workers,       \* worker threads
  Owner,         \* the service each worker thread belongs to
  Boot,          \* the boot reconciliation thread of the daemon
  Faults,        \* environment faults that may happen
  Global, NoName, NoId, NoRecord, Free

FaultKinds == {"hangup", "kill", "crash", "startcrash", "signal", "reboot", "hook", "io"}

ASSUME ServicesAssumption ==
  /\ Daemon \in Services
  /\ Owner \in [Workers -> Services]
  /\ Boot \notin Workers
  /\ (Workers \cup {Boot}) \cap Services = {}
  /\ Free \notin Services \cup Workers \cup {Boot}

Modes == {"manual", "automatic"}

ASSUME ValuesAssumption ==
  /\ Global \notin Users
  /\ NoName \notin Names
  /\ NoId \notin Ids
  /\ Broken \subseteq Fingerprints
  /\ Forces \subseteq BOOLEAN
  /\ StartModes \subseteq Modes
  /\ Faults \subseteq FaultKinds

VARIABLES
  records,    \* connections/<id>.json
  used,       \* ids allocated so far
  marker,     \* active/<id>.json, relative to the UAPI socket that exists now
  sockets,    \* ids whose /var/run/wireguard/<iface>.sock exists
  helper,     \* the helper process of the interface
  left,       \* runtime files a helper left: cleanup status, or pid without one
  faulted,    \* history: ids whose bring-up or teardown was cut short or failed
  indexLock, connLock, netLock,
  running,    \* service processes that are running
  accPc, accId, accRec,          \* accept thread of each service
  pc, cid, op, why, attached,    \* worker threads and the boot thread
  bootTodo, bootFailed, \* boot reconciliation: candidates left, candidates that failed
  bootMarker            \* boot-reconcile.marker: of this boot, or an earlier one or none

storeVars  == <<records, used>>
tunnelVars == <<marker, sockets, helper, left, faulted>>
accVars    == <<accPc, accId, accRec>>
procVars   == <<pc, cid, op, why, attached>>
bootVars   == <<bootTodo, bootFailed, bootMarker>>
vars == <<storeVars, tunnelVars, indexLock, connLock, netLock, running,
          accVars, procVars, bootVars>>

Procs  == Workers \cup {Boot}
Owners == Users \cup {Global}
Record == [fingerprint : Fingerprints, owner : Owners, start_mode : Modes,
           name : Names \cup {NoName}, user_disconnected : {"yes", "no"}]

ASSUME RecordAssumption == NoRecord \notin Record

Stored(id) == records[id] # NoRecord

\* A marker is acted on only through the socket it names: the file must exist.
IsActive(id) == marker[id] # "none" /\ id \in sockets

Set(f, x, v) == [f EXCEPT ![x] = v]

-----------------------------------------------------------------------------
(* Locks: flock()ed files, so threads of one process exclude each other as *)
(* threads of two processes do.                                            *)

IndexFree == indexLock = Free

\* Mutant: a lock that belongs to the process instead of the open file.
ConnFreePerProcess(i) == connLock[i] = Free \/ connLock[i] \in Workers

ConnFree(i) == connLock[i] = Free

\* Mutant: likewise for the network lock.
NetFreePerProcess == netLock = Free \/ netLock \in Workers

NetFree == netLock = Free

-----------------------------------------------------------------------------
(* Service processes.                                                      *)

ThreadsOf(s) == {w \in Workers : Owner[w] = s} \cup (IF s = Daemon THEN {Boot} ELSE {})

\* A stdio service awaits its worker before it reads the next request.
CanAccept(s) ==
  /\ s \in running
  /\ accPc[s] = "idle"
  /\ s # Daemon => \A w \in ThreadsOf(s) : pc[w] = "idle"

ServiceStart(s) ==
  /\ s \notin running
  /\ running' = running \cup {s}
  /\ pc' = IF s = Daemon /\ bootMarker # "this_boot" THEN Set(pc, Boot, "list") ELSE pc
  /\ UNCHANGED <<storeVars, tunnelVars, indexLock, connLock, netLock, accVars,
                 cid, op, why, attached, bootVars>>

\* Places where a tunnel may be running, or half stopped, with no usable marker.
Window == {"upwait", "postup", "rbnet", "rbdown", "rbwait", "save", "downwait"}

\* The process ends: every thread of it stops where it is and every flock it
\* holds is released.  A helper it started lives on.
Terminate(s) ==
  LET mine == ThreadsOf(s) IN
  /\ running' = running \ {s}
  /\ faulted' = faulted \cup {i \in Ids : \E p \in mine : pc[p] \in Window /\ cid[p] = i}
  /\ indexLock' = IF indexLock = s THEN Free ELSE indexLock
  /\ connLock' = [i \in Ids |-> IF connLock[i] \in mine \cup {s} THEN Free ELSE connLock[i]]
  /\ netLock' = IF netLock \in mine THEN Free ELSE netLock
  /\ accPc' = Set(accPc, s, "idle")
  /\ accId' = Set(accId, s, NoId)
  /\ accRec' = Set(accRec, s, NoRecord)
  /\ pc' = [p \in Procs |-> IF p \in mine THEN "idle" ELSE pc[p]]
  /\ cid' = [p \in Procs |-> IF p \in mine THEN NoId ELSE cid[p]]
  /\ op' = [p \in Procs |-> IF p \in mine THEN "connect" ELSE op[p]]
  /\ why' = [p \in Procs |-> IF p \in mine THEN "reconcile" ELSE why[p]]
  /\ attached' = attached \ mine
  /\ bootTodo' = IF s = Daemon THEN {} ELSE bootTodo
  /\ bootFailed' = IF s = Daemon THEN {} ELSE bootFailed
  /\ UNCHANGED <<storeVars, marker, sockets, helper, left, bootMarker>>

\* socket::serve returns when no client is connected, no background work is
\* counted, and the idle timer (or a lease-free Shutdown) says so.  Only the
\* boot thread is counted: a worker is kept alive by its client alone.
IdleExit ==
  /\ CanAccept(Daemon)
  /\ \A w \in ThreadsOf(Daemon) : w \notin attached
  /\ pc[Boot] = "idle"
  /\ Terminate(Daemon)

\* End of input: a stdio service reads it only between requests.
StdioExit(s) ==
  /\ s # Daemon
  /\ CanAccept(s)
  /\ Terminate(s)

ServiceKill(s) ==
  /\ "kill" \in Faults
  /\ s \in running
  /\ Terminate(s)

\* A client whose request is being worked on hangs up or runs into the 60 s
\* deadline: the client is dropped, the worker goes on.
ClientHangup(w) ==
  /\ "hangup" \in Faults
  /\ Owner[w] = Daemon
  /\ w \in attached
  /\ accPc[Daemon] = "idle"
  /\ attached' = attached \ {w}
  /\ UNCHANGED <<storeVars, tunnelVars, indexLock, connLock, netLock, running, accVars,
                 pc, cid, op, why, bootVars>>

\* The machine restarts: /var/run is emptied, the store and the markers stay.
Reboot ==
  /\ "reboot" \in Faults
  /\ running' = {}
  /\ sockets' = {}
  /\ helper' = [i \in Ids |-> "none"]
  /\ left' = [i \in Ids |-> "none"]
  /\ faulted' = {}
  /\ indexLock' = Free
  /\ connLock' = [i \in Ids |-> Free]
  /\ netLock' = Free
  /\ accPc' = [s \in Services |-> "idle"]
  /\ accId' = [s \in Services |-> NoId]
  /\ accRec' = [s \in Services |-> NoRecord]
  /\ pc' = [p \in Procs |-> "idle"]
  /\ cid' = [p \in Procs |-> NoId]
  /\ op' = [p \in Procs |-> "connect"]
  /\ why' = [p \in Procs |-> "reconcile"]
  /\ attached' = {}
  /\ bootTodo' = {}
  /\ bootFailed' = {}
  /\ bootMarker' = "other"
  /\ UNCHANGED <<storeVars, marker>>

-----------------------------------------------------------------------------
(* Requests that run to completion on the accept thread.  A request that   *)
(* is refused (not found, not authorised, name in use, lock timed out)     *)
(* changes nothing unless it already holds a lock.                         *)

\* Mutant: a global record, whose owner_uid is None, equals nothing.
find_by_identity_owned(fp, owner) ==
  {i \in Ids : /\ Stored(i) /\ records[i].fingerprint = fp
               /\ records[i].owner = owner /\ owner # Global}

find_by_identity(fp, owner) ==
  {i \in Ids : Stored(i) /\ records[i].fingerprint = fp /\ records[i].owner = owner}

\* Mutant: likewise for names.
find_by_name_owned(name, owner) ==
  {i \in Ids : /\ Stored(i) /\ records[i].name = name
               /\ records[i].owner = owner /\ owner # Global}

find_by_name(name, owner) ==
  {i \in Ids : Stored(i) /\ records[i].name = name /\ records[i].owner = owner}

\* AddConnection of an identity the store does not hold.
AddNew(s, fp, owner, mode, name, force) ==
  /\ CanAccept(s)
  /\ IndexFree
  /\ find_by_identity(fp, owner) = {}
  /\ force \/ name = NoName \/ find_by_name(name, owner) = {}
  /\ \E i \in Ids \ used :
       /\ records' = Set(records, i,
            [fingerprint |-> fp, owner |-> owner, start_mode |-> mode,
             name |-> name, user_disconnected |-> "no"])
       /\ used' = used \cup {i}
  /\ UNCHANGED <<tunnelVars, indexLock, connLock, netLock, running, accVars, procVars, bootVars>>

\* A mode change; one that lands on automatic clears an earlier explicit
\* disconnect.
WithMode(rec, mode) ==
  IF mode = rec.start_mode THEN rec
  ELSE [rec EXCEPT !.start_mode = mode,
                   !.user_disconnected = IF mode = "automatic" THEN "no" ELSE @]

\* The record AddConnection writes over an existing one of the same identity.
Resubmitted(old, mode, name) ==
  [WithMode(old, mode) EXCEPT !.name = IF name = NoName THEN @ ELSE name]

\* AddConnection of a known identity: the record is read and the new one is
\* made under the index lock, before the connection's own lock is waited for.
AddExisting(s, fp, owner, mode, name, force) ==
  /\ CanAccept(s)
  /\ IndexFree
  /\ \E i \in find_by_identity(fp, owner) :
       LET old == records[i]
           name_changed == name # NoName /\ name # old.name
           mode_changed == mode # old.start_mode
       IN /\ name_changed \/ mode_changed
          /\ name_changed /\ ~force => find_by_name(name, owner) \subseteq {i}
          /\ accPc' = Set(accPc, s, "addwait")
          /\ accId' = Set(accId, s, i)
          /\ accRec' = Set(accRec, s, Resubmitted(old, mode, name))
  /\ indexLock' = s
  /\ UNCHANGED <<storeVars, tunnelVars, connLock, netLock, running, procVars, bootVars>>

\* The accept thread answers and drops whatever locks it held.
AccDone(s) ==
  /\ accPc' = Set(accPc, s, "idle")
  /\ accId' = Set(accId, s, NoId)
  /\ accRec' = Set(accRec, s, NoRecord)
  /\ indexLock' = Free

AddUpdate(s) ==
  /\ accPc[s] = "addwait"
  /\ ConnFree(accId[s])
  /\ records' = Set(records, accId[s], accRec[s])
  /\ AccDone(s)
  /\ UNCHANGED <<used, tunnelVars, connLock, netLock, running, procVars, bootVars>>

\* The two-second wait for the connection's lock runs out: Busy.
AccBusy(s) ==
  /\ accPc[s] \in {"addwait", "rmwait"}
  /\ ~ConnFree(accId[s])
  /\ AccDone(s)
  /\ UNCHANGED <<storeVars, tunnelVars, connLock, netLock, running, procVars, bootVars>>

\* Mutant: the removal does not wait for the index lock.
RemoveUnindexed(s, i) ==
  /\ CanAccept(s)
  /\ Stored(i)
  /\ accPc' = Set(accPc, s, "rmwait")
  /\ accId' = Set(accId, s, i)
  /\ UNCHANGED <<storeVars, tunnelVars, indexLock, connLock, netLock, running, accRec,
                 procVars, bootVars>>

RemoveConnection(s, i) ==
  /\ CanAccept(s)
  /\ IndexFree
  /\ Stored(i)
  /\ indexLock' = s
  /\ accPc' = Set(accPc, s, "rmwait")
  /\ accId' = Set(accId, s, i)
  /\ UNCHANGED <<storeVars, tunnelVars, connLock, netLock, running, accRec, procVars, bootVars>>

\* Mutant: the check for an active tunnel is missing.
RemoveLockUnchecked(s) ==
  /\ accPc[s] = "rmwait"
  /\ ConnFree(accId[s])
  /\ connLock' = Set(connLock, accId[s], s)
  /\ accPc' = Set(accPc, s, "rmcommit")
  /\ UNCHANGED <<accId, accRec, indexLock, storeVars, tunnelVars, netLock, running,
                 procVars, bootVars>>

RemoveLock(s) ==
  /\ accPc[s] = "rmwait"
  /\ ConnFree(accId[s])
  /\ \/ /\ IsActive(accId[s])      \* Busy: disconnect it before removing
        /\ AccDone(s)
        /\ UNCHANGED connLock
     \/ /\ ~IsActive(accId[s])
        /\ connLock' = Set(connLock, accId[s], s)
        /\ accPc' = Set(accPc, s, "rmcommit")
        /\ UNCHANGED <<accId, accRec, indexLock>>
  /\ UNCHANGED <<storeVars, tunnelVars, netLock, running, procVars, bootVars>>

\* require_admin_auth decides between the two outcomes.  The active marker, if
\* a stale one exists, stays behind.
RemoveCommit(s) ==
  /\ accPc[s] = "rmcommit"
  /\ \/ records' = Set(records, accId[s], NoRecord)
     \/ UNCHANGED records
  /\ connLock' = Set(connLock, accId[s], Free)
  /\ AccDone(s)
  /\ UNCHANGED <<used, tunnelVars, netLock, running, procVars, bootVars>>

\* SetConnectionMode reads, decides and writes under the connection's lock.
SetConnectionMode(s, i, mode) ==
  /\ CanAccept(s)
  /\ ConnFree(i)
  /\ Stored(i)
  /\ records[i].start_mode # mode
  /\ records' = Set(records, i, WithMode(records[i], mode))
  /\ UNCHANGED <<used, tunnelVars, indexLock, connLock, netLock, running, accVars,
                 procVars, bootVars>>

-----------------------------------------------------------------------------
(* Connect and disconnect: the accept thread hands the request to a worker. *)

Spawn(s, w, i, what, reason) ==
  /\ CanAccept(s)
  /\ Owner[w] = s
  /\ pc[w] = "idle"
  /\ Stored(i)
  /\ pc' = Set(pc, w, "lock")
  /\ cid' = Set(cid, w, i)
  /\ op' = Set(op, w, what)
  /\ why' = Set(why, w, reason)
  /\ attached' = attached \cup {w}
  /\ UNCHANGED <<storeVars, tunnelVars, indexLock, connLock, netLock, running, accVars, bootVars>>

ConnectConnection(s, w, i) == \E reason \in {"user", "reconcile"} : Spawn(s, w, i, "connect", reason)

DisconnectConnection(s, w, i) == \E reason \in {"user", "teardown"} : Spawn(s, w, i, "disconnect", reason)

\* The thread's operation ends with an answer; the boot thread notes failures.
Respond(p, answer) ==
  /\ pc' = Set(pc, p, IF p = Boot THEN "next" ELSE answer)
  /\ bootFailed' = IF p = Boot /\ answer = "err" THEN bootFailed \cup {cid[p]} ELSE bootFailed

Finish(p, answer) ==
  /\ Respond(p, answer)
  /\ connLock' = Set(connLock, cid[p], Free)

Goto(p, place) == pc' = Set(pc, p, place) /\ UNCHANGED bootFailed

\* The response leaves the channel: to the client, once the accept thread polls
\* it, or to nobody.
Reply(w) ==
  /\ pc[w] \in {"ok", "err"}
  /\ w \in attached => accPc[Owner[w]] = "idle"
  /\ pc' = Set(pc, w, "idle")
  /\ cid' = Set(cid, w, NoId)
  /\ op' = Set(op, w, "connect")
  /\ why' = Set(why, w, "reconcile")
  /\ attached' = attached \ {w}
  /\ UNCHANGED <<storeVars, tunnelVars, indexLock, connLock, netLock, running, accVars, bootVars>>

\* lock_connection_patient (worker, 30 s) or lock_connection (boot, 2 s).
ProcLock(p) ==
  /\ pc[p] = "lock"
  /\ \/ /\ ConnFree(cid[p])
        /\ connLock' = Set(connLock, cid[p], p)
        /\ Goto(p, "intent")
     \/ /\ ~ConnFree(cid[p])
        /\ Respond(p, "err")
        /\ UNCHANGED connLock
  /\ UNCHANGED <<storeVars, tunnelVars, indexLock, netLock, running, accVars,
                 cid, op, why, attached, bootTodo, bootMarker>>

WithFlag(rec, value) == [rec EXCEPT !.user_disconnected = value]

\* Mutant: the snapshot that listed the candidate is trusted.
BacksOffNever(p) == FALSE

\* A reconciliation gives way to an explicit disconnect, read under the lock.
BacksOff(p) == why[p] = "reconcile" /\ records[cid[p]].user_disconnected = "yes"

\* resolve_connect_intent, or the boot thread's recheck under the lock.
ConnectIntent(p) ==
  /\ pc[p] = "intent"
  /\ op[p] = "connect"
  /\ \/ /\ ~Stored(cid[p])                       \* connect: "connection not found"
        /\ Finish(p, "err")
        /\ UNCHANGED records
     \/ /\ Stored(cid[p]) /\ why[p] = "user"
        /\ records' = Set(records, cid[p], WithFlag(records[cid[p]], "no"))
        /\ Goto(p, "check")
        /\ UNCHANGED connLock
     \/ /\ Stored(cid[p]) /\ why[p] = "reconcile"
        /\ IF BacksOff(p)
           THEN Finish(p, "ok")
           ELSE Goto(p, "check") /\ UNCHANGED connLock
        /\ UNCHANGED records
  /\ UNCHANGED <<used, tunnelVars, indexLock, netLock, running, accVars,
                 cid, op, why, attached, bootTodo, bootMarker>>

\* mark_user_disconnected, before the teardown and whatever becomes of it.
DisconnectIntent(p) ==
  /\ pc[p] = "intent"
  /\ op[p] = "disconnect"
  /\ \/ /\ ~Stored(cid[p])
        /\ Finish(p, "err")
        /\ UNCHANGED records
     \/ /\ Stored(cid[p])
        /\ IF why[p] = "user"
           THEN records' = Set(records, cid[p], WithFlag(records[cid[p]], "yes"))
           ELSE UNCHANGED records
        /\ Goto(p, "downnet")
        /\ UNCHANGED connLock
  /\ UNCHANGED <<used, tunnelVars, indexLock, netLock, running, accVars,
                 cid, op, why, attached, bootTodo, bootMarker>>

\* connect up to and including the PreUp hooks: refuse a broken config, adopt a
\* tunnel whose socket is the recorded one, refuse any other socket.
ConnectCheck(p) ==
  LET i == cid[p] IN
  /\ pc[p] = "check"
  /\ \/ /\ records[i].fingerprint \in Broken
        /\ Finish(p, "err")
     \/ /\ records[i].fingerprint \notin Broken
        /\ i \in sockets
        /\ Finish(p, IF marker[i] = "match" THEN "ok" ELSE "err")
     \/ /\ records[i].fingerprint \notin Broken
        /\ i \notin sockets
        /\ Goto(p, "upnet")
        /\ UNCHANGED connLock
     \/ /\ records[i].fingerprint \notin Broken
        /\ i \notin sockets
        /\ "hook" \in Faults
        /\ Finish(p, "err")
  /\ UNCHANGED <<storeVars, tunnelVars, indexLock, netLock, running, accVars,
                 cid, op, why, attached, bootTodo, bootMarker>>

\* lock_system_network_mutation.
NetLock(p) ==
  /\ pc[p] \in {"upnet", "rbnet", "downnet"}
  /\ NetFree
  /\ netLock' = p
  /\ Goto(p, CASE pc[p] = "upnet" -> "up" [] pc[p] = "rbnet" -> "rbdown" [] OTHER -> "down")
  /\ UNCHANGED <<storeVars, tunnelVars, indexLock, connLock, running, accVars,
                 cid, op, why, attached, bootTodo, bootMarker>>

\* The 30 s wait runs out.  A rollback that cannot start leaves the tunnel up.
NetTimeout(p) ==
  /\ pc[p] \in {"upnet", "rbnet", "downnet"}
  /\ ~NetFree
  /\ faulted' = IF pc[p] = "rbnet" THEN faulted \cup {cid[p]} ELSE faulted
  /\ Finish(p, "err")
  /\ UNCHANGED <<storeVars, marker, sockets, helper, left, indexLock, netLock, running, accVars,
                 cid, op, why, attached, bootTodo, bootMarker>>

\* run_gotatun_up: a live pid in the pid file refuses, else the runtime files
\* are cleared and the helper is launched.
RunUp(p) ==
  LET i == cid[p] IN
  /\ pc[p] = "up"
  /\ \/ /\ helper[i] \in {"up", "stopping"}
        /\ Finish(p, "err")
        /\ netLock' = Free
        /\ UNCHANGED <<helper, left>>
     \/ /\ helper[i] \notin {"up", "stopping"}
        /\ helper' = Set(helper, i, "starting")
        /\ left' = Set(left, i, "none")
        /\ Goto(p, "upwait")
        /\ UNCHANGED <<connLock, netLock>>
  /\ UNCHANGED <<storeVars, marker, sockets, faulted, indexLock, running, accVars,
                 cid, op, why, attached, bootTodo, bootMarker>>

\* The launcher process exits once the helper has reported ready or failed.
UpReturn(p) ==
  LET i == cid[p] IN
  /\ pc[p] = "upwait"
  /\ \/ /\ helper[i] \in {"up", "stopping"}
        /\ Goto(p, "postup")
        /\ UNCHANGED connLock
     \/ /\ helper[i] = "none"
        /\ Finish(p, "err")
  /\ netLock' = Free
  /\ UNCHANGED <<storeVars, tunnelVars, indexLock, running, accVars,
                 cid, op, why, attached, bootTodo, bootMarker>>

PostUp(p) ==
  /\ pc[p] = "postup"
  /\ \/ Goto(p, "save")
     \/ "hook" \in Faults /\ Goto(p, "rbnet")
  /\ UNCHANGED <<storeVars, tunnelVars, indexLock, connLock, netLock, running, accVars,
                 cid, op, why, attached, bootTodo, bootMarker>>

\* save_active records the socket's identity; it fails if the socket is gone.
SaveActive(p) ==
  LET i == cid[p] IN
  /\ pc[p] = "save"
  /\ \/ /\ i \in sockets
        /\ marker' = Set(marker, i, "match")
        /\ faulted' = faulted \ {i}
        /\ Finish(p, "ok")
     \/ /\ i \notin sockets \/ "io" \in Faults
        /\ faulted' = faulted \cup {i}
        /\ Finish(p, "err")
        /\ UNCHANGED marker
  /\ UNCHANGED <<storeVars, sockets, helper, left, indexLock, netLock, running, accVars,
                 cid, op, why, attached, bootTodo, bootMarker>>

\* How run_gotatun_down's success and failure continue in their callers: the
\* rollback of a failed PostUp, or disconnect.
DownOk(p) ==
  /\ netLock' = Free
  /\ IF pc[p] \in {"rbdown", "rbwait"}
     THEN Finish(p, "err")
     ELSE Goto(p, "clear") /\ UNCHANGED connLock

\* Mutant: a teardown that was not confirmed counts as done.
DownErrIgnored(p) == netLock' = Free /\ Goto(p, "clear") /\ UNCHANGED <<connLock, faulted>>

DownErr(p) ==
  /\ netLock' = Free
  /\ faulted' = faulted \cup {cid[p]}
  /\ Finish(p, "err")

\* run_gotatun_down: nothing to do, or remove the socket to ask for a shutdown.
RunDown(p) ==
  LET i == cid[p] IN
  /\ pc[p] \in {"down", "rbdown"}
  /\ \/ /\ helper[i] \notin {"up", "stopping"} /\ left[i] = "none" /\ i \notin sockets
        /\ faulted' = IF helper[i] = "none" THEN faulted \ {i} ELSE faulted
        /\ DownOk(p)
        /\ UNCHANGED <<helper, sockets>>
     \/ /\ helper[i] \in {"up", "stopping"} \/ left[i] # "none" \/ i \in sockets
        /\ sockets' = sockets \ {i}
        /\ helper' = IF helper[i] = "up" THEN Set(helper, i, "stopping") ELSE helper
        /\ Goto(p, IF pc[p] = "down" THEN "downwait" ELSE "rbwait")
        /\ UNCHANGED <<faulted, netLock, connLock>>
  /\ UNCHANGED <<storeVars, marker, left, indexLock, running, accVars,
                 cid, op, why, attached, bootTodo, bootMarker>>

\* Mutant: a status that never comes is waited for without a limit.
DownWaitForStatus(p) ==
  LET i == cid[p] IN
  /\ pc[p] \in {"downwait", "rbwait"}
  /\ helper[i] = "none"
  /\ \/ left[i] = "ok" /\ left' = Set(left, i, "none") /\ faulted' = faulted \ {i} /\ DownOk(p)
     \/ left[i] = "error" /\ UNCHANGED left /\ DownErr(p)
  /\ UNCHANGED <<storeVars, marker, sockets, helper, indexLock, running, accVars,
                 cid, op, why, attached, bootTodo, bootMarker>>

\* run_gotatun_down's wait for the cleanup status: "ok" clears the runtime
\* files, "error" is reported, no status within 15 s + 5 s is an error.
DownWait(p) ==
  LET i == cid[p] IN
  /\ pc[p] \in {"downwait", "rbwait"}
  /\ \/ /\ helper[i] = "none" /\ left[i] = "ok"
        /\ left' = Set(left, i, "none")
        /\ faulted' = faulted \ {i}
        /\ DownOk(p)
     \/ /\ ~(helper[i] = "none" /\ left[i] = "ok")
        /\ DownErr(p)
        /\ UNCHANGED left
  /\ UNCHANGED <<storeVars, marker, sockets, helper, indexLock, running, accVars,
                 cid, op, why, attached, bootTodo, bootMarker>>

ClearActive(p) ==
  /\ pc[p] = "clear"
  /\ marker' = Set(marker, cid[p], "none")
  /\ Finish(p, "ok")
  /\ UNCHANGED <<storeVars, sockets, helper, left, faulted, indexLock, netLock, running, accVars,
                 cid, op, why, attached, bootTodo, bootMarker>>

-----------------------------------------------------------------------------
(* Boot reconciliation.                                                    *)

boot_reconcile_candidates ==
  {i \in Ids : /\ Stored(i)
               /\ records[i].owner = Global
               /\ records[i].start_mode = "automatic"
               /\ records[i].user_disconnected = "no"
               /\ ~IsActive(i)}

BootList ==
  /\ pc[Boot] = "list"
  /\ pc' = Set(pc, Boot, "next")
  /\ bootTodo' = boot_reconcile_candidates
  /\ bootFailed' = {}
  /\ UNCHANGED <<storeVars, tunnelVars, indexLock, connLock, netLock, running, accVars,
                 cid, op, why, attached, bootMarker>>

BootNext ==
  /\ pc[Boot] = "next"
  /\ \E i \in bootTodo :
       /\ bootTodo' = bootTodo \ {i}
       /\ cid' = Set(cid, Boot, i)
       /\ pc' = Set(pc, Boot, "lock")
  /\ UNCHANGED <<storeVars, tunnelVars, indexLock, connLock, netLock, running, accVars,
                 op, why, attached, bootFailed, bootMarker>>

\* The boot is marked reconciled only if every candidate came up.
BootEnd ==
  /\ pc[Boot] = "next"
  /\ bootTodo = {}
  /\ pc' = Set(pc, Boot, "idle")
  /\ cid' = Set(cid, Boot, NoId)
  /\ bootMarker' = IF bootFailed = {} THEN "this_boot" ELSE bootMarker
  /\ bootFailed' = {}
  /\ UNCHANGED <<storeVars, tunnelVars, indexLock, connLock, netLock, running, accVars,
                 op, why, attached, bootTodo>>

-----------------------------------------------------------------------------
(* The helper process of an interface.                                     *)

helperFrame == <<storeVars, indexLock, connLock, netLock, running, accVars, procVars, bootVars>>

\* Startup completes: a fresh socket, which no earlier marker describes.
HelperReady(i) ==
  /\ helper[i] = "starting"
  /\ helper' = Set(helper, i, "up")
  /\ sockets' = sockets \cup {i}
  /\ marker' = IF marker[i] = "none" THEN marker ELSE Set(marker, i, "stale")
  /\ UNCHANGED <<left, faulted, helperFrame>>

\* Startup fails and rolls back; when the device cannot be built, or the name
\* file cannot be written, the fresh socket file stays.
HelperFail(i) ==
  /\ helper[i] = "starting"
  /\ helper' = Set(helper, i, "none")
  /\ \/ sockets' = sockets \ {i} /\ UNCHANGED marker
     \/ /\ "io" \in Faults
        /\ sockets' = sockets \cup {i}
        /\ marker' = IF marker[i] = "none" THEN marker ELSE Set(marker, i, "stale")
  /\ UNCHANGED <<left, faulted, helperFrame>>

\* Shutdown completes: cleanup status written, the other files removed.
HelperStopped(i) ==
  /\ helper[i] = "stopping"
  /\ helper' = Set(helper, i, "none")
  /\ sockets' = sockets \ {i}
  /\ \E status \in {"ok", "error"} : left' = Set(left, i, status)
  /\ UNCHANGED <<marker, faulted, helperFrame>>

\* SIGINT or SIGTERM from outside.
HelperSignal(i) ==
  /\ "signal" \in Faults
  /\ helper[i] = "up"
  /\ helper' = Set(helper, i, "stopping")
  /\ UNCHANGED <<marker, sockets, left, faulted, helperFrame>>

\* Killed or aborted while serving or cleaning up: its files stay.
HelperCrash(i) ==
  /\ "crash" \in Faults
  /\ helper[i] \in {"up", "stopping"}
  /\ helper' = Set(helper, i, "none")
  /\ left' = Set(left, i, "dirty")
  /\ UNCHANGED <<marker, sockets, faulted, helperFrame>>

\* Dies during startup without reporting: the launcher keeps its own copy of
\* the sending end of the status socket, so its recv never returns.
HelperStartCrash(i) ==
  /\ "startcrash" \in Faults
  /\ helper[i] = "starting"
  /\ helper' = Set(helper, i, "lost")
  /\ \/ /\ sockets' = sockets \cup {i}
        /\ marker' = IF marker[i] = "none" THEN marker ELSE Set(marker, i, "stale")
     \/ UNCHANGED <<sockets, marker>>
  /\ UNCHANGED <<left, faulted, helperFrame>>

-----------------------------------------------------------------------------
(* The specification.                                                      *)

Init ==
  /\ records = [i \in Ids |-> NoRecord]
  /\ used = {}
  /\ marker = [i \in Ids |-> "none"]
  /\ sockets = {}
  /\ helper = [i \in Ids |-> "none"]
  /\ left = [i \in Ids |-> "none"]
  /\ faulted = {}
  /\ indexLock = Free
  /\ connLock = [i \in Ids |-> Free]
  /\ netLock = Free
  /\ running = {}
  /\ accPc = [s \in Services |-> "idle"]
  /\ accId = [s \in Services |-> NoId]
  /\ accRec = [s \in Services |-> NoRecord]
  /\ pc = [p \in Procs |-> "idle"]
  /\ cid = [p \in Procs |-> NoId]
  /\ op = [p \in Procs |-> "connect"]
  /\ why = [p \in Procs |-> "reconcile"]
  /\ attached = {}
  /\ bootTodo = {}
  /\ bootFailed = {}
  /\ bootMarker = "other"

AddConnection(s) ==
  \E fp \in Fingerprints, owner \in Owners, mode \in StartModes, name \in Names \cup {NoName},
     force \in Forces :
       \/ AddNew(s, fp, owner, mode, name, force)
       \/ AddExisting(s, fp, owner, mode, name, force)

AccStep(s) == AddUpdate(s) \/ AccBusy(s) \/ RemoveLock(s) \/ RemoveCommit(s)

ProcStep(p) ==
  \/ ProcLock(p) \/ ConnectIntent(p) \/ DisconnectIntent(p) \/ ConnectCheck(p)
  \/ NetLock(p) \/ NetTimeout(p) \/ RunUp(p) \/ UpReturn(p) \/ PostUp(p) \/ SaveActive(p)
  \/ RunDown(p) \/ DownWait(p) \/ ClearActive(p)

HelperStep(i) == HelperReady(i) \/ HelperFail(i) \/ HelperStopped(i)

Next ==
  \/ \E s \in Services :
       \/ ServiceStart(s) \/ StdioExit(s) \/ ServiceKill(s) \/ AddConnection(s) \/ AccStep(s)
       \/ \E i \in Ids :
            \/ RemoveConnection(s, i)
            \/ \E mode \in StartModes : SetConnectionMode(s, i, mode)
            \/ \E w \in Workers : ConnectConnection(s, w, i) \/ DisconnectConnection(s, w, i)
  \/ IdleExit
  \/ Reboot
  \/ \E w \in Workers : ClientHangup(w) \/ Reply(w)
  \/ \E p \in Procs : ProcStep(p)
  \/ BootList \/ BootNext \/ BootEnd
  \/ \E i \in Ids : HelperStep(i) \/ HelperSignal(i) \/ HelperCrash(i) \/ HelperStartCrash(i)

Spec == Init /\ [][Next]_vars

\* Threads run, lock waits end and helpers report; users and faults need not act.
Fairness ==
  /\ \A p \in Procs : WF_vars(ProcStep(p))
  /\ \A s \in Services : WF_vars(AccStep(s))
  /\ \A i \in Ids : WF_vars(HelperStep(i))
  /\ WF_vars(BootList) /\ WF_vars(BootNext) /\ WF_vars(BootEnd)
  /\ \A w \in Workers : WF_vars(Reply(w))

FairSpec == Spec /\ Fairness

-----------------------------------------------------------------------------
(* Properties.                                                             *)

InOperation == {"intent", "check", "upnet", "up", "upwait", "postup", "save",
                "rbnet", "rbdown", "rbwait", "downnet", "down", "downwait", "clear"}
InNetwork   == {"up", "upwait", "rbdown", "rbwait", "down", "downwait"}
Connecting  == {"check", "upnet", "up", "upwait", "postup", "save", "rbnet", "rbdown", "rbwait"}
Places      == InOperation \cup {"idle", "lock", "ok", "err", "list", "next"}
HelperStates == {"none", "starting", "up", "stopping", "lost"}

\* The type of every variable.
TypeOK ==
  /\ records \in [Ids -> Record \cup {NoRecord}]
  /\ used \subseteq Ids
  /\ marker \in [Ids -> {"none", "match", "stale"}]
  /\ sockets \subseteq Ids
  /\ helper \in [Ids -> HelperStates]
  /\ left \in [Ids -> {"none", "ok", "error", "dirty"}]
  /\ faulted \subseteq Ids
  /\ indexLock \in Services \cup {Free}
  /\ connLock \in [Ids -> Procs \cup Services \cup {Free}]
  /\ netLock \in Procs \cup {Free}
  /\ running \subseteq Services
  /\ accPc \in [Services -> {"idle", "addwait", "rmwait", "rmcommit"}]
  /\ accId \in [Services -> Ids \cup {NoId}]
  /\ accRec \in [Services -> Record \cup {NoRecord}]
  /\ pc \in [Procs -> Places]
  /\ cid \in [Procs -> Ids \cup {NoId}]
  /\ op \in [Procs -> {"connect", "disconnect"}]
  /\ why \in [Procs -> {"user", "reconcile", "teardown"}]
  /\ attached \subseteq Workers
  /\ bootTodo \subseteq Ids
  /\ bootFailed \subseteq Ids
  /\ bootMarker \in {"this_boot", "other"}

\* Connect, disconnect and remove of one connection exclude each other, across
\* threads and across service processes that share the store, whatever is killed.
OneOperationPerConnection ==
  /\ \A p, q \in Procs :
       pc[p] \in InOperation /\ pc[q] \in InOperation /\ cid[p] = cid[q] => p = q
  /\ \A p \in Procs, s \in Services :
       pc[p] \in InOperation /\ accPc[s] = "rmcommit" => cid[p] # accId[s]

\* Two bring-ups or teardowns are never driven at the same time, and two helpers
\* start at the same time only after a service process was killed under one.
NetworkExclusive ==
  /\ \A p, q \in Procs : pc[p] \in InNetwork /\ pc[q] \in InNetwork => p = q
  /\ \A i, j \in Ids : helper[i] = "starting" /\ helper[j] = "starting"
                         => i = j \/ i \in faulted \/ j \in faulted

\* An automatic bring-up (boot or session reconciliation) is never under way
\* for a connection whose explicit disconnect has been committed.
ReconcileRespectsDisconnect ==
  \A p \in Procs :
    pc[p] \in Connecting /\ why[p] = "reconcile"
      => Stored(cid[p]) /\ records[cid[p]].user_disconnected = "no"

\* Two records never share configuration identity and owner.
IdentityUnique ==
  \A i, j \in Ids :
    /\ Stored(i) /\ Stored(j)
    /\ records[i].fingerprint = records[j].fingerprint
    /\ records[i].owner = records[j].owner
    => i = j

\* Where no client forces a replacement, a name resolves to one connection
\* of an owner.
NamesUnique ==
  \A i, j \in Ids :
    /\ Stored(i) /\ Stored(j)
    /\ records[i].name # NoName
    /\ records[i].name = records[j].name
    /\ records[i].owner = records[j].owner
    => i = j

\* A removed connection never comes back: no handler writes back a record it
\* read before the removal.
NoResurrection ==
  [][\A i \in used : ~Stored(i) => ~Stored(i)']_vars

HelperRunning(i) == helper[i] \in {"starting", "up", "stopping"}

\* Every helper that runs is accounted for: its connection is stored and its
\* marker describes its socket (so list, connect and remove see it), or a
\* thread that holds the connection's lock is on it, or its bring-up or
\* teardown was cut short or failed.  Remove never orphans a working tunnel.
TunnelTracked ==
  \A i \in Ids : HelperRunning(i) =>
    \/ Stored(i) /\ marker[i] = "match" /\ i \in sockets
    \/ i \in faulted
    \/ \E p \in Procs : connLock[i] = p /\ cid[p] = i /\ pc[p] \in Window

\* When disconnect is about to clear the marker and report success, no helper of
\* that connection is left running, unless an earlier operation was cut short.
DisconnectConfirmsDown ==
  \A p \in Procs : pc[p] = "clear" => ~HelperRunning(cid[p]) \/ cid[p] \in faulted

\* The launcher of a helper that died before it reported waits for a byte that
\* never comes, and the worker waits for the launcher.
LauncherStuck(p) == pc[p] = "upwait" /\ helper[cid[p]] = "lost"

\* Every connect or disconnect that a worker takes up is answered (or its process
\* ends): no lock wait, hook or helper handshake blocks it for ever, except the
\* launcher of a helper that dies in its startup.
WorkerAnswers ==
  \A w \in Workers : pc[w] = "lock" ~> pc[w] \in {"ok", "err", "idle"} \/ LauncherStuck(w)

\* user_disconnected is cleared only by an explicit connect or by a start_mode
\* transition that lands on automatic (the comment of the field).
DisconnectSticks ==
  [][\A i \in Ids :
       Stored(i) /\ records[i].user_disconnected = "yes" /\ Stored(i)' /\ records'[i].user_disconnected = "no"
       => \/ records[i].start_mode = "manual" /\ records'[i].start_mode = "automatic"
          \/ \E p \in Procs : cid[p] = i /\ op[p] = "connect" /\ why[p] = "user"
                                /\ connLock[i] = p]_vars

-----------------------------------------------------------------------------
(* The strengthening that makes the safety properties inductive.           *)

\* A busy thread has a connection; the boot thread only ever reconciles, and
\* only while the daemon runs.
Assigned ==
  /\ \A p \in Procs : pc[p] \notin {"idle", "list", "next"} => cid[p] \in Ids
  /\ \A s \in Services : accPc[s] # "idle" => accId[s] \in Ids
  /\ \A s \in Services : accPc[s] = "addwait" => accRec[s] \in Record
  /\ op[Boot] = "connect" /\ why[Boot] = "reconcile"
  /\ Daemon \notin running => pc[Boot] = "idle"

\* A thread is where it is only because it holds the locks of that place.
LockOwnership ==
  /\ \A p \in Procs : pc[p] \in InOperation => connLock[cid[p]] = p
  /\ \A p \in Procs : pc[p] \in InNetwork => netLock = p
  /\ \A s \in Services : accPc[s] # "idle" => indexLock = s
  /\ \A s \in Services : accPc[s] = "rmcommit" => connLock[accId[s]] = s

\* A record that a handler has read is still there, with the same identity.
StoreStable ==
  /\ \A i \in Ids : Stored(i) => i \in used
  /\ \A s \in Services : accPc[s] # "idle" => Stored(accId[s])
  /\ \A s \in Services : accPc[s] = "addwait" =>
       /\ accRec[s].fingerprint = records[accId[s]].fingerprint
       /\ accRec[s].owner = records[accId[s]].owner
  /\ \A p \in Procs : pc[p] \in InOperation \ {"intent"} => Stored(cid[p])

\* A helper is starting under a thread that waits for it, or was abandoned;
\* once connect has seen it ready it is past starting; and what remove found
\* inactive stays so until remove is done.
StartTracked ==
  /\ \A i \in Ids : helper[i] = "starting" =>
       i \in faulted \/ \E p \in Procs : pc[p] = "upwait" /\ cid[p] = i
  /\ \A p \in Procs : pc[p] \in {"postup", "save"} => helper[cid[p]] # "starting"
  /\ \A s \in Services : accPc[s] = "rmcommit" =>
       ~(marker[accId[s]] = "match" /\ accId[s] \in sockets)

\* The conjunction the proofs carry through every step.
IInv ==
  /\ TypeOK /\ Assigned /\ LockOwnership /\ StoreStable /\ IdentityUnique
  /\ ReconcileRespectsDisconnect /\ StartTracked /\ TunnelTracked /\ DisconnectConfirmsDown

\* The name that an add is about to write over a record is nobody else's: the index
\* lock it holds keeps other adds away.
NameReserved ==
  \A s \in Services : accPc[s] = "addwait" =>
    \A j \in Ids \ {accId[s]} :
      Stored(j) /\ records[j].owner = accRec[s].owner /\ records[j].name = accRec[s].name
        => accRec[s].name = NoName

=============================================================================
