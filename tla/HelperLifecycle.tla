-------------------------- MODULE HelperLifecycle --------------------------
(***************************************************************************)
(* One interface: run_gotatun_up and run_gotatun_down in the service, and  *)
(* the helper processes they start and stop.  The two sides never talk:    *)
(* they communicate through the files of /var/run/wireguard (control       *)
(* socket, pid file, name file, cleanup status), one startup byte that the *)
(* launcher waits for, and SIGTERM.  The caller holds the connection lock  *)
(* and the network lock, so one operation runs at a time; a killed service *)
(* releases both and leaves its helper behind.                             *)
(*                                                                         *)
(* A file is modelled by the helper it belongs to, or None.  A helper's    *)
(* utun device is named after the helper.                                  *)
(***************************************************************************)
EXTENDS Naturals

CONSTANTS
  Pids,        \* process ids of helpers, given out in order, each once
  None,
  Faults,      \* environment faults that may happen
  PromptExit   \* timing: a helper that has reported finishes its unlinks
               \* before a later helper binds the control socket

ASSUME PidsAssumption == Pids \subseteq Nat /\ None \notin Pids

FaultKinds == {"io", "crash", "signal", "reuse", "kill"}

ASSUME FaultsAssumption == Faults \subseteq FaultKinds /\ PromptExit \in BOOLEAN

VARIABLES
  sock, pidFile, nameFile,  \* files of the interface: the helper they belong to
  status,                   \* the cleanup status file
  hpc,                      \* program counter of each helper
  ready,                    \* startup byte each helper sent to its launcher
  net,                      \* network changes of each helper
  tun,                      \* helpers whose utun device exists
  failed,                   \* helpers that recorded a teardown error
  dpc, answer,              \* the operation of the service, and its last outcome
  launched,                 \* helper that the "up" in progress started
  dpid, dname,              \* pid and name that the "down" in progress read
  stray,                    \* history: SIGTERM went to another program's process
  lost,                     \* history: changes given up unreverted during this "down"
  orphaned                  \* history: the service died while a helper was starting

files == <<sock, pidFile, nameFile, status>>
helpers == <<hpc, ready, net, tun, failed>>
caller == <<dpc, answer, launched, dpid, dname>>
history == <<stray, lost, orphaned>>
vars == <<files, helpers, caller, history>>

Owners == Pids \cup {None}
Starting == {"spawned", "bind", "device", "network", "name", "pid", "notify"}
Ending == {"cleanup", "stop", "report"}
Unlinking == {"unsock", "unpid", "unname"}
Running == Starting \cup {"run"} \cup Ending \cup Unlinking
UpPcs == {"upcheck", "upclear", "upwait", "upverify"}
DownPcs == {"downread", "downunlink", "downwait", "downterm", "downgone"}

HelperAlive(p) == hpc[p] \in Running

\* kill(pid, 0): a process of that number exists, the helper or another program.
pid_is_alive(p) == p # None /\ hpc[p] \in Running \cup {"foreign"}

TypeOK ==
  /\ sock \in Owners /\ pidFile \in Owners /\ nameFile \in Owners
  /\ status \in {"none", "ok", "error"}
  /\ hpc \in [Pids -> Running \cup {"unused", "exited", "foreign"}]
  /\ ready \in [Pids -> {"none", "ok", "error"}]
  /\ net \in [Pids -> {"never", "applied", "reverted", "left"}]
  /\ tun \subseteq Pids /\ failed \subseteq Pids
  /\ dpc \in UpPcs \cup DownPcs \cup {"idle"}
  /\ answer \in {"none", "ok", "error"}
  /\ launched \in Owners /\ dpid \in Owners /\ dname \in Owners
  /\ stray \in BOOLEAN /\ lost \in BOOLEAN /\ orphaned \in BOOLEAN

Init ==
  /\ sock = None /\ pidFile = None /\ nameFile = None /\ status = "none"
  /\ hpc = [p \in Pids |-> "unused"]
  /\ ready = [p \in Pids |-> "none"]
  /\ net = [p \in Pids |-> "never"]
  /\ tun = {} /\ failed = {}
  /\ dpc = "idle" /\ answer = "none" /\ launched = None /\ dpid = None /\ dname = None
  /\ stray = FALSE /\ lost = FALSE /\ orphaned = FALSE

-----------------------------------------------------------------------------
(* run_gotatun_up.  connect calls it only when the control socket is gone. *)

Answer(result) ==
  /\ dpc' = "idle"
  /\ answer' = result
  /\ launched' = None /\ dpid' = None /\ dname' = None

Fresh(p) == hpc[p] = "unused" /\ \A q \in Pids : q < p => hpc[q] # "unused"

\* Bounds: as many launches as there are Pids, and none once a helper is orphaned
\* (nothing on disk names that helper while it starts: a second one may join it).
UpCall ==
  /\ dpc = "idle"
  /\ ~orphaned
  /\ sock = None
  /\ \E p \in Pids : Fresh(p)
  /\ dpc' = "upcheck"
  /\ answer' = "none"
  /\ UNCHANGED <<files, helpers, launched, dpid, dname, history>>

\* Mutant: an earlier helper is not looked for.
UpCheckBlind ==
  /\ dpc = "upcheck"
  /\ dpc' = "upclear"
  /\ UNCHANGED <<files, helpers, answer, launched, dpid, dname, history>>

\* A helper whose pid file names a live process is never started over.
UpCheck ==
  /\ dpc = "upcheck"
  /\ IF pid_is_alive(pidFile)
       THEN Answer("error")
       ELSE dpc' = "upclear" /\ UNCHANGED <<answer, launched, dpid, dname>>
  /\ UNCHANGED <<files, helpers, history>>

ClearFiles == pidFile' = None /\ nameFile' = None /\ status' = "none"

\* Mutant: the cleanup status of an earlier helper stays.
UpSpawnKeepsStatus(p) ==
  /\ dpc = "upclear"
  /\ Fresh(p)
  /\ pidFile' = None /\ nameFile' = None
  /\ hpc' = [hpc EXCEPT ![p] = "spawned"]
  /\ launched' = p
  /\ dpc' = "upwait"
  /\ UNCHANGED <<sock, status, ready, net, tun, failed, answer, dpid, dname, history>>

\* The files of an earlier helper are removed and a new one is launched.
UpSpawn(p) ==
  /\ dpc = "upclear"
  /\ Fresh(p)
  /\ ClearFiles
  /\ hpc' = [hpc EXCEPT ![p] = "spawned"]
  /\ launched' = p
  /\ dpc' = "upwait"
  /\ UNCHANGED <<sock, ready, net, tun, failed, answer, dpid, dname, history>>

UpSpawnFails ==
  /\ dpc = "upclear"
  /\ "io" \in Faults
  /\ ClearFiles
  /\ Answer("error")
  /\ UNCHANGED <<sock, helpers, history>>

\* The launcher exits with the byte its helper sent; without one it never does.
UpLaunched ==
  /\ dpc = "upwait"
  /\ ready[launched] # "none"
  /\ IF ready[launched] = "ok"
       THEN dpc' = "upverify" /\ UNCHANGED <<answer, launched, dpid, dname>>
       ELSE Answer("error")
  /\ UNCHANGED <<files, helpers, history>>

\* The pid file must name a live process that runs this executable.
UpVerify ==
  /\ dpc = "upverify"
  /\ Answer(IF pidFile # None /\ hpc[pidFile] \in Running THEN "ok" ELSE "error")
  /\ UNCHANGED <<files, helpers, history>>

-----------------------------------------------------------------------------
(* run_gotatun_down.                                                       *)

DownCall ==
  /\ dpc = "idle"
  /\ dpc' = "downread"
  /\ answer' = "none"
  /\ lost' = FALSE
  /\ UNCHANGED <<files, helpers, launched, dpid, dname, stray, orphaned>>

Absent == pidFile = None /\ nameFile = None /\ sock = None /\ status = "none"
TakenOver == pidFile # None /\ hpc[pidFile] = "foreign"

\* Mutant: the identity of the process is not checked.
DownReadUnchecked ==
  /\ dpc = "downread"
  /\ IF Absent THEN Answer("ok")
     ELSE /\ dpc' = IF sock = None THEN "downwait" ELSE "downunlink"
          /\ dpid' = pidFile /\ dname' = nameFile
          /\ UNCHANGED <<answer, launched>>
  /\ UNCHANGED <<files, helpers, history>>

\* Reads name and pid, refuses a pid that another program has taken over, and
\* has nothing to do when no file of the interface is left.
DownRead ==
  /\ dpc = "downread"
  /\ IF TakenOver THEN Answer("error")
     ELSE IF Absent THEN Answer("ok")
     ELSE /\ dpc' = IF sock = None THEN "downwait" ELSE "downunlink"
          /\ dpid' = pidFile /\ dname' = nameFile
          /\ UNCHANGED <<answer, launched>>
  /\ UNCHANGED <<files, helpers, history>>

\* Removing the control socket asks the helper to stop.
DownUnlink ==
  /\ dpc = "downunlink"
  /\ sock # None
  /\ sock' = None
  /\ dpc' = "downwait"
  /\ UNCHANGED <<pidFile, nameFile, status, helpers, answer, launched, dpid, dname, history>>

\* The helper has removed the socket itself in the meantime, or unlink() fails.
DownUnlinkFails ==
  /\ dpc = "downunlink"
  /\ sock = None \/ "io" \in Faults
  /\ Answer("error")
  /\ UNCHANGED <<files, helpers, history>>

DownStatus ==
  /\ dpc \in {"downwait", "downterm"}
  /\ status # "none"
  /\ IF status = "ok"
       THEN dpc' = "downgone" /\ UNCHANGED <<answer, launched, dpid, dname>>
       ELSE Answer("error")
  /\ UNCHANGED <<files, helpers, history>>

\* SIGTERM: a helper in its main loop shuts down, one that has not installed its
\* handlers yet dies, one that is tearing down takes no notice.
Terminated(p) ==
  LET dies == hpc[p] \in Starting IN
  /\ hpc' = [hpc EXCEPT ![p] = IF @ = "run" THEN "cleanup" ELSE IF dies THEN "exited" ELSE @]
  /\ tun' = IF dies THEN tun \ {p} ELSE tun
  /\ lost' = (lost \/ (dies /\ net[p] = "applied" /\ dpc \in DownPcs))
  /\ UNCHANGED <<ready, net, failed>>

\* No status within 15 s: SIGTERM, when the pid that was read is alive.
DownTimeout ==
  /\ dpc = "downwait"
  /\ status = "none"
  /\ dpc' = "downterm"
  /\ IF ~pid_is_alive(dpid) THEN UNCHANGED <<helpers, stray, lost>>
     ELSE IF hpc[dpid] = "foreign" THEN stray' = TRUE /\ UNCHANGED <<helpers, lost>>
     ELSE Terminated(dpid) /\ UNCHANGED stray
  /\ UNCHANGED <<files, answer, launched, dpid, dname, orphaned>>

\* No status within another 5 s.
DownGiveUp ==
  /\ dpc = "downterm"
  /\ status = "none"
  /\ Answer("error")
  /\ UNCHANGED <<files, helpers, history>>

\* The utun device must be gone within 5 s; the files are removed last.
DownFinish ==
  /\ dpc = "downgone"
  /\ dname = None \/ dname \notin tun
  /\ ClearFiles
  /\ Answer("ok")
  /\ UNCHANGED <<sock, helpers, history>>

DownStillThere ==
  /\ dpc = "downgone"
  /\ dname # None /\ dname \in tun
  /\ Answer("error")
  /\ UNCHANGED <<files, helpers, history>>

\* The service is killed: its locks are released, launcher and helper live on.
ServiceKilled ==
  /\ "kill" \in Faults
  /\ dpc # "idle"
  /\ orphaned' = (orphaned \/ dpc = "upwait")
  /\ Answer("none")
  /\ UNCHANGED <<files, helpers, stray, lost>>

-----------------------------------------------------------------------------
(* The helper process.                                                     *)

\* The process ends: its utun device goes with it, its network changes do not.
Exit(p) ==
  /\ hpc' = [hpc EXCEPT ![p] = "exited"]
  /\ tun' = tun \ {p}
  /\ lost' = (lost \/ (net[p] = "applied" /\ net'[p] # "reverted" /\ dpc \in DownPcs))
  /\ UNCHANGED <<stray, orphaned>>

Goto(p, next) == hpc' = [hpc EXCEPT ![p] = next]

\* parse_config_from_env: exactly one peer, with an endpoint; then the utun device.
HelperTun(p) ==
  /\ hpc[p] = "spawned"
  /\ Goto(p, "bind")
  /\ tun' = tun \cup {p}
  /\ UNCHANGED <<files, ready, net, failed, caller, history>>

\* The UAPI socket is bound, in place of a file that may be there.
HelperBind(p) ==
  /\ hpc[p] = "bind"
  /\ PromptExit => \A q \in Pids : hpc[q] \notin Unlinking
  /\ Goto(p, "device")
  /\ sock' = p
  /\ UNCHANGED <<pidFile, nameFile, status, ready, net, tun, failed, caller, history>>

\* DeviceBuilder and apply_wireguard_config, then configure_network begins.
HelperDevice(p) ==
  /\ hpc[p] = "device"
  /\ Goto(p, "network")
  /\ net' = [net EXCEPT ![p] = "applied"]
  /\ UNCHANGED <<files, ready, tun, failed, caller, history>>

HelperNetwork(p) ==
  /\ hpc[p] = "network"
  /\ Goto(p, "name")
  /\ UNCHANGED <<files, ready, net, tun, failed, caller, history>>

HelperName(p) ==
  /\ hpc[p] = "name"
  /\ Goto(p, "pid")
  /\ nameFile' = p
  /\ UNCHANGED <<sock, pidFile, status, ready, net, tun, failed, caller, history>>

HelperPid(p) ==
  /\ hpc[p] = "pid"
  /\ Goto(p, "notify")
  /\ pidFile' = p
  /\ UNCHANGED <<sock, nameFile, status, ready, net, tun, failed, caller, history>>

HelperNotify(p) ==
  /\ hpc[p] = "notify"
  /\ Goto(p, "run")
  /\ ready' = [ready EXCEPT ![p] = "ok"]
  /\ UNCHANGED <<files, net, tun, failed, caller, history>>

\* A startup step fails: configuration, utun device, socket, device.
HelperStartFails(p) ==
  /\ "io" \in Faults
  /\ hpc[p] \in {"spawned", "bind", "device"}
  /\ sock' \in IF hpc[p] = "device" THEN {sock, None} ELSE {sock}
  /\ ready' = [ready EXCEPT ![p] = "error"]
  /\ UNCHANGED <<pidFile, nameFile, status, net, failed, caller>>
  /\ Exit(p)

\* configure_network fails: it has rolled its own changes back.
HelperNetworkFails(p) ==
  /\ "io" \in Faults
  /\ hpc[p] = "network"
  /\ net' = [net EXCEPT ![p] = "reverted"]
  /\ sock' = None
  /\ ready' = [ready EXCEPT ![p] = "error"]
  /\ UNCHANGED <<pidFile, nameFile, status, failed, caller>>
  /\ Exit(p)

\* The name file cannot be written: nothing is undone.
HelperNameFails(p) ==
  /\ "io" \in Faults
  /\ hpc[p] = "name"
  /\ ready' = [ready EXCEPT ![p] = "error"]
  /\ UNCHANGED <<files, net, failed, caller>>
  /\ Exit(p)

\* The pid file cannot be written, or the launcher not notified: everything is undone.
HelperPidFails(p) ==
  /\ "io" \in Faults
  /\ hpc[p] \in {"pid", "notify"}
  /\ \E outcome \in {"reverted", "left"} : net' = [net EXCEPT ![p] = outcome]
  /\ sock' = None
  /\ nameFile' = None
  /\ pidFile' = IF hpc[p] = "pid" THEN pidFile ELSE None
  /\ ready' = IF hpc[p] = "pid" THEN [ready EXCEPT ![p] = "error"] ELSE ready
  /\ UNCHANGED <<status, failed, caller>>
  /\ Exit(p)

\* Mutant: the tick looks at the pid file.
HelperTickPid(p) ==
  /\ hpc[p] = "run"
  /\ pidFile = None
  /\ Goto(p, "cleanup")
  /\ UNCHANGED <<files, ready, net, tun, failed, caller, history>>

\* The 1 s tick: any file at the path of the control socket keeps the helper.
HelperTick(p) ==
  /\ hpc[p] = "run"
  /\ sock = None
  /\ Goto(p, "cleanup")
  /\ UNCHANGED <<files, ready, net, tun, failed, caller, history>>

\* A maintenance task panics: the wait ends with an error, teardown follows.
HelperWaitFails(p) ==
  /\ "io" \in Faults
  /\ hpc[p] = "run"
  /\ Goto(p, "cleanup")
  /\ failed' = failed \cup {p}
  /\ UNCHANGED <<files, ready, net, tun, caller, history>>

\* cleanup_network, awaited before anything else is taken down.
HelperCleanup(p) ==
  /\ hpc[p] = "cleanup"
  /\ Goto(p, "stop")
  /\ net' = [net EXCEPT ![p] = "reverted"]
  /\ UNCHANGED <<files, ready, tun, failed, caller, history>>

HelperCleanupFails(p) ==
  /\ "io" \in Faults
  /\ hpc[p] = "cleanup"
  /\ Goto(p, "stop")
  /\ net' = [net EXCEPT ![p] = "left"]
  /\ failed' = failed \cup {p}
  /\ lost' = (lost \/ dpc \in DownPcs)
  /\ UNCHANGED <<files, ready, tun, caller, stray, orphaned>>

\* device.stop: after 5 s without an answer the device is left to the exit.
HelperStop(p) ==
  /\ hpc[p] = "stop"
  /\ Goto(p, "report")
  /\ tun' \in {tun \ {p}} \cup (IF "io" \in Faults THEN {tun} ELSE {})
  /\ UNCHANGED <<files, ready, net, failed, caller, history>>

\* The status is published by a rename, before the other files go.
HelperReport(p) ==
  /\ hpc[p] = "report"
  /\ Goto(p, "unsock")
  /\ status' = IF p \in failed THEN "error" ELSE "ok"
  /\ UNCHANGED <<sock, pidFile, nameFile, ready, net, tun, failed, caller, history>>

\* The status cannot be written: the helper leaves its other files behind.
HelperReportFails(p) ==
  /\ "io" \in Faults
  /\ hpc[p] = "report"
  /\ UNCHANGED <<files, ready, net, failed, caller>>
  /\ Exit(p)

\* Control socket, pid file and name file are unlinked by path, whosever they are.
HelperUnlink(p) ==
  /\ UNCHANGED <<status, ready, net, failed, caller>>
  /\ \/ /\ hpc[p] = "unsock"
        /\ Goto(p, "unpid")
        /\ sock' = None
        /\ UNCHANGED <<pidFile, nameFile, tun, history>>
     \/ /\ hpc[p] = "unpid"
        /\ Goto(p, "unname")
        /\ pidFile' = None
        /\ UNCHANGED <<sock, nameFile, tun, history>>
     \/ /\ hpc[p] = "unname"
        /\ nameFile' = None
        /\ UNCHANGED <<sock, pidFile>>
        /\ Exit(p)

HelperCrash(p) ==
  /\ "crash" \in Faults
  /\ HelperAlive(p)
  /\ UNCHANGED <<files, ready, net, failed, caller>>
  /\ Exit(p)

\* SIGTERM or SIGINT from outside.
HelperSignal(p) ==
  /\ "signal" \in Faults
  /\ HelperAlive(p)
  /\ Terminated(p)
  /\ UNCHANGED <<files, caller, stray, orphaned>>

\* Another program gets the process id, not within the seconds of an operation.
PidReused(p) ==
  /\ "reuse" \in Faults
  /\ dpc = "idle"
  /\ hpc[p] = "exited"
  /\ hpc' = [hpc EXCEPT ![p] = "foreign"]
  /\ UNCHANGED <<files, ready, net, tun, failed, caller, history>>

-----------------------------------------------------------------------------
HelperStep(p) ==
  \/ HelperTun(p) \/ HelperBind(p) \/ HelperDevice(p) \/ HelperNetwork(p) \/ HelperName(p)
  \/ HelperPid(p) \/ HelperNotify(p) \/ HelperTick(p) \/ HelperCleanup(p) \/ HelperStop(p)
  \/ HelperReport(p) \/ HelperUnlink(p)

HelperFault(p) ==
  \/ HelperStartFails(p) \/ HelperNetworkFails(p) \/ HelperNameFails(p) \/ HelperPidFails(p)
  \/ HelperWaitFails(p) \/ HelperCleanupFails(p) \/ HelperReportFails(p)
  \/ HelperCrash(p) \/ HelperSignal(p) \/ PidReused(p)

ServiceStep ==
  \/ UpCall \/ UpCheck \/ (\E p \in Pids : UpSpawn(p)) \/ UpSpawnFails \/ UpLaunched \/ UpVerify
  \/ DownCall \/ DownRead \/ DownUnlink \/ DownUnlinkFails \/ DownStatus \/ DownTimeout
  \/ DownGiveUp \/ DownFinish \/ DownStillThere

Next ==
  \/ ServiceStep
  \/ ServiceKilled
  \/ \E p \in Pids : HelperStep(p) \/ HelperFault(p)

Spec == Init /\ [][Next]_vars

\* A helper process runs and its 1 s tick fires; users and faults need not act.
FairSpec == Spec /\ \A p \in Pids : WF_vars(HelperStep(p))

-----------------------------------------------------------------------------
(* Properties.                                                             *)

Applied == {p \in Pids : HelperAlive(p) /\ net[p] = "applied"}

\* The operations keep the contract of TunnelContract: one tunnel at a time, "up"
\* succeeds with its own helper's changes made, "down" with all of them reverted.
Contract == INSTANCE TunnelContract WITH
  tunnel <- IF orphaned THEN {} ELSE Applied,
  call <- IF orphaned THEN "void"
          ELSE IF dpc \in UpPcs THEN "up"
          ELSE IF dpc \in DownPcs THEN (IF lost THEN "downlost" ELSE "down")
          ELSE "idle",
  made <- IF orphaned \/ launched = None \/ net[launched] = "never" THEN {} ELSE {launched},
  answer <- IF orphaned THEN "none" ELSE answer

KeepsContract == Contract!Spec

\* A helper in its main loop can be found and stopped: pid file and name file are
\* its own, so a later "up" refuses and a later "down" waits for it.
Registered ==
  \A p \in Pids : hpc[p] = "run" => pidFile = p /\ nameFile = p

\* SIGTERM only ever goes to a process that runs this executable.
NoStraySignal == ~stray

\* A helper whose control socket is gone stops, however its teardown goes.
Stops ==
  \A p \in Pids : hpc[p] = "run" /\ sock = None ~> hpc[p] \notin Running
=============================================================================
