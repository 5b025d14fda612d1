----------------------- MODULE HelperLifecycleProofs -----------------------
(***************************************************************************)
(* Proofs about bringing one interface up and down, for any number of      *)
(* helper processes and any faults: a serving helper is registered,        *)
(* SIGTERM never goes to another program, and the operations implement     *)
(* TunnelContract.  HelperInv is the inductive invariant.  Its core is     *)
(* that at most one helper is active (has not published its status yet),   *)
(* and that an active helper past its start owns pid file and name file.   *)
(***************************************************************************)
EXTENDS HelperLifecycle, TLAPS

\* Helpers that run and have not published a cleanup status.
Active == Starting \cup {"run"} \cup Ending

Early == {"spawned", "bind"}

\* The helpers that run side by side: one active one, and earlier ones that only have
\* files to unlink, before which the active one does not bind the control socket.
Alone ==
  /\ \A p, q \in Pids : hpc[p] \in Active /\ hpc[q] \in Active => p = q
  /\ \A p, q \in Pids : hpc[p] \in Unlinking /\ hpc[q] \in Active => hpc[q] \in Early

\* Whose the files are.
Owned ==
  /\ \A p \in Pids : hpc[p] \in {"run", "notify"} \cup Ending => pidFile = p /\ nameFile = p
  /\ \A p \in Pids : hpc[p] = "pid" => nameFile = p
  /\ status # "none" => \A p \in Pids : hpc[p] \notin Active

\* Where the service stands while a helper starts.
Launching ==
  /\ launched # None <=> dpc \in {"upwait", "upverify"}
  /\ orphaned => dpc \notin UpPcs
  /\ \A p \in Pids : hpc[p] \in Starting /\ ~orphaned => dpc = "upwait" /\ launched = p
  /\ dpc = "upclear" => \A p \in Pids : hpc[p] \notin Active
  /\ \A p \in Pids : ready[p] # "none" => hpc[p] \notin Starting \cup {"unused"}
  /\ dpc = "upverify" => ready[launched] = "ok"
  /\ dpc = "downgone" => status = "ok"

\* The network changes of a helper by its place.
Changes ==
  /\ \A p \in Pids : hpc[p] \in {"unused", "spawned", "bind", "device"} => net[p] = "never"
  /\ \A p \in Pids : ready[p] = "ok" => net[p] # "never"
  /\ \A p \in Pids : hpc[p] \in {"network", "name", "pid", "notify", "run", "cleanup"}
                       => net[p] = "applied"
  /\ \A p \in Pids : hpc[p] \in {"stop", "report"} \cup Unlinking => net[p] # "applied"

\* What a "down" during which changes were given up has before it: an error status, or
\* none and a pid file that keeps it from taking the interface for absent.
LostNoticed ==
  lost /\ dpc \in DownPcs /\ ~orphaned =>
    \/ status = "error"
    \/ /\ status = "none" /\ pidFile # None
       /\ \A p \in Pids : hpc[p] \notin Unlinking
       /\ \A p \in Pids : hpc[p] \in Active => hpc[p] \in {"stop", "report"} /\ p \in failed

\* The process id that a "down" goes by is not another program's.
Signalled ==
  /\ dpc \in {"downunlink", "downwait", "downterm", "downgone"} /\ dpid # None
       => hpc[dpid] # "foreign"
  /\ ~stray

HelperInv == TypeOK /\ Alone /\ Owned /\ Launching /\ Changes /\ LostNoticed /\ Signalled

USE DEF vars, files, helpers, caller, history, Owners, HelperAlive, Applied,
        Running, Starting, Ending, Unlinking, UpPcs, DownPcs

-----------------------------------------------------------------------------
(* Types. *)

\* Every step of the service keeps the types.
LEMMA ServiceTypes == TypeOK /\ (ServiceStep \/ ServiceKilled) => TypeOK'
<1> SUFFICES ASSUME TypeOK, ServiceStep \/ ServiceKilled PROVE TypeOK'
  OBVIOUS
<1> USE DEF TypeOK, Answer, ClearFiles
<1>1. CASE UpCall \/ UpCheck \/ UpSpawnFails \/ UpLaunched \/ UpVerify
  BY <1>1 DEF UpCall, UpCheck, UpSpawnFails, UpLaunched, UpVerify
<1>2. ASSUME NEW p \in Pids, UpSpawn(p) PROVE TypeOK'
  BY <1>2 DEF UpSpawn
<1>3. CASE DownCall \/ DownRead \/ DownUnlink \/ DownUnlinkFails \/ DownStatus
  BY <1>3 DEF DownCall, DownRead, DownUnlink, DownUnlinkFails, DownStatus
<1>4. CASE DownTimeout
  BY <1>4 DEF DownTimeout, Terminated, pid_is_alive
<1>5. CASE DownGiveUp \/ DownFinish \/ DownStillThere \/ ServiceKilled
  BY <1>5 DEF DownGiveUp, DownFinish, DownStillThere, ServiceKilled
<1> QED BY <1>1, <1>2, <1>3, <1>4, <1>5 DEF ServiceStep

\* What a process end does to the helper's own state and the history.
LEMMA ExitFacts ==
  ASSUME TypeOK, NEW p \in Pids, Exit(p)
  PROVE  /\ hpc' = [hpc EXCEPT ![p] = "exited"] /\ hpc' \in [Pids -> Running \cup {"unused", "exited", "foreign"}]
         /\ tun' \subseteq Pids
         /\ lost' \in BOOLEAN /\ stray' \in BOOLEAN /\ orphaned' \in BOOLEAN
         /\ stray' = stray /\ orphaned' = orphaned
BY DEF TypeOK, Exit

\* Every step of a helper keeps the types.
LEMMA HelperTypes ==
  ASSUME TypeOK, NEW p \in Pids, HelperStep(p) \/ HelperFault(p) PROVE TypeOK'
<1> USE DEF TypeOK, Goto
<1>1. CASE HelperTun(p) \/ HelperBind(p) \/ HelperDevice(p) \/ HelperNetwork(p) \/ HelperName(p)
  BY <1>1 DEF HelperTun, HelperBind, HelperDevice, HelperNetwork, HelperName
<1>2. CASE HelperPid(p) \/ HelperNotify(p) \/ HelperTick(p) \/ HelperCleanup(p)
  BY <1>2 DEF HelperPid, HelperNotify, HelperTick, HelperCleanup
<1>3. CASE HelperStop(p) \/ HelperReport(p)
  BY <1>3 DEF HelperStop, HelperReport
<1>4. CASE HelperUnlink(p)
  BY <1>4, ExitFacts DEF HelperUnlink
<1>5. CASE HelperStartFails(p) \/ HelperNetworkFails(p) \/ HelperNameFails(p)
  BY <1>5, ExitFacts DEF HelperStartFails, HelperNetworkFails, HelperNameFails
<1>6. CASE HelperPidFails(p)
  BY <1>6, ExitFacts DEF HelperPidFails
<1>7. CASE HelperWaitFails(p) \/ HelperCleanupFails(p)
  <2>1. CASE HelperWaitFails(p)
    BY <2>1 DEF HelperWaitFails
  <2>2. CASE HelperCleanupFails(p)
    BY <2>2 DEF HelperCleanupFails
  <2> QED BY <1>7, <2>1, <2>2
<1>8. CASE HelperReportFails(p) \/ HelperCrash(p)
  BY <1>8, ExitFacts DEF HelperReportFails, HelperCrash
<1>9. CASE HelperSignal(p) \/ PidReused(p)
  <2>1. CASE HelperSignal(p)
    BY <2>1 DEF HelperSignal, Terminated
  <2>2. CASE PidReused(p)
    BY <2>2 DEF PidReused
  <2> QED BY <1>9, <2>1, <2>2
<1> QED BY <1>1, <1>2, <1>3, <1>4, <1>5, <1>6, <1>7, <1>8, <1>9 DEF HelperStep, HelperFault

\* Every variable keeps its type.
THEOREM Typed == Spec => []TypeOK
<1>1. Init => TypeOK
  BY DEF Init, TypeOK
<1>2. TypeOK /\ [Next]_vars => TypeOK'
  <2>1. TypeOK /\ UNCHANGED vars => TypeOK'
    BY DEF TypeOK
  <2> QED BY <2>1, ServiceTypes, HelperTypes DEF Next
<1> QED BY <1>1, <1>2, PTL DEF Spec

-----------------------------------------------------------------------------
(* Who runs, and whose the files are. *)

\* How a step of helper p moves it: it alone moves, never back among the active ones, past
\* its early places only when nobody unlinks, and to the unlinks only from its report.
LEMMA HelperMoves ==
  ASSUME TypeOK, PromptExit, NEW p \in Pids, HelperStep(p) \/ HelperFault(p)
  PROVE  /\ hpc' = [hpc EXCEPT ![p] = hpc'[p]]
         /\ hpc'[p] \in Active => hpc[p] \in Active
         /\ hpc'[p] \in Starting => hpc[p] \in Starting
         /\ hpc'[p] \in Early => hpc[p] \in Early
         /\ hpc'[p] \in Active /\ hpc[p] \in Early =>
              hpc'[p] \in Early \/ \A q \in Pids : hpc[q] \notin Unlinking
         /\ hpc'[p] \in Unlinking => hpc[p] \in Unlinking \cup {"report"}
         /\ orphaned' = orphaned /\ stray' = stray
         /\ caller' = caller
<1> USE DEF TypeOK, Goto, Active, Early
<1>1. CASE HelperTun(p) \/ HelperBind(p) \/ HelperDevice(p) \/ HelperNetwork(p) \/ HelperName(p)
  BY <1>1 DEF HelperTun, HelperBind, HelperDevice, HelperNetwork, HelperName
<1>2. CASE HelperPid(p) \/ HelperNotify(p) \/ HelperTick(p) \/ HelperCleanup(p)
  BY <1>2 DEF HelperPid, HelperNotify, HelperTick, HelperCleanup
<1>3. CASE HelperStop(p) \/ HelperReport(p) \/ HelperWaitFails(p) \/ HelperCleanupFails(p)
  BY <1>3 DEF HelperStop, HelperReport, HelperWaitFails, HelperCleanupFails
<1>4. CASE HelperUnlink(p)
  BY <1>4, ExitFacts DEF HelperUnlink
<1>5. CASE HelperStartFails(p) \/ HelperNetworkFails(p) \/ HelperNameFails(p) \/ HelperPidFails(p)
  BY <1>5, ExitFacts DEF HelperStartFails, HelperNetworkFails, HelperNameFails, HelperPidFails
<1>6. CASE HelperReportFails(p) \/ HelperCrash(p)
  BY <1>6, ExitFacts DEF HelperReportFails, HelperCrash
<1>7. CASE HelperSignal(p) \/ PidReused(p)
  BY <1>7 DEF HelperSignal, PidReused, Terminated
<1> QED BY <1>1, <1>2, <1>3, <1>4, <1>5, <1>6, <1>7 DEF HelperStep, HelperFault

\* How a step of the service moves helpers: it launches one when none is active, or tells
\* the one it read to stop.
LEMMA ServiceMoves ==
  ASSUME TypeOK, Launching, ServiceStep \/ ServiceKilled
  PROVE  \/ hpc' = hpc
         \/ /\ \A p \in Pids : hpc[p] \notin Active
            /\ dpc = "upclear" /\ dpc' = "upwait"
            /\ \E p \in Pids : hpc' = [hpc EXCEPT ![p] = "spawned"] /\ launched' = p
         \/ /\ dpc = "downwait" /\ dpc' = "downterm" /\ status = "none"
            /\ \E p \in Pids : \/ hpc[p] = "run" /\ hpc' = [hpc EXCEPT ![p] = "cleanup"]
                               \/ hpc[p] \in Starting /\ hpc' = [hpc EXCEPT ![p] = "exited"]
<1>1. CASE UpCall \/ UpCheck \/ UpSpawnFails \/ UpLaunched \/ UpVerify
  BY <1>1 DEF UpCall, UpCheck, UpSpawnFails, UpLaunched, UpVerify
<1>2. ASSUME NEW p \in Pids, UpSpawn(p)
      PROVE  /\ \A q \in Pids : hpc[q] \notin Active
             /\ dpc = "upclear" /\ dpc' = "upwait"
             /\ hpc' = [hpc EXCEPT ![p] = "spawned"] /\ launched' = p
  BY <1>2 DEF UpSpawn, Launching
<1>3. CASE DownCall \/ DownRead \/ DownUnlink \/ DownUnlinkFails \/ DownStatus
  BY <1>3 DEF DownCall, DownRead, DownUnlink, DownUnlinkFails, DownStatus
<1>4. CASE DownTimeout
  <2>1. dpc = "downwait" /\ dpc' = "downterm" /\ status = "none"
    BY <1>4 DEF DownTimeout
  <2>2. CASE ~pid_is_alive(dpid) \/ hpc[dpid] = "foreign"
    BY <1>4, <2>2 DEF DownTimeout
  <2>3. CASE pid_is_alive(dpid) /\ hpc[dpid] # "foreign"
    <3>1. Terminated(dpid) /\ dpid \in Pids
      BY <1>4, <2>3 DEF DownTimeout, TypeOK, pid_is_alive
    <3>2. hpc' = [hpc EXCEPT ![dpid] = hpc'[dpid]]
      BY <3>1 DEF Terminated, TypeOK
    <3>3. \/ hpc[dpid] = "run" /\ hpc'[dpid] = "cleanup"
          \/ hpc[dpid] \in Starting /\ hpc'[dpid] = "exited"
          \/ hpc'[dpid] = hpc[dpid]
      BY <3>1 DEF Terminated, TypeOK
    <3> QED BY <2>1, <3>1, <3>2, <3>3 DEF TypeOK
  <2> QED BY <2>2, <2>3
<1>5. CASE DownGiveUp \/ DownFinish \/ DownStillThere \/ ServiceKilled
  BY <1>5 DEF DownGiveUp, DownFinish, DownStillThere, ServiceKilled
<1> QED BY <1>1, <1>2, <1>3, <1>4, <1>5 DEF ServiceStep

\* One active helper, at every step.
LEMMA StepAlone == ASSUME HelperInv, PromptExit, Next PROVE Alone'
<1> USE DEF HelperInv, Alone, Active, Early
<1>1. CASE ServiceStep \/ ServiceKilled
  BY <1>1, ServiceMoves DEF TypeOK
<1>2. ASSUME NEW p \in Pids, HelperStep(p) \/ HelperFault(p) PROVE Alone'
  BY <1>2, HelperMoves DEF TypeOK
<1> QED BY <1>1, <1>2 DEF Next

\* Only its own helper takes a registration away, or the service once no active one is left.
LEMMA StepOwned == ASSUME HelperInv, PromptExit, Next PROVE Owned'
<1> USE DEF HelperInv, Owned, Active
<1>1. CASE ServiceStep \/ ServiceKilled
  <2>1. CASE UpCall \/ UpCheck \/ UpLaunched \/ UpVerify
    BY <2>1 DEF UpCall, UpCheck, UpLaunched, UpVerify
  <2>2. ASSUME NEW p \in Pids, UpSpawn(p) PROVE Owned'
    BY <2>2 DEF UpSpawn, ClearFiles, Launching, TypeOK
  <2>3. CASE UpSpawnFails \/ DownFinish
    BY <2>3 DEF UpSpawnFails, DownFinish, ClearFiles, Launching
  <2>4. CASE DownCall \/ DownRead \/ DownUnlink \/ DownUnlinkFails \/ DownStatus
    BY <2>4 DEF DownCall, DownRead, DownUnlink, DownUnlinkFails, DownStatus
  <2>5. CASE DownTimeout
    <3>1. UNCHANGED files
      BY <2>5 DEF DownTimeout
    <3> QED BY <1>1, <3>1, <2>5, ServiceMoves DEF TypeOK, DownTimeout
  <2>6. CASE DownGiveUp \/ DownStillThere \/ ServiceKilled
    BY <2>6 DEF DownGiveUp, DownStillThere, ServiceKilled
  <2> QED BY <1>1, <2>1, <2>2, <2>3, <2>4, <2>5, <2>6 DEF ServiceStep
<1>2. ASSUME NEW p \in Pids, HelperStep(p) \/ HelperFault(p) PROVE Owned'
  <2> USE DEF Goto, TypeOK
  <2>1. CASE HelperTun(p) \/ HelperBind(p) \/ HelperDevice(p) \/ HelperNetwork(p) \/ HelperName(p)
    BY <2>1 DEF HelperTun, HelperBind, HelperDevice, HelperNetwork, HelperName, Alone
  <2>2. CASE HelperPid(p) \/ HelperNotify(p) \/ HelperTick(p) \/ HelperCleanup(p)
    BY <2>2 DEF HelperPid, HelperNotify, HelperTick, HelperCleanup, Alone
  <2>3. CASE HelperStop(p) \/ HelperReport(p) \/ HelperWaitFails(p) \/ HelperCleanupFails(p)
    BY <2>3 DEF HelperStop, HelperReport, HelperWaitFails, HelperCleanupFails, Alone
  <2>4. CASE HelperUnlink(p)
    BY <2>4, ExitFacts DEF HelperUnlink, Alone, Early
  <2>5. CASE HelperStartFails(p) \/ HelperNetworkFails(p) \/ HelperNameFails(p) \/ HelperPidFails(p)
    BY <2>5, ExitFacts
       DEF HelperStartFails, HelperNetworkFails, HelperNameFails, HelperPidFails, Alone
  <2>6. CASE HelperReportFails(p) \/ HelperCrash(p)
    BY <2>6, ExitFacts DEF HelperReportFails, HelperCrash
  <2>7. CASE HelperSignal(p) \/ PidReused(p)
    BY <2>7 DEF HelperSignal, PidReused, Terminated
  <2> QED BY <1>2, <2>1, <2>2, <2>3, <2>4, <2>5, <2>6, <2>7 DEF HelperStep, HelperFault
<1> QED BY <1>1, <1>2 DEF Next

\* What a step of helper p tells the service: its startup byte while it starts, its
\* status when it reports, and a pid file that stays as it is from the stop to the report.
LEMMA HelperReports ==
  ASSUME TypeOK, Launching, NEW p \in Pids, HelperStep(p) \/ HelperFault(p)
  PROVE  /\ \A q \in Pids : ready'[q] = ready[q] \/ (q = p /\ hpc[p] \in Starting)
         /\ ready'[p] # "none" => hpc'[p] \notin Starting \cup {"unused"}
         /\ status' = status \/ hpc[p] = "report"
         /\ hpc[p] = "report" => \/ status' = status /\ hpc'[p] \in {"report", "exited"}
                                 \/ status' = (IF p \in failed THEN "error" ELSE "ok") /\ hpc'[p] = "unsock"
         /\ hpc[p] = "stop" => hpc'[p] \in {"stop", "report", "exited"}
         /\ hpc[p] \notin Starting \cup Unlinking => pidFile' = pidFile
         /\ failed \subseteq failed'
<1> USE DEF Goto, TypeOK, Launching
<1>1. CASE HelperTun(p) \/ HelperBind(p) \/ HelperDevice(p) \/ HelperNetwork(p) \/ HelperName(p)
  BY <1>1 DEF HelperTun, HelperBind, HelperDevice, HelperNetwork, HelperName
<1>2. CASE HelperPid(p) \/ HelperNotify(p) \/ HelperTick(p) \/ HelperCleanup(p)
  BY <1>2 DEF HelperPid, HelperNotify, HelperTick, HelperCleanup
<1>3. CASE HelperStop(p) \/ HelperReport(p) \/ HelperWaitFails(p) \/ HelperCleanupFails(p)
  BY <1>3 DEF HelperStop, HelperReport, HelperWaitFails, HelperCleanupFails
<1>4. CASE HelperUnlink(p) \/ HelperReportFails(p) \/ HelperCrash(p)
  BY <1>4, ExitFacts DEF HelperUnlink, HelperReportFails, HelperCrash
<1>5. CASE HelperStartFails(p) \/ HelperNetworkFails(p) \/ HelperNameFails(p) \/ HelperPidFails(p)
  BY <1>5, ExitFacts DEF HelperStartFails, HelperNetworkFails, HelperNameFails, HelperPidFails
<1>6. CASE HelperSignal(p) \/ PidReused(p)
  BY <1>6 DEF HelperSignal, PidReused, Terminated
<1> QED BY <1>1, <1>2, <1>3, <1>4, <1>5, <1>6 DEF HelperStep, HelperFault

\* A helper starts only under the eyes of the "up" that launched it, until the service dies.
LEMMA StepLaunching == ASSUME HelperInv, PromptExit, Next PROVE Launching'
<1> USE DEF HelperInv, Launching, Active
<1>1. CASE ServiceStep \/ ServiceKilled
  <2> USE PidsAssumption DEF Answer
  <2>1. CASE UpCall
    BY <2>1 DEF UpCall
  <2>2. CASE UpCheck
    BY <2>2 DEF UpCheck, Owned, pid_is_alive
  <2>3. ASSUME NEW p \in Pids, UpSpawn(p) PROVE Launching'
    BY <2>3 DEF UpSpawn, Fresh, TypeOK
  <2>4. CASE UpLaunched \/ UpVerify \/ UpSpawnFails
    BY <2>4 DEF UpLaunched, UpVerify, UpSpawnFails, ClearFiles
  <2>5. CASE DownCall \/ DownRead \/ DownUnlink \/ DownUnlinkFails \/ DownStatus
    BY <2>5 DEF DownCall, DownRead, DownUnlink, DownUnlinkFails, DownStatus
  <2>6. CASE DownTimeout
    <3>1. UNCHANGED <<ready, status, launched, orphaned>>
      BY <2>6 DEF DownTimeout, Terminated
    <3> QED BY <1>1, <2>6, <3>1, ServiceMoves DEF DownTimeout, TypeOK
  <2>7. CASE DownGiveUp \/ DownStillThere \/ DownFinish
    BY <2>7 DEF DownGiveUp, DownStillThere, DownFinish, ClearFiles
  <2>8. CASE ServiceKilled
    BY <2>8 DEF ServiceKilled
  <2> QED BY <1>1, <2>1, <2>2, <2>3, <2>4, <2>5, <2>6, <2>7, <2>8 DEF ServiceStep
<1>2. ASSUME NEW p \in Pids, HelperStep(p) \/ HelperFault(p) PROVE Launching'
  <2>1. /\ \A q \in Pids : ready'[q] = ready[q] \/ (q = p /\ hpc[p] \in Starting)
        /\ ready'[p] # "none" => hpc'[p] \notin Starting \cup {"unused"}
        /\ status' = status \/ hpc[p] = "report"
    BY <1>2, HelperReports
  <2>2. \A q \in Pids : q # p => hpc'[q] = hpc[q]
    BY <1>2, HelperMoves DEF TypeOK
  <2>3. UNCHANGED <<caller, orphaned>>
    BY <1>2, HelperMoves
  <2>4. hpc[p] = "report" => status = "none"
    BY DEF Owned
  <2> QED BY <1>2, <2>1, <2>2, <2>3, <2>4, HelperMoves DEF TypeOK
<1> QED BY <1>1, <1>2 DEF Next

\* A helper's place tells what has become of its network changes.
LEMMA StepChanges == ASSUME HelperInv, PromptExit, Next PROVE Changes'
<1> USE DEF HelperInv, Changes
<1>1. CASE ServiceStep \/ ServiceKilled
  <2>1. UNCHANGED <<net, ready>>
    BY <1>1 DEF ServiceStep, ServiceKilled, UpCall, UpCheck, UpSpawn, UpSpawnFails, UpLaunched,
                UpVerify, DownCall, DownRead, DownUnlink, DownUnlinkFails, DownStatus,
                DownTimeout, Terminated, DownGiveUp, DownFinish, DownStillThere
  <2>2. ASSUME NEW p \in Pids, UpSpawn(p) PROVE net[p] = "never"
    BY <2>2 DEF UpSpawn, Fresh
  <2>3. ASSUME NEW p \in Pids, UpSpawn(p) PROVE Changes'
    BY <2>1, <2>2, <2>3 DEF UpSpawn, TypeOK
  <2>4. CASE \A p \in Pids : ~UpSpawn(p)
    <3>1. dpc' # "upwait" \/ hpc' = hpc
      BY <1>1, <2>4 DEF ServiceStep, ServiceKilled, UpCall, UpCheck, UpSpawnFails, UpLaunched,
                UpVerify, DownCall, DownRead, DownUnlink, DownUnlinkFails, DownStatus,
                DownTimeout, DownGiveUp, DownFinish, DownStillThere, Answer
    <3> QED BY <1>1, <2>1, <3>1, ServiceMoves DEF TypeOK
  <2> QED BY <2>3, <2>4
<1>2. ASSUME NEW p \in Pids, HelperStep(p) \/ HelperFault(p) PROVE Changes'
  <2> USE DEF Goto, TypeOK
  <2>1. CASE HelperTun(p) \/ HelperBind(p) \/ HelperDevice(p) \/ HelperNetwork(p) \/ HelperName(p)
    BY <2>1 DEF HelperTun, HelperBind, HelperDevice, HelperNetwork, HelperName, Launching
  <2>2. CASE HelperPid(p) \/ HelperNotify(p) \/ HelperTick(p) \/ HelperCleanup(p)
    BY <2>2 DEF HelperPid, HelperNotify, HelperTick, HelperCleanup
  <2>3. CASE HelperStop(p) \/ HelperReport(p) \/ HelperWaitFails(p) \/ HelperCleanupFails(p)
    BY <2>3 DEF HelperStop, HelperReport, HelperWaitFails, HelperCleanupFails
  <2>4. CASE HelperUnlink(p) \/ HelperReportFails(p) \/ HelperCrash(p)
    BY <2>4, ExitFacts DEF HelperUnlink, HelperReportFails, HelperCrash
  <2>5. CASE HelperStartFails(p) \/ HelperNetworkFails(p) \/ HelperNameFails(p) \/ HelperPidFails(p)
    BY <2>5, ExitFacts DEF HelperStartFails, HelperNetworkFails, HelperNameFails, HelperPidFails
  <2>6. CASE HelperSignal(p) \/ PidReused(p)
    BY <2>6 DEF HelperSignal, PidReused, Terminated
  <2> QED BY <1>2, <2>1, <2>2, <2>3, <2>4, <2>5, <2>6 DEF HelperStep, HelperFault
<1> QED BY <1>1, <1>2 DEF Next

\* When a helper gives its changes up during a "down", by its death or by a failed cleanup.
LEMMA LostStep ==
  ASSUME HelperInv, NEW p \in Pids, HelperStep(p) \/ HelperFault(p),
         lost', ~lost, dpc \in DownPcs, ~orphaned
  PROVE  /\ hpc[p] \in {"run", "cleanup"}
         /\ hpc'[p] = "exited" \/ (hpc'[p] = "stop" /\ p \in failed')
         /\ UNCHANGED <<pidFile, status>>
<1> USE DEF HelperInv, Goto, TypeOK, Launching
<1>1. CASE HelperTun(p) \/ HelperBind(p) \/ HelperDevice(p) \/ HelperNetwork(p) \/ HelperName(p)
  BY <1>1 DEF HelperTun, HelperBind, HelperDevice, HelperNetwork, HelperName
<1>2. CASE HelperPid(p) \/ HelperNotify(p) \/ HelperTick(p) \/ HelperCleanup(p)
  BY <1>2 DEF HelperPid, HelperNotify, HelperTick, HelperCleanup
<1>3. CASE HelperStop(p) \/ HelperReport(p) \/ HelperWaitFails(p) \/ HelperCleanupFails(p)
  BY <1>3 DEF HelperStop, HelperReport, HelperWaitFails, HelperCleanupFails
<1>4. CASE HelperUnlink(p) \/ HelperReportFails(p) \/ HelperCrash(p)
  BY <1>4 DEF HelperUnlink, HelperReportFails, HelperCrash, Exit, Changes
<1>5. CASE HelperStartFails(p) \/ HelperNetworkFails(p) \/ HelperNameFails(p) \/ HelperPidFails(p)
  BY <1>5 DEF HelperStartFails, HelperNetworkFails, HelperNameFails, HelperPidFails
<1>6. CASE HelperSignal(p) \/ PidReused(p)
  BY <1>6 DEF HelperSignal, PidReused, Terminated
<1> QED BY <1>1, <1>2, <1>3, <1>4, <1>5, <1>6 DEF HelperStep, HelperFault

\* Given-up changes stay noticeable until the "down" has answered.
LEMMA StepLost == ASSUME HelperInv, PromptExit, Next PROVE LostNoticed'
<1> USE DEF HelperInv, LostNoticed, Active
<1>1. CASE ServiceStep \/ ServiceKilled
  <2> USE DEF Answer
  <2>1. CASE UpCall \/ UpCheck \/ UpLaunched \/ UpVerify \/ UpSpawnFails
    BY <2>1 DEF UpCall, UpCheck, UpLaunched, UpVerify, UpSpawnFails
  <2>2. ASSUME NEW p \in Pids, UpSpawn(p) PROVE LostNoticed'
    BY <2>2 DEF UpSpawn
  <2>3. CASE DownCall \/ DownRead \/ DownUnlink \/ DownUnlinkFails \/ DownStatus
    BY <2>3 DEF DownCall, DownRead, DownUnlink, DownUnlinkFails, DownStatus
  <2>4. CASE DownTimeout
    <3>1. UNCHANGED <<status, pidFile, orphaned, failed>> /\ dpc = "downwait" /\ status = "none"
      BY <2>4 DEF DownTimeout, Terminated
    <3>2. ~orphaned => \A p \in Pids : hpc[p] \notin Starting
      BY <3>1 DEF Launching
    <3>3. ~orphaned /\ lost' => lost
      BY <2>4, <3>2 DEF DownTimeout, Terminated, pid_is_alive, TypeOK
    <3> QED BY <1>1, <3>1, <3>2, <3>3, ServiceMoves DEF TypeOK
  <2>5. CASE DownGiveUp \/ DownStillThere \/ DownFinish \/ ServiceKilled
    BY <2>5 DEF DownGiveUp, DownStillThere, DownFinish, ServiceKilled
  <2> QED BY <1>1, <2>1, <2>2, <2>3, <2>4, <2>5 DEF ServiceStep
<1>2. ASSUME NEW p \in Pids, HelperStep(p) \/ HelperFault(p) PROVE LostNoticed'
  <2> SUFFICES ASSUME lost', dpc \in DownPcs, ~orphaned PROVE LostNoticed'
    BY <1>2, HelperMoves
  <2>1. CASE ~lost
    <3>1. /\ hpc[p] \in {"run", "cleanup"}
          /\ hpc'[p] = "exited" \/ (hpc'[p] = "stop" /\ p \in failed')
          /\ UNCHANGED <<pidFile, status>>
      BY <1>2, <2>1, LostStep
    <3>2. status = "none" /\ pidFile = p
      BY <3>1 DEF Owned
    <3>3. \A q \in Pids : q # p => hpc[q] \notin Active /\ hpc[q] \notin Unlinking
      BY <3>1 DEF Alone, Early
    <3> QED BY <1>2, <3>1, <3>2, <3>3, HelperMoves, PidsAssumption DEF TypeOK
  <2>2. CASE lost /\ status = "error"
    <3>1. hpc[p] \notin Active
      BY <2>2 DEF Owned
    <3>2. status' = status
      BY <1>2, <3>1, HelperReports
    <3> QED BY <2>2, <3>2
  <2>3. CASE lost /\ status # "error"
    <3>1. /\ status = "none" /\ pidFile # None
          /\ \A q \in Pids : hpc[q] \notin Unlinking
          /\ \A q \in Pids : hpc[q] \in Active => hpc[q] \in {"stop", "report"} /\ q \in failed
      BY <2>3
    <3>2. \/ status' = "error"
          \/ status' = "none" /\ hpc'[p] \notin Unlinking
      <4>1. CASE hpc[p] = "report"
        <5>1. \/ status' = status /\ hpc'[p] \in {"report", "exited"}
              \/ status' = (IF p \in failed THEN "error" ELSE "ok")
          BY <1>2, <4>1, HelperReports
        <5> QED BY <3>1, <4>1, <5>1
      <4>2. CASE hpc[p] # "report"
        <5>1. status' = status
          BY <1>2, <4>2, HelperReports
        <5>2. hpc'[p] \notin Unlinking
          BY <1>2, <3>1, <4>2, HelperMoves
        <5> QED BY <3>1, <5>1, <5>2
      <4> QED BY <4>1, <4>2
    <3>3. pidFile' = pidFile
      BY <1>2, <3>1, HelperReports
    <3>4. hpc'[p] \in Active => hpc'[p] \in {"stop", "report"} /\ p \in failed'
      BY <1>2, <3>1, HelperReports, HelperMoves
    <3>5. \A q \in Pids : q # p => hpc'[q] = hpc[q]
      BY <1>2, HelperMoves DEF TypeOK
    <3> QED BY <1>2, <3>1, <3>2, <3>3, <3>4, <3>5, HelperReports
  <2> QED BY <2>1, <2>2, <2>3
<1> QED BY <1>1, <1>2 DEF Next

\* The process id of a "down" is not given away while it runs.  This part does not rest on
\* the others.
LEMMA StepSignalled == ASSUME TypeOK, Signalled, [Next]_vars PROVE Signalled'
<1> USE DEF Signalled, TypeOK
<1>1. CASE UNCHANGED vars
  BY <1>1
<1>2. CASE UpCall \/ UpCheck \/ UpLaunched \/ UpVerify \/ UpSpawnFails
  BY <1>2 DEF UpCall, UpCheck, UpLaunched, UpVerify, UpSpawnFails, Answer
<1>3. ASSUME NEW p \in Pids, UpSpawn(p) PROVE Signalled'
  BY <1>3 DEF UpSpawn
<1>4. CASE DownCall \/ DownUnlink \/ DownUnlinkFails \/ DownStatus
  BY <1>4 DEF DownCall, DownUnlink, DownUnlinkFails, DownStatus, Answer
<1>5. CASE DownRead
  BY <1>5 DEF DownRead, TakenOver, Answer
<1>6. CASE DownTimeout
  BY <1>6 DEF DownTimeout, Terminated, pid_is_alive
<1>7. CASE DownGiveUp \/ DownStillThere \/ DownFinish \/ ServiceKilled
  BY <1>7 DEF DownGiveUp, DownStillThere, DownFinish, ServiceKilled, Answer
<1>8. ASSUME NEW p \in Pids, HelperStep(p) \/ HelperFault(p) PROVE Signalled'
  <2> USE DEF Goto
  <2>1. CASE HelperTun(p) \/ HelperBind(p) \/ HelperDevice(p) \/ HelperNetwork(p) \/ HelperName(p)
    BY <2>1 DEF HelperTun, HelperBind, HelperDevice, HelperNetwork, HelperName
  <2>2. CASE HelperPid(p) \/ HelperNotify(p) \/ HelperTick(p) \/ HelperCleanup(p)
    BY <2>2 DEF HelperPid, HelperNotify, HelperTick, HelperCleanup
  <2>3. CASE HelperStop(p) \/ HelperReport(p) \/ HelperWaitFails(p) \/ HelperCleanupFails(p)
    BY <2>3 DEF HelperStop, HelperReport, HelperWaitFails, HelperCleanupFails
  <2>4. CASE HelperUnlink(p) \/ HelperReportFails(p) \/ HelperCrash(p)
    BY <2>4, ExitFacts DEF HelperUnlink, HelperReportFails, HelperCrash
  <2>5. CASE HelperStartFails(p) \/ HelperNetworkFails(p) \/ HelperNameFails(p) \/ HelperPidFails(p)
    BY <2>5, ExitFacts DEF HelperStartFails, HelperNetworkFails, HelperNameFails, HelperPidFails
  <2>6. CASE HelperSignal(p) \/ PidReused(p)
    BY <2>6 DEF HelperSignal, PidReused, Terminated
  <2> QED BY <1>8, <2>1, <2>2, <2>3, <2>4, <2>5, <2>6 DEF HelperStep, HelperFault
<1> QED BY <1>1, <1>2, <1>3, <1>4, <1>5, <1>6, <1>7, <1>8 DEF Next, ServiceStep

-----------------------------------------------------------------------------
(* The results. *)

\* run_gotatun_down never signals a process of another program, whatever the timing of
\* unlinks: the identity check of DownRead holds until its last SIGTERM.
THEOREM SignalsStayHome == Spec => []NoStraySignal
<1>1. Init => Signalled
  BY DEF Init, Signalled
<1>2. TypeOK /\ Signalled /\ [Next]_vars => Signalled'
  BY StepSignalled
<1>3. Signalled => NoStraySignal
  BY DEF Signalled, NoStraySignal
<1> QED BY <1>1, <1>2, <1>3, Typed, PTL DEF Spec

\* The initial state, no helper and no file, satisfies HelperInv.
LEMMA InitHelperInv == Init => HelperInv
<1> SUFFICES ASSUME Init PROVE HelperInv
  OBVIOUS
<1> USE DEF Init
<1>1. TypeOK
  BY DEF TypeOK
<1>2. Alone /\ Owned /\ Launching /\ Changes
  BY DEF Alone, Owned, Launching, Changes, Active
<1>3. LostNoticed /\ Signalled
  BY DEF LostNoticed, Signalled
<1> QED BY <1>1, <1>2, <1>3 DEF HelperInv

\* Under PromptExit every step preserves HelperInv.
LEMMA StepHelperInv == ASSUME PromptExit, HelperInv, [Next]_vars PROVE HelperInv'
<1>1. CASE UNCHANGED vars
  BY <1>1 DEF HelperInv, TypeOK, Alone, Owned, Launching, Changes, LostNoticed, Signalled
<1>2. CASE Next
  <2>1. TypeOK'
    BY <1>2, ServiceTypes, HelperTypes DEF HelperInv, Next
  <2>2. Signalled'
    BY StepSignalled DEF HelperInv
  <2> QED BY <1>2, <2>1, <2>2, StepAlone, StepOwned, StepLaunching, StepChanges, StepLost
          DEF HelperInv
<1> QED BY <1>1, <1>2

\* HelperInv is an inductive invariant of the service and its helpers.
THEOREM Induction == ASSUME PromptExit PROVE Spec => []HelperInv
<1>1. Init => HelperInv
  BY InitHelperInv
<1>2. HelperInv /\ [Next]_vars => HelperInv'
  BY StepHelperInv
<1> QED BY <1>1, <1>2, PTL DEF Spec

\* A helper in its main loop has its own pid file and name file, so that a later "up"
\* refuses to start over it and a later "down" finds it, as long as a helper that has
\* published its status ends before a later one binds.
THEOREM ServingIsRegistered == ASSUME PromptExit PROVE Spec => []Registered
<1>1. HelperInv => Registered
  BY DEF HelperInv, Owned, Registered
<1> QED BY <1>1, Induction, PTL

-----------------------------------------------------------------------------
(* The contract. *)

\* The abstract call and the abstract "made" of TunnelContract, as the instance maps them.
CallBar ==
  IF orphaned THEN "void"
  ELSE IF dpc \in UpPcs THEN "up"
  ELSE IF dpc \in DownPcs THEN (IF lost THEN "downlost" ELSE "down")
  ELSE "idle"

MadeBar == IF orphaned \/ launched = None \/ net[launched] = "never" THEN {} ELSE {launched}

\* A step that leaves calls, helpers' changes and answers alone is a stutter.
LEMMA Stutter ==
  ASSUME UNCHANGED <<orphaned, answer>>, Applied' = Applied, CallBar' = CallBar, MadeBar' = MadeBar
  PROVE  UNCHANGED Contract!vars
BY DEF Contract!vars, CallBar, MadeBar

\* Once orphaned, the contract is void and every step is a stutter.
LEMMA VoidStutters ==
  ASSUME orphaned, orphaned' PROVE UNCHANGED Contract!vars
BY DEF Contract!vars

\* The beginning of a call.
LEMMA CallStep ==
  ASSUME HelperInv, ~orphaned, ~orphaned', UpCall \/ DownCall PROVE Contract!Next
<1>1. Applied' = Applied /\ launched = None /\ launched' = None
  BY DEF UpCall, DownCall, HelperInv, Launching
<1>2. CASE UpCall
  <2>1. Contract!Call("up")
    BY <1>1, <1>2 DEF UpCall, Contract!Call
  <2> QED BY <2>1 DEF Contract!Next
<1>3. CASE DownCall
  <2>1. Contract!Call("down")
    BY <1>1, <1>3 DEF DownCall, Contract!Call
  <2> QED BY <2>1 DEF Contract!Next
<1> QED BY <1>2, <1>3

\* The end of a call: an operation that answers "ok" has kept its promise.
LEMMA AnswerStep ==
  ASSUME HelperInv, ~orphaned, ~orphaned', dpc \in UpPcs \cup DownPcs, NEW r \in {"none", "ok", "error"},
         Answer(r), UNCHANGED <<helpers, lost>>,
         r = "ok" => \/ dpc = "upverify"
                     \/ dpc \in DownPcs /\ ~lost /\ Applied = {}
  PROVE  Contract!Next
<1>1. Applied' = Applied /\ launched' = None /\ dpc' = "idle" /\ answer' = r
  BY DEF Answer
<1>2. CASE r = "ok"
  <2>1. dpc = "upverify" => launched # None /\ net[launched] # "never"
    BY DEF HelperInv, Launching, Changes, TypeOK
  <2>2. Contract!Succeed
    BY <1>1, <1>2, <2>1 DEF Contract!Succeed
  <2> QED BY <2>2 DEF Contract!Next
<1>3. CASE r # "ok"
  <2>1. Contract!Fail
    BY <1>1, <1>3 DEF Contract!Fail
  <2> QED BY <2>1 DEF Contract!Next
<1> QED BY <1>2, <1>3

\* A "down" that finds no file of the interface, or an "ok" status, may answer "ok".
LEMMA DownPromise ==
  ASSUME HelperInv, ~orphaned, dpc \in DownPcs, (dpc = "downread" /\ Absent) \/ dpc = "downgone"
  PROVE  ~lost /\ Applied = {}
<1> USE DEF HelperInv, Active
<1>1. ~lost
  BY DEF LostNoticed, Launching, Absent
<1>2. \A p \in Pids : hpc[p] \notin Starting
  BY DEF Launching
<1>3. ASSUME NEW p \in Pids, hpc[p] \in Running PROVE net[p] # "applied"
  <2>1. hpc[p] \notin {"run", "cleanup"}
    BY PidsAssumption DEF Owned, Launching, Absent
  <2> QED BY <1>2, <1>3, <2>1 DEF Changes
<1> QED BY <1>1, <1>3

\* Every step of the service is a step of the contract or a stutter.
LEMMA ServiceContract ==
  ASSUME HelperInv, ~orphaned, ServiceStep \/ ServiceKilled
  PROVE  Contract!Next \/ UNCHANGED Contract!vars
<1>1. CASE UpCall \/ DownCall
  <2>1. ~orphaned'
    BY <1>1 DEF UpCall, DownCall
  <2> QED BY <1>1, <2>1, CallStep
<1>2. CASE UpCheck
  <2>1. CASE pid_is_alive(pidFile)
    BY <1>2, <2>1, AnswerStep DEF UpCheck
  <2>2. CASE ~pid_is_alive(pidFile)
    BY <1>2, <2>2, Stutter DEF UpCheck, CallBar, MadeBar
  <2> QED BY <2>1, <2>2
<1>3. ASSUME NEW p \in Pids, UpSpawn(p) PROVE UNCHANGED Contract!vars
  <2>1. net[p] = "never" /\ hpc[p] = "unused" /\ launched = None
    BY <1>3 DEF HelperInv, Launching, Changes, UpSpawn, Fresh
  <2>2. UNCHANGED <<orphaned, answer, net>> /\ launched' = p /\ dpc = "upclear" /\ dpc' = "upwait"
    BY <1>3 DEF UpSpawn
  <2>3. \A q \in Pids : q # p => hpc'[q] = hpc[q]
    BY <1>3 DEF UpSpawn, HelperInv, TypeOK
  <2>4. Applied' = Applied
    BY <2>1, <2>2, <2>3
  <2> QED BY <2>1, <2>2, <2>4, Stutter DEF CallBar, MadeBar
<1>4. CASE UpSpawnFails
  BY <1>4, AnswerStep DEF UpSpawnFails
<1>5. CASE UpLaunched
  <2>1. CASE ready[launched] = "ok"
    BY <1>5, <2>1, Stutter DEF UpLaunched, CallBar, MadeBar
  <2>2. CASE ready[launched] # "ok"
    BY <1>5, <2>2, AnswerStep DEF UpLaunched
  <2> QED BY <2>1, <2>2
<1>6. CASE UpVerify
  BY <1>6, AnswerStep DEF UpVerify
<1>7. CASE DownRead
  <2>1. CASE TakenOver
    BY <1>7, <2>1, AnswerStep DEF DownRead
  <2>2. CASE ~TakenOver /\ Absent
    BY <1>7, <2>2, AnswerStep, DownPromise DEF DownRead
  <2>3. CASE ~TakenOver /\ ~Absent
    BY <1>7, <2>3, Stutter DEF DownRead, CallBar, MadeBar
  <2> QED BY <2>1, <2>2, <2>3
<1>8. CASE DownUnlink
  BY <1>8, Stutter DEF DownUnlink, CallBar, MadeBar
<1>9. CASE DownUnlinkFails \/ DownGiveUp \/ DownStillThere
  BY <1>9, AnswerStep DEF DownUnlinkFails, DownGiveUp, DownStillThere
<1>10. CASE DownStatus
  <2>1. CASE status = "ok"
    BY <1>10, <2>1, Stutter DEF DownStatus, CallBar, MadeBar
  <2>2. CASE status # "ok"
    BY <1>10, <2>2, AnswerStep DEF DownStatus
  <2> QED BY <2>1, <2>2
<1>11. CASE DownTimeout
  <2>1. UNCHANGED <<orphaned, answer, launched, net>> /\ dpc = "downwait" /\ dpc' = "downterm"
    BY <1>11 DEF DownTimeout, Terminated
  <2>2. \A p \in Pids : hpc[p] \notin Starting
    BY <2>1 DEF HelperInv, Launching
  <2>3. lost' = lost
    BY <1>11, <2>2 DEF DownTimeout, Terminated, pid_is_alive, HelperInv, TypeOK
  <2>4. Applied' = Applied
    BY <1>11, <2>1, <2>2, ServiceMoves DEF HelperInv, TypeOK
  <2> QED BY <2>1, <2>3, <2>4, Stutter DEF CallBar, MadeBar
<1>12. CASE DownFinish
  BY <1>12, AnswerStep, DownPromise DEF DownFinish
<1>13. CASE ServiceKilled
  <2>1. CASE dpc = "upwait"
    <3>1. Contract!Void
      BY <1>13, <2>1 DEF ServiceKilled, Contract!Void
    <3> QED BY <3>1 DEF Contract!Next
  <2>2. CASE dpc # "upwait"
    BY <1>13, <2>2, AnswerStep DEF ServiceKilled, HelperInv, TypeOK
  <2> QED BY <2>1, <2>2
<1> QED BY <1>1, <1>2, <1>3, <1>4, <1>5, <1>6, <1>7, <1>8, <1>9, <1>10, <1>11, <1>12, <1>13
        DEF ServiceStep

\* A helper's changes come into place under the "up" that launched it, alone.
LEMMA EstablishStep ==
  ASSUME HelperInv, ~orphaned, NEW p \in Pids, HelperDevice(p)
  PROVE  Contract!Next
<1> USE DEF HelperInv, HelperDevice, Goto
<1>1. dpc = "upwait" /\ launched = p
  BY DEF Launching
<1>2. Applied = {}
  BY DEF Alone, Active, Early, Changes
<1>3. Applied' = {p}
  BY <1>2 DEF TypeOK
<1>4. net'[p] = "applied" /\ net[p] = "never"
  BY DEF TypeOK, Changes
<1>5. Contract!Establish(p)
  BY <1>1, <1>2, <1>3, <1>4, PidsAssumption DEF Contract!Establish
<1> QED BY <1>5 DEF Contract!Next

\* A helper takes its changes back, or ends without: a "down" in progress then knows.
LEMMA WithdrawStep ==
  ASSUME HelperInv, ~orphaned, NEW p \in Pids,
         UNCHANGED <<caller, orphaned>>,
         p \in Applied, Applied' = Applied \ {p},
         net'[p] # "never", \A q \in Pids : q # p => net'[q] = net[q],
         lost' = lost \/ lost' = (lost \/ dpc \in DownPcs)
  PROVE  Contract!Next
<1>1. MadeBar' = MadeBar
  BY DEF MadeBar, HelperInv, TypeOK
<1>2. CASE lost' = lost
  <2>1. Contract!Revert(p)
    BY <1>1, <1>2 DEF Contract!Revert, MadeBar
  <2> QED BY <2>1 DEF Contract!Next
<1>3. CASE lost' = (lost \/ dpc \in DownPcs)
  <2>1. Contract!Abandon(p)
    BY <1>1, <1>3 DEF Contract!Abandon, MadeBar
  <2> QED BY <2>1 DEF Contract!Next
<1> QED BY <1>2, <1>3

\* A step of a helper that leaves the changes in place as they are is a stutter.
LEMMA QuietStep ==
  ASSUME HelperInv, ~orphaned, UNCHANGED <<caller, orphaned, net, lost>>, Applied' = Applied
  PROVE  UNCHANGED Contract!vars
BY Stutter DEF CallBar, MadeBar

\* The end of a process whose changes were in place withdraws them, any other is quiet.
LEMMA ExitContract ==
  ASSUME HelperInv, ~orphaned, NEW p \in Pids, Exit(p), UNCHANGED caller,
         net' \in [Pids -> {"never", "applied", "reverted", "left"}],
         \A q \in Pids : q # p => net'[q] = net[q],
         net'[p] = net[p] \/ (net[p] = "applied" /\ net'[p] # "never"),
         hpc[p] \in Running
  PROVE  Contract!Next \/ UNCHANGED Contract!vars
<1>1. hpc' = [hpc EXCEPT ![p] = "exited"] /\ orphaned' = orphaned
  BY ExitFacts DEF HelperInv
<1>2. CASE net[p] = "applied"
  <2>1. p \in Applied /\ Applied' = Applied \ {p}
    BY <1>1, <1>2 DEF HelperInv, TypeOK
  <2>2. lost' = lost \/ lost' = (lost \/ dpc \in DownPcs)
    BY <1>2 DEF Exit, HelperInv, TypeOK
  <2> QED BY <1>1, <1>2, <2>1, <2>2, WithdrawStep
<1>3. CASE net[p] # "applied"
  <2>1. net' = net
    BY <1>3 DEF HelperInv, TypeOK
  <2>2. lost' = lost
    BY <1>3 DEF Exit, HelperInv, TypeOK
  <2>3. Applied' = Applied
    BY <1>1, <1>3, <2>1 DEF HelperInv, TypeOK
  <2> QED BY <1>1, <2>1, <2>2, <2>3, QuietStep
<1> QED BY <1>2, <1>3

\* Every step of a helper is a step of the contract or a stutter.
LEMMA HelperContract ==
  ASSUME HelperInv, ~orphaned, NEW p \in Pids, HelperStep(p) \/ HelperFault(p)
  PROVE  Contract!Next \/ UNCHANGED Contract!vars
<1> USE DEF HelperInv, Goto
<1>1. CASE HelperTun(p) \/ HelperBind(p) \/ HelperNetwork(p) \/ HelperName(p)
  <2>1. Applied' = Applied
    BY <1>1 DEF HelperTun, HelperBind, HelperNetwork, HelperName, TypeOK
  <2> QED BY <1>1, <2>1, QuietStep DEF HelperTun, HelperBind, HelperNetwork, HelperName
<1>2. CASE HelperPid(p) \/ HelperNotify(p) \/ HelperTick(p)
  <2>1. Applied' = Applied
    BY <1>2 DEF HelperPid, HelperNotify, HelperTick, TypeOK
  <2> QED BY <1>2, <2>1, QuietStep DEF HelperPid, HelperNotify, HelperTick
<1>3. CASE HelperDevice(p)
  BY <1>3, EstablishStep
<1>4. CASE HelperCleanup(p)
  <2>1. p \in Applied /\ Applied' = Applied \ {p}
    BY <1>4 DEF HelperCleanup, TypeOK, Changes
  <2> QED BY <1>4, <2>1, WithdrawStep DEF HelperCleanup, TypeOK
<1>5. CASE HelperCleanupFails(p)
  <2>1. p \in Applied /\ Applied' = Applied \ {p}
    BY <1>5 DEF HelperCleanupFails, TypeOK, Changes
  <2> QED BY <1>5, <2>1, WithdrawStep DEF HelperCleanupFails, TypeOK
<1>6. CASE HelperStop(p) \/ HelperReport(p) \/ HelperWaitFails(p)
  <2>1. Applied' = Applied
    BY <1>6 DEF HelperStop, HelperReport, HelperWaitFails, TypeOK
  <2> QED BY <1>6, <2>1, QuietStep DEF HelperStop, HelperReport, HelperWaitFails
<1>7. CASE HelperUnlink(p)
  <2>1. CASE hpc[p] = "unname"
    BY <1>7, <2>1, ExitContract DEF HelperUnlink, TypeOK
  <2>2. CASE hpc[p] # "unname"
    <3>1. Applied' = Applied
      BY <1>7, <2>2 DEF HelperUnlink, TypeOK
    <3> QED BY <1>7, <2>2, <3>1, QuietStep DEF HelperUnlink
  <2> QED BY <2>1, <2>2
<1>8. CASE HelperStartFails(p) \/ HelperNameFails(p) \/ HelperReportFails(p) \/ HelperCrash(p)
  BY <1>8, ExitContract
     DEF HelperStartFails, HelperNameFails, HelperReportFails, HelperCrash, TypeOK
<1>9. CASE HelperNetworkFails(p) \/ HelperPidFails(p)
  BY <1>9, ExitContract DEF HelperNetworkFails, HelperPidFails, TypeOK, Changes
<1>10. CASE HelperSignal(p)
  <2>1. CASE hpc[p] \in Starting
    <3>1. p \in Applied => Applied' = Applied \ {p}
      BY <1>10, <2>1 DEF HelperSignal, Terminated, TypeOK
    <3>2. p \notin Applied => Applied' = Applied
      BY <1>10, <2>1 DEF HelperSignal, Terminated, TypeOK
    <3>3. dpc = "upwait"
      BY <2>1 DEF Launching
    <3>4. lost' = lost /\ UNCHANGED <<caller, orphaned, net>>
      BY <1>10, <3>3 DEF HelperSignal, Terminated, TypeOK
    <3>5. p \in Applied => net'[p] # "never"
      BY <3>4
    <3> QED BY <3>1, <3>2, <3>4, <3>5, WithdrawStep, QuietStep
  <2>2. CASE hpc[p] \notin Starting
    <3>1. Applied' = Applied
      BY <1>10, <2>2 DEF HelperSignal, Terminated, TypeOK
    <3>2. lost' = lost
      BY <1>10, <2>2 DEF HelperSignal, Terminated, TypeOK
    <3> QED BY <1>10, <3>1, <3>2, QuietStep DEF HelperSignal, Terminated
  <2> QED BY <2>1, <2>2
<1>11. CASE PidReused(p)
  <2>1. Applied' = Applied
    BY <1>11 DEF PidReused, TypeOK
  <2> QED BY <1>11, <2>1, QuietStep DEF PidReused
<1> QED BY <1>1, <1>2, <1>3, <1>4, <1>5, <1>6, <1>7, <1>8, <1>9, <1>10, <1>11
        DEF HelperStep, HelperFault

\* run_gotatun_up and run_gotatun_down, with their files, processes, signals and timeouts,
\* implement TunnelContract: one tunnel at a time, and an answer "ok" that is true.
THEOREM OperationsKeepContract == ASSUME PromptExit PROVE Spec => KeepsContract
<1>1. Init => Contract!Init
  BY DEF Init, Contract!Init
<1>2. HelperInv /\ [Next]_vars => [Contract!Next]_(Contract!vars)
  <2> SUFFICES ASSUME HelperInv, [Next]_vars
               PROVE  Contract!Next \/ UNCHANGED Contract!vars
    OBVIOUS
  <2>1. CASE UNCHANGED vars
    BY <2>1 DEF Contract!vars
  <2>2. CASE Next /\ orphaned
    <3>1. CASE ServiceStep \/ ServiceKilled
      <4>1. orphaned'
        BY <2>2, <3>1 DEF ServiceStep, ServiceKilled, UpCall, UpCheck, UpSpawn, UpSpawnFails,
             UpLaunched, UpVerify, DownCall, DownRead, DownUnlink, DownUnlinkFails, DownStatus,
             DownTimeout, DownGiveUp, DownFinish, DownStillThere
      <4> QED BY <2>2, <4>1, VoidStutters
    <3>2. ASSUME NEW p \in Pids, HelperStep(p) \/ HelperFault(p)
          PROVE  UNCHANGED Contract!vars
      <4>1. orphaned'
        BY <2>2, <3>2, HelperMoves DEF HelperInv
      <4> QED BY <2>2, <4>1, VoidStutters
    <3> QED BY <2>2, <3>1, <3>2 DEF Next
  <2>3. CASE Next /\ ~orphaned
    BY <2>3, ServiceContract, HelperContract DEF Next
  <2> QED BY <2>1, <2>2, <2>3
<1> QED BY <1>1, <1>2, Induction, PTL DEF Spec, KeepsContract, Contract!Spec
=============================================================================
