----------------------- MODULE ConnectionDaemonProofs -----------------------
(***************************************************************************)
(* The safety properties of ConnectionDaemon, for every set of ids,        *)
(* clients, services, workers and faults.  First, every step preserves     *)
(* each conjunct of IInv: one lemma per conjunct, one step per action,     *)
(* each lemma assuming only the conjuncts it needs.  Then the theorems.    *)
(***************************************************************************)
EXTENDS ConnectionDaemon, TLAPS

USE DEF Set, Procs, Owners, Modes, IndexFree, ConnFree, NetFree

Typed == TypeOK /\ Assigned

-----------------------------------------------------------------------------
(* What the operators on records return.                                   *)

\* Setting user_disconnected keeps a record a record of the same connection.
LEMMA WithFlagRecord ==
  ASSUME NEW rec \in Record, NEW value \in {"yes", "no"}
  PROVE  /\ WithFlag(rec, value) \in Record
         /\ WithFlag(rec, value) # NoRecord
         /\ WithFlag(rec, value).fingerprint = rec.fingerprint
         /\ WithFlag(rec, value).owner = rec.owner
         /\ WithFlag(rec, value).user_disconnected = value
  BY RecordAssumption DEF WithFlag, Record

\* A mode change keeps the identity, and never sets user_disconnected.
LEMMA WithModeRecord ==
  ASSUME NEW rec \in Record, NEW mode \in StartModes
  PROVE  /\ WithMode(rec, mode) \in Record
         /\ WithMode(rec, mode) # NoRecord
         /\ WithMode(rec, mode).fingerprint = rec.fingerprint
         /\ WithMode(rec, mode).owner = rec.owner
  BY RecordAssumption, ValuesAssumption DEF WithMode, Record

\* The record a resubmission writes back has the identity of the one it read.
LEMMA ResubmittedRecord ==
  \A old \in Record, mode \in StartModes, name \in Names \cup {NoName} :
    /\ Resubmitted(old, mode, name) \in Record
    /\ Resubmitted(old, mode, name) # NoRecord
    /\ Resubmitted(old, mode, name).fingerprint = old.fingerprint
    /\ Resubmitted(old, mode, name).owner = old.owner
  BY WithModeRecord, RecordAssumption, ValuesAssumption DEF Resubmitted, Record

-----------------------------------------------------------------------------
\* Types and thread assignments are inductive by themselves.
LEMMA StepTyped ==
  Typed /\ [Next]_vars
    => Typed'
<1> SUFFICES ASSUME Typed, [Next]_vars
             PROVE  Typed'
  OBVIOUS
<1> USE ServicesAssumption, ValuesAssumption DEF Typed, TypeOK, Assigned, Places, InOperation,
        HelperStates, Stored
<1>1. ASSUME NEW s \in Services, ServiceStart(s) PROVE Typed'
  BY <1>1 DEF ServiceStart, storeVars, tunnelVars, accVars, bootVars
<1>2. ASSUME NEW s \in Services, Terminate(s) PROVE Typed'
  BY <1>2 DEF Terminate, ThreadsOf, storeVars
<1>3. CASE Reboot
  BY <1>3 DEF Reboot, storeVars
<1>4. ASSUME NEW w \in Workers, ClientHangup(w) PROVE Typed'
  BY <1>4 DEF ClientHangup, storeVars, tunnelVars, accVars, bootVars
<1>5. ASSUME NEW s \in Services, NEW fp \in Fingerprints, NEW owner \in Owners,
              NEW mode \in StartModes, NEW name \in Names \cup {NoName}, NEW force \in Forces,
              AddNew(s, fp, owner, mode, name, force)
       PROVE  Typed'
  BY <1>5 DEF AddNew, tunnelVars, accVars, procVars, bootVars, Record
<1>6. ASSUME NEW s \in Services, NEW fp \in Fingerprints, NEW owner \in Owners,
              NEW mode \in StartModes, NEW name \in Names \cup {NoName}, NEW force \in Forces,
              AddExisting(s, fp, owner, mode, name, force)
       PROVE  Typed'
  <2>1. PICK i \in find_by_identity(fp, owner) :
           accId' = Set(accId, s, i) /\ accRec' = Set(accRec, s, Resubmitted(records[i], mode, name))
    BY <1>6 DEF AddExisting
  <2>2. i \in Ids /\ records[i] \in Record
    BY <2>1 DEF find_by_identity
  <2>3. /\ indexLock = Free /\ indexLock' = s /\ accPc' = Set(accPc, s, "addwait")
        /\ UNCHANGED <<storeVars, tunnelVars, connLock, netLock, running, procVars, bootVars>>
    BY <1>6 DEF AddExisting
  <2>4. /\ Resubmitted(records[i], mode, name) \in Record
        /\ Resubmitted(records[i], mode, name).fingerprint = records[i].fingerprint
        /\ Resubmitted(records[i], mode, name).owner = records[i].owner
    BY <2>2, ResubmittedRecord
  <2>5. QED
    BY <2>1, <2>2, <2>3, <2>4, RecordAssumption DEF storeVars, tunnelVars, procVars, bootVars
<1>7. ASSUME NEW s \in Services, AddUpdate(s) PROVE Typed'
  BY <1>7 DEF AddUpdate, AccDone, tunnelVars, procVars, bootVars
<1>8. ASSUME NEW s \in Services, AccBusy(s) PROVE Typed'
  BY <1>8 DEF AccBusy, AccDone, storeVars, tunnelVars, procVars, bootVars
<1>9. ASSUME NEW s \in Services, RemoveLock(s) PROVE Typed'
  BY <1>9 DEF RemoveLock, AccDone, storeVars, tunnelVars, procVars, bootVars
<1>10. ASSUME NEW s \in Services, RemoveCommit(s) PROVE Typed'
  BY <1>10 DEF RemoveCommit, AccDone, tunnelVars, procVars, bootVars
<1>11. ASSUME NEW s \in Services, NEW i \in Ids, RemoveConnection(s, i) PROVE Typed'
  BY <1>11 DEF RemoveConnection, CanAccept, storeVars, tunnelVars, procVars, bootVars
<1>12. ASSUME NEW s \in Services, NEW i \in Ids, NEW mode \in StartModes,
              SetConnectionMode(s, i, mode)
       PROVE  Typed'
  BY <1>12, WithModeRecord DEF SetConnectionMode, tunnelVars, accVars, procVars, bootVars
<1>13. ASSUME NEW s \in Services, NEW w \in Workers, NEW i \in Ids,
              ConnectConnection(s, w, i) \/ DisconnectConnection(s, w, i)
       PROVE  Typed'
  BY <1>13 DEF ConnectConnection, DisconnectConnection, Spawn, storeVars, tunnelVars,
     accVars, bootVars
<1>14. ASSUME NEW w \in Workers, Reply(w) PROVE Typed'
  BY <1>14 DEF Reply, storeVars, tunnelVars, accVars, bootVars
<1>15. ASSUME NEW p \in Procs, ProcLock(p) PROVE Typed'
  BY <1>15 DEF ProcLock, Finish, Respond, Goto, storeVars, tunnelVars, accVars
<1>16. ASSUME NEW p \in Procs, ConnectIntent(p) PROVE Typed'
  BY <1>16, WithFlagRecord DEF ConnectIntent, Finish, Respond, Goto, tunnelVars, accVars,
     BacksOff
<1>17. ASSUME NEW p \in Procs, DisconnectIntent(p) PROVE Typed'
  BY <1>17, WithFlagRecord DEF DisconnectIntent, Finish, Respond, Goto, tunnelVars, accVars
<1>18. ASSUME NEW p \in Procs, ConnectCheck(p) PROVE Typed'
  BY <1>18 DEF ConnectCheck, Finish, Respond, Goto, storeVars, tunnelVars, accVars
<1>19. ASSUME NEW p \in Procs, NetLock(p) PROVE Typed'
  BY <1>19 DEF NetLock, Finish, Respond, Goto, storeVars, tunnelVars, accVars
<1>20. ASSUME NEW p \in Procs, NetTimeout(p) PROVE Typed'
  BY <1>20 DEF NetTimeout, Finish, Respond, Goto, storeVars, accVars
<1>21. ASSUME NEW p \in Procs, RunUp(p) PROVE Typed'
  BY <1>21 DEF RunUp, Finish, Respond, Goto, storeVars, accVars
<1>22. ASSUME NEW p \in Procs, UpReturn(p) PROVE Typed'
  BY <1>22 DEF UpReturn, Finish, Respond, Goto, storeVars, tunnelVars, accVars
<1>23. ASSUME NEW p \in Procs, PostUp(p) PROVE Typed'
  BY <1>23 DEF PostUp, Finish, Respond, Goto, storeVars, tunnelVars, accVars
<1>24. ASSUME NEW p \in Procs, SaveActive(p) PROVE Typed'
  BY <1>24 DEF SaveActive, Finish, Respond, Goto, storeVars, accVars
<1>25. ASSUME NEW p \in Procs, RunDown(p) PROVE Typed'
  BY <1>25 DEF RunDown, Finish, Respond, Goto, DownOk, storeVars, accVars
<1>26. ASSUME NEW p \in Procs, DownWait(p) PROVE Typed'
  BY <1>26 DEF DownWait, Finish, Respond, Goto, DownOk, DownErr, storeVars, accVars
<1>27. ASSUME NEW p \in Procs, ClearActive(p) PROVE Typed'
  BY <1>27 DEF ClearActive, Finish, Respond, Goto, storeVars, accVars
<1>28. CASE BootList
  BY <1>28 DEF BootList, boot_reconcile_candidates, storeVars, tunnelVars, accVars
<1>29. CASE BootNext
  BY <1>29 DEF BootNext, storeVars, tunnelVars, accVars
<1>30. CASE BootEnd
  BY <1>30 DEF BootEnd, storeVars, tunnelVars, accVars
<1>31. ASSUME NEW i \in Ids, HelperReady(i) PROVE Typed'
  BY <1>31 DEF HelperReady, helperFrame, storeVars, accVars, procVars, bootVars
<1>32. ASSUME NEW i \in Ids, HelperFail(i) PROVE Typed'
  BY <1>32 DEF HelperFail, helperFrame, storeVars, accVars, procVars, bootVars
<1>33. ASSUME NEW i \in Ids, HelperStopped(i) PROVE Typed'
  BY <1>33 DEF HelperStopped, helperFrame, storeVars, accVars, procVars, bootVars
<1>34. ASSUME NEW i \in Ids, HelperSignal(i) PROVE Typed'
  BY <1>34 DEF HelperSignal, helperFrame, storeVars, accVars, procVars, bootVars
<1>35. ASSUME NEW i \in Ids, HelperCrash(i) PROVE Typed'
  BY <1>35 DEF HelperCrash, helperFrame, storeVars, accVars, procVars, bootVars
<1>36. ASSUME NEW i \in Ids, HelperStartCrash(i) PROVE Typed'
  BY <1>36 DEF HelperStartCrash, helperFrame, storeVars, accVars, procVars, bootVars
<1>37. CASE UNCHANGED vars
  BY <1>37 DEF vars, storeVars, tunnelVars, accVars, procVars, bootVars
<1>38. QED
  BY <1>1, <1>2, <1>3, <1>4, <1>5, <1>6, <1>7, <1>8, <1>9, <1>10, <1>11, <1>12, <1>13,
     <1>14, <1>15, <1>16, <1>17, <1>18, <1>19, <1>20,
     <1>21, <1>22, <1>23, <1>24, <1>25, <1>26, <1>27, <1>28, <1>29, <1>30, <1>31, <1>32,
     <1>33, <1>34, <1>35, <1>36, <1>37
     DEF Next, AddConnection, AccStep, ProcStep, HelperStep, StdioExit, ServiceKill, IdleExit

-----------------------------------------------------------------------------
\* A thread enters a place that needs a lock only when it takes that lock, and
\* leaves it no later than it drops the lock.  Ending a process frees exactly the
\* locks of threads that stop existing.
LEMMA StepLock ==
  Typed /\ LockOwnership /\ [Next]_vars
    => LockOwnership'
<1> SUFFICES ASSUME Typed, LockOwnership, [Next]_vars
             PROVE  LockOwnership'
  OBVIOUS
<1> USE ServicesAssumption, ValuesAssumption DEF Typed, TypeOK, Assigned, LockOwnership,
         InOperation, InNetwork
<1>1. ASSUME NEW s \in Services, ServiceStart(s) PROVE LockOwnership'
  BY <1>1 DEF ServiceStart, storeVars, tunnelVars, accVars, bootVars
<1>2. ASSUME NEW s \in Services, Terminate(s) PROVE LockOwnership'
  BY <1>2 DEF Terminate, ThreadsOf, storeVars
<1>3. CASE Reboot
  BY <1>3 DEF Reboot, storeVars
<1>4. ASSUME NEW w \in Workers, ClientHangup(w) PROVE LockOwnership'
  BY <1>4 DEF ClientHangup, storeVars, tunnelVars, accVars, bootVars
<1>5. ASSUME NEW s \in Services, NEW fp \in Fingerprints, NEW owner \in Owners,
              NEW mode \in StartModes, NEW name \in Names \cup {NoName}, NEW force \in Forces,
              AddNew(s, fp, owner, mode, name, force)
       PROVE  LockOwnership'
  BY <1>5 DEF AddNew, tunnelVars, accVars, procVars, bootVars
<1>6. ASSUME NEW s \in Services, NEW fp \in Fingerprints, NEW owner \in Owners,
              NEW mode \in StartModes, NEW name \in Names \cup {NoName}, NEW force \in Forces,
              AddExisting(s, fp, owner, mode, name, force)
       PROVE  LockOwnership'
  BY <1>6 DEF AddExisting, find_by_identity, CanAccept, storeVars, tunnelVars, procVars,
     bootVars
<1>7. ASSUME NEW s \in Services, AddUpdate(s) PROVE LockOwnership'
  BY <1>7 DEF AddUpdate, AccDone, tunnelVars, procVars, bootVars
<1>8. ASSUME NEW s \in Services, AccBusy(s) PROVE LockOwnership'
  BY <1>8 DEF AccBusy, AccDone, storeVars, tunnelVars, procVars, bootVars
<1>9. ASSUME NEW s \in Services, RemoveLock(s) PROVE LockOwnership'
  BY <1>9 DEF RemoveLock, AccDone, storeVars, tunnelVars, procVars, bootVars
<1>10. ASSUME NEW s \in Services, RemoveCommit(s) PROVE LockOwnership'
  BY <1>10 DEF RemoveCommit, AccDone, tunnelVars, procVars, bootVars
<1>11. ASSUME NEW s \in Services, NEW i \in Ids, RemoveConnection(s, i) PROVE LockOwnership'
  BY <1>11 DEF RemoveConnection, CanAccept, storeVars, tunnelVars, procVars, bootVars
<1>12. ASSUME NEW s \in Services, NEW i \in Ids, NEW mode \in StartModes,
              SetConnectionMode(s, i, mode)
       PROVE  LockOwnership'
  BY <1>12 DEF SetConnectionMode, tunnelVars, accVars, procVars, bootVars
<1>13. ASSUME NEW s \in Services, NEW w \in Workers, NEW i \in Ids,
              ConnectConnection(s, w, i) \/ DisconnectConnection(s, w, i)
       PROVE  LockOwnership'
  BY <1>13 DEF ConnectConnection, DisconnectConnection, Spawn, storeVars, tunnelVars,
     accVars, bootVars
<1>14. ASSUME NEW w \in Workers, Reply(w) PROVE LockOwnership'
  BY <1>14 DEF Reply, storeVars, tunnelVars, accVars, bootVars
<1>15. ASSUME NEW p \in Procs, ProcLock(p) PROVE LockOwnership'
  BY <1>15 DEF ProcLock, Finish, Respond, Goto, storeVars, tunnelVars, accVars
<1>16. ASSUME NEW p \in Procs, ConnectIntent(p) PROVE LockOwnership'
  BY <1>16 DEF ConnectIntent, Finish, Respond, Goto, tunnelVars, accVars
<1>17. ASSUME NEW p \in Procs, DisconnectIntent(p) PROVE LockOwnership'
  BY <1>17 DEF DisconnectIntent, Finish, Respond, Goto, tunnelVars, accVars
<1>18. ASSUME NEW p \in Procs, ConnectCheck(p) PROVE LockOwnership'
  BY <1>18 DEF ConnectCheck, Finish, Respond, Goto, storeVars, tunnelVars, accVars
<1>19. ASSUME NEW p \in Procs, NetLock(p) PROVE LockOwnership'
  BY <1>19 DEF NetLock, Finish, Respond, Goto, storeVars, tunnelVars, accVars
<1>20. ASSUME NEW p \in Procs, NetTimeout(p) PROVE LockOwnership'
  BY <1>20 DEF NetTimeout, Finish, Respond, Goto, storeVars, accVars
<1>21. ASSUME NEW p \in Procs, RunUp(p) PROVE LockOwnership'
  BY <1>21 DEF RunUp, Finish, Respond, Goto, storeVars, accVars
<1>22. ASSUME NEW p \in Procs, UpReturn(p) PROVE LockOwnership'
  BY <1>22 DEF UpReturn, Finish, Respond, Goto, storeVars, tunnelVars, accVars
<1>23. ASSUME NEW p \in Procs, PostUp(p) PROVE LockOwnership'
  BY <1>23 DEF PostUp, Finish, Respond, Goto, storeVars, tunnelVars, accVars
<1>24. ASSUME NEW p \in Procs, SaveActive(p) PROVE LockOwnership'
  BY <1>24 DEF SaveActive, Finish, Respond, Goto, storeVars, accVars
<1>25. ASSUME NEW p \in Procs, RunDown(p) PROVE LockOwnership'
  BY <1>25 DEF RunDown, Finish, Respond, Goto, DownOk, storeVars, accVars
<1>26. ASSUME NEW p \in Procs, DownWait(p) PROVE LockOwnership'
  BY <1>26 DEF DownWait, Finish, Respond, Goto, DownOk, DownErr, storeVars, accVars
<1>27. ASSUME NEW p \in Procs, ClearActive(p) PROVE LockOwnership'
  BY <1>27 DEF ClearActive, Finish, Respond, Goto, storeVars, accVars
<1>28. CASE BootList
  BY <1>28 DEF BootList, boot_reconcile_candidates, storeVars, tunnelVars, accVars
<1>29. CASE BootNext
  BY <1>29 DEF BootNext, storeVars, tunnelVars, accVars
<1>30. CASE BootEnd
  BY <1>30 DEF BootEnd, storeVars, tunnelVars, accVars
<1>31. ASSUME NEW i \in Ids, HelperReady(i) PROVE LockOwnership'
  BY <1>31 DEF HelperReady, helperFrame, storeVars, accVars, procVars, bootVars
<1>32. ASSUME NEW i \in Ids, HelperFail(i) PROVE LockOwnership'
  BY <1>32 DEF HelperFail, helperFrame, storeVars, accVars, procVars, bootVars
<1>33. ASSUME NEW i \in Ids, HelperStopped(i) PROVE LockOwnership'
  BY <1>33 DEF HelperStopped, helperFrame, storeVars, accVars, procVars, bootVars
<1>34. ASSUME NEW i \in Ids, HelperSignal(i) PROVE LockOwnership'
  BY <1>34 DEF HelperSignal, helperFrame, storeVars, accVars, procVars, bootVars
<1>35. ASSUME NEW i \in Ids, HelperCrash(i) PROVE LockOwnership'
  BY <1>35 DEF HelperCrash, helperFrame, storeVars, accVars, procVars, bootVars
<1>36. ASSUME NEW i \in Ids, HelperStartCrash(i) PROVE LockOwnership'
  BY <1>36 DEF HelperStartCrash, helperFrame, storeVars, accVars, procVars, bootVars
<1>37. CASE UNCHANGED vars
  BY <1>37 DEF vars, storeVars, tunnelVars, accVars, procVars, bootVars
<1>38. QED
  BY <1>1, <1>2, <1>3, <1>4, <1>5, <1>6, <1>7, <1>8, <1>9, <1>10, <1>11, <1>12, <1>13,
     <1>14, <1>15, <1>16, <1>17, <1>18, <1>19, <1>20,
     <1>21, <1>22, <1>23, <1>24, <1>25, <1>26, <1>27, <1>28, <1>29, <1>30, <1>31, <1>32,
     <1>33, <1>34, <1>35, <1>36, <1>37
     DEF Next, AddConnection, AccStep, ProcStep, HelperStep, StdioExit, ServiceKill, IdleExit

-----------------------------------------------------------------------------
\* What a handler read under the index lock, or a thread under the connection
\* lock, stays: only RemoveCommit deletes a record, and it holds both.
LEMMA StepStore ==
  Typed /\ LockOwnership /\ StoreStable /\ [Next]_vars
    => StoreStable'
<1> SUFFICES ASSUME Typed, LockOwnership, StoreStable, [Next]_vars
             PROVE  StoreStable'
  OBVIOUS
<1> USE ServicesAssumption, ValuesAssumption DEF Typed, TypeOK, Assigned, LockOwnership,
         StoreStable, InOperation, Stored
<1>1. ASSUME NEW s \in Services, ServiceStart(s) PROVE StoreStable'
  BY <1>1 DEF ServiceStart, storeVars, tunnelVars, accVars, bootVars
<1>2. ASSUME NEW s \in Services, Terminate(s) PROVE StoreStable'
  BY <1>2 DEF Terminate, ThreadsOf, storeVars
<1>3. CASE Reboot
  BY <1>3 DEF Reboot, storeVars
<1>4. ASSUME NEW w \in Workers, ClientHangup(w) PROVE StoreStable'
  BY <1>4 DEF ClientHangup, storeVars, tunnelVars, accVars, bootVars
<1>5. ASSUME NEW s \in Services, NEW fp \in Fingerprints, NEW owner \in Owners,
              NEW mode \in StartModes, NEW name \in Names \cup {NoName}, NEW force \in Forces,
              AddNew(s, fp, owner, mode, name, force)
       PROVE  StoreStable'
  BY <1>5 DEF AddNew, tunnelVars, accVars, procVars, bootVars, Record
<1>6. ASSUME NEW s \in Services, NEW fp \in Fingerprints, NEW owner \in Owners,
              NEW mode \in StartModes, NEW name \in Names \cup {NoName}, NEW force \in Forces,
              AddExisting(s, fp, owner, mode, name, force)
       PROVE  StoreStable'
  <2>1. PICK i \in find_by_identity(fp, owner) :
           accId' = Set(accId, s, i) /\ accRec' = Set(accRec, s, Resubmitted(records[i], mode, name))
    BY <1>6 DEF AddExisting
  <2>2. i \in Ids /\ records[i] \in Record
    BY <2>1 DEF find_by_identity
  <2>3. /\ indexLock = Free /\ indexLock' = s /\ accPc' = Set(accPc, s, "addwait")
        /\ UNCHANGED <<storeVars, tunnelVars, connLock, netLock, running, procVars, bootVars>>
    BY <1>6 DEF AddExisting
  <2>4. /\ Resubmitted(records[i], mode, name) \in Record
        /\ Resubmitted(records[i], mode, name).fingerprint = records[i].fingerprint
        /\ Resubmitted(records[i], mode, name).owner = records[i].owner
    BY <2>2, ResubmittedRecord
  <2>5. QED
    BY <2>1, <2>2, <2>3, <2>4, RecordAssumption DEF storeVars, tunnelVars, procVars, bootVars
<1>7. ASSUME NEW s \in Services, AddUpdate(s) PROVE StoreStable'
  BY <1>7, RecordAssumption DEF AddUpdate, AccDone, tunnelVars, procVars, bootVars
<1>8. ASSUME NEW s \in Services, AccBusy(s) PROVE StoreStable'
  BY <1>8 DEF AccBusy, AccDone, storeVars, tunnelVars, procVars, bootVars
<1>9. ASSUME NEW s \in Services, RemoveLock(s) PROVE StoreStable'
  BY <1>9 DEF RemoveLock, AccDone, storeVars, tunnelVars, procVars, bootVars
<1>10. ASSUME NEW s \in Services, RemoveCommit(s) PROVE StoreStable'
  BY <1>10 DEF RemoveCommit, AccDone, tunnelVars, procVars, bootVars
<1>11. ASSUME NEW s \in Services, NEW i \in Ids, RemoveConnection(s, i) PROVE StoreStable'
  BY <1>11 DEF RemoveConnection, CanAccept, storeVars, tunnelVars, procVars, bootVars
<1>12. ASSUME NEW s \in Services, NEW i \in Ids, NEW mode \in StartModes,
              SetConnectionMode(s, i, mode)
       PROVE  StoreStable'
  BY <1>12, WithModeRecord DEF SetConnectionMode, tunnelVars, accVars, procVars, bootVars
<1>13. ASSUME NEW s \in Services, NEW w \in Workers, NEW i \in Ids,
              ConnectConnection(s, w, i) \/ DisconnectConnection(s, w, i)
       PROVE  StoreStable'
  BY <1>13 DEF ConnectConnection, DisconnectConnection, Spawn, storeVars, tunnelVars,
     accVars, bootVars
<1>14. ASSUME NEW w \in Workers, Reply(w) PROVE StoreStable'
  BY <1>14 DEF Reply, storeVars, tunnelVars, accVars, bootVars
<1>15. ASSUME NEW p \in Procs, ProcLock(p) PROVE StoreStable'
  BY <1>15 DEF ProcLock, Finish, Respond, Goto, storeVars, tunnelVars, accVars
<1>16. ASSUME NEW p \in Procs, ConnectIntent(p) PROVE StoreStable'
  BY <1>16, WithFlagRecord DEF ConnectIntent, Finish, Respond, Goto, tunnelVars, accVars
<1>17. ASSUME NEW p \in Procs, DisconnectIntent(p) PROVE StoreStable'
  BY <1>17, WithFlagRecord DEF DisconnectIntent, Finish, Respond, Goto, tunnelVars, accVars
<1>18. ASSUME NEW p \in Procs, ConnectCheck(p) PROVE StoreStable'
  BY <1>18 DEF ConnectCheck, Finish, Respond, Goto, storeVars, tunnelVars, accVars
<1>19. ASSUME NEW p \in Procs, NetLock(p) PROVE StoreStable'
  BY <1>19 DEF NetLock, Finish, Respond, Goto, storeVars, tunnelVars, accVars
<1>20. ASSUME NEW p \in Procs, NetTimeout(p) PROVE StoreStable'
  BY <1>20 DEF NetTimeout, Finish, Respond, Goto, storeVars, accVars
<1>21. ASSUME NEW p \in Procs, RunUp(p) PROVE StoreStable'
  BY <1>21 DEF RunUp, Finish, Respond, Goto, storeVars, accVars
<1>22. ASSUME NEW p \in Procs, UpReturn(p) PROVE StoreStable'
  BY <1>22 DEF UpReturn, Finish, Respond, Goto, storeVars, tunnelVars, accVars
<1>23. ASSUME NEW p \in Procs, PostUp(p) PROVE StoreStable'
  BY <1>23 DEF PostUp, Finish, Respond, Goto, storeVars, tunnelVars, accVars
<1>24. ASSUME NEW p \in Procs, SaveActive(p) PROVE StoreStable'
  BY <1>24 DEF SaveActive, Finish, Respond, Goto, storeVars, accVars
<1>25. ASSUME NEW p \in Procs, RunDown(p) PROVE StoreStable'
  BY <1>25 DEF RunDown, Finish, Respond, Goto, DownOk, storeVars, accVars
<1>26. ASSUME NEW p \in Procs, DownWait(p) PROVE StoreStable'
  BY <1>26 DEF DownWait, Finish, Respond, Goto, DownOk, DownErr, storeVars, accVars
<1>27. ASSUME NEW p \in Procs, ClearActive(p) PROVE StoreStable'
  BY <1>27 DEF ClearActive, Finish, Respond, Goto, storeVars, accVars
<1>28. CASE BootList
  BY <1>28 DEF BootList, boot_reconcile_candidates, storeVars, tunnelVars, accVars
<1>29. CASE BootNext
  BY <1>29 DEF BootNext, storeVars, tunnelVars, accVars
<1>30. CASE BootEnd
  BY <1>30 DEF BootEnd, storeVars, tunnelVars, accVars
<1>31. ASSUME NEW i \in Ids, HelperReady(i) PROVE StoreStable'
  BY <1>31 DEF HelperReady, helperFrame, storeVars, accVars, procVars, bootVars
<1>32. ASSUME NEW i \in Ids, HelperFail(i) PROVE StoreStable'
  BY <1>32 DEF HelperFail, helperFrame, storeVars, accVars, procVars, bootVars
<1>33. ASSUME NEW i \in Ids, HelperStopped(i) PROVE StoreStable'
  BY <1>33 DEF HelperStopped, helperFrame, storeVars, accVars, procVars, bootVars
<1>34. ASSUME NEW i \in Ids, HelperSignal(i) PROVE StoreStable'
  BY <1>34 DEF HelperSignal, helperFrame, storeVars, accVars, procVars, bootVars
<1>35. ASSUME NEW i \in Ids, HelperCrash(i) PROVE StoreStable'
  BY <1>35 DEF HelperCrash, helperFrame, storeVars, accVars, procVars, bootVars
<1>36. ASSUME NEW i \in Ids, HelperStartCrash(i) PROVE StoreStable'
  BY <1>36 DEF HelperStartCrash, helperFrame, storeVars, accVars, procVars, bootVars
<1>37. CASE UNCHANGED vars
  BY <1>37 DEF vars, storeVars, tunnelVars, accVars, procVars, bootVars
<1>38. QED
  BY <1>1, <1>2, <1>3, <1>4, <1>5, <1>6, <1>7, <1>8, <1>9, <1>10, <1>11, <1>12, <1>13,
     <1>14, <1>15, <1>16, <1>17, <1>18, <1>19, <1>20,
     <1>21, <1>22, <1>23, <1>24, <1>25, <1>26, <1>27, <1>28, <1>29, <1>30, <1>31, <1>32,
     <1>33, <1>34, <1>35, <1>36, <1>37
     DEF Next, AddConnection, AccStep, ProcStep, HelperStep, StdioExit, ServiceKill, IdleExit

-----------------------------------------------------------------------------
\* AddNew checks identity under the index lock; every other write keeps the
\* identity of the record it replaces.
LEMMA StepIdentity ==
  Typed /\ LockOwnership /\ StoreStable /\ IdentityUnique /\ [Next]_vars
    => IdentityUnique'
<1> SUFFICES ASSUME Typed, LockOwnership, StoreStable, IdentityUnique, [Next]_vars
             PROVE  IdentityUnique'
  OBVIOUS
<1> USE ServicesAssumption, ValuesAssumption DEF Typed, TypeOK, Assigned, LockOwnership,
         StoreStable, IdentityUnique, InOperation, Stored
<1>1. ASSUME NEW s \in Services, ServiceStart(s) PROVE IdentityUnique'
  BY <1>1 DEF ServiceStart, storeVars, tunnelVars, accVars, bootVars
<1>2. ASSUME NEW s \in Services, Terminate(s) PROVE IdentityUnique'
  BY <1>2 DEF Terminate, ThreadsOf, storeVars
<1>3. CASE Reboot
  BY <1>3 DEF Reboot, storeVars
<1>4. ASSUME NEW w \in Workers, ClientHangup(w) PROVE IdentityUnique'
  BY <1>4 DEF ClientHangup, storeVars, tunnelVars, accVars, bootVars
<1>5. ASSUME NEW s \in Services, NEW fp \in Fingerprints, NEW owner \in Owners,
              NEW mode \in StartModes, NEW name \in Names \cup {NoName}, NEW force \in Forces,
              AddNew(s, fp, owner, mode, name, force)
       PROVE  IdentityUnique'
  BY <1>5 DEF AddNew, tunnelVars, accVars, procVars, bootVars, find_by_identity, Record
<1>6. ASSUME NEW s \in Services, NEW fp \in Fingerprints, NEW owner \in Owners,
              NEW mode \in StartModes, NEW name \in Names \cup {NoName}, NEW force \in Forces,
              AddExisting(s, fp, owner, mode, name, force)
       PROVE  IdentityUnique'
  BY <1>6 DEF AddExisting, find_by_identity, CanAccept, storeVars, tunnelVars, procVars,
     bootVars
<1>7. ASSUME NEW s \in Services, AddUpdate(s) PROVE IdentityUnique'
  BY <1>7, RecordAssumption DEF AddUpdate, AccDone, tunnelVars, procVars, bootVars
<1>8. ASSUME NEW s \in Services, AccBusy(s) PROVE IdentityUnique'
  BY <1>8 DEF AccBusy, AccDone, storeVars, tunnelVars, procVars, bootVars
<1>9. ASSUME NEW s \in Services, RemoveLock(s) PROVE IdentityUnique'
  BY <1>9 DEF RemoveLock, AccDone, storeVars, tunnelVars, procVars, bootVars
<1>10. ASSUME NEW s \in Services, RemoveCommit(s) PROVE IdentityUnique'
  BY <1>10 DEF RemoveCommit, AccDone, tunnelVars, procVars, bootVars
<1>11. ASSUME NEW s \in Services, NEW i \in Ids, RemoveConnection(s, i) PROVE IdentityUnique'
  BY <1>11 DEF RemoveConnection, CanAccept, storeVars, tunnelVars, procVars, bootVars
<1>12. ASSUME NEW s \in Services, NEW i \in Ids, NEW mode \in StartModes,
              SetConnectionMode(s, i, mode)
       PROVE  IdentityUnique'
  BY <1>12, WithModeRecord DEF SetConnectionMode, tunnelVars, accVars, procVars, bootVars
<1>13. ASSUME NEW s \in Services, NEW w \in Workers, NEW i \in Ids,
              ConnectConnection(s, w, i) \/ DisconnectConnection(s, w, i)
       PROVE  IdentityUnique'
  BY <1>13 DEF ConnectConnection, DisconnectConnection, Spawn, storeVars, tunnelVars,
     accVars, bootVars
<1>14. ASSUME NEW w \in Workers, Reply(w) PROVE IdentityUnique'
  BY <1>14 DEF Reply, storeVars, tunnelVars, accVars, bootVars
<1>15. ASSUME NEW p \in Procs, ProcLock(p) PROVE IdentityUnique'
  BY <1>15 DEF ProcLock, Finish, Respond, Goto, storeVars, tunnelVars, accVars
<1>16. ASSUME NEW p \in Procs, ConnectIntent(p) PROVE IdentityUnique'
  BY <1>16, WithFlagRecord DEF ConnectIntent, Finish, Respond, Goto, tunnelVars, accVars
<1>17. ASSUME NEW p \in Procs, DisconnectIntent(p) PROVE IdentityUnique'
  BY <1>17, WithFlagRecord DEF DisconnectIntent, Finish, Respond, Goto, tunnelVars, accVars
<1>18. ASSUME NEW p \in Procs, ConnectCheck(p) PROVE IdentityUnique'
  BY <1>18 DEF ConnectCheck, Finish, Respond, Goto, storeVars, tunnelVars, accVars
<1>19. ASSUME NEW p \in Procs, NetLock(p) PROVE IdentityUnique'
  BY <1>19 DEF NetLock, Finish, Respond, Goto, storeVars, tunnelVars, accVars
<1>20. ASSUME NEW p \in Procs, NetTimeout(p) PROVE IdentityUnique'
  BY <1>20 DEF NetTimeout, Finish, Respond, Goto, storeVars, accVars
<1>21. ASSUME NEW p \in Procs, RunUp(p) PROVE IdentityUnique'
  BY <1>21 DEF RunUp, Finish, Respond, Goto, storeVars, accVars
<1>22. ASSUME NEW p \in Procs, UpReturn(p) PROVE IdentityUnique'
  BY <1>22 DEF UpReturn, Finish, Respond, Goto, storeVars, tunnelVars, accVars
<1>23. ASSUME NEW p \in Procs, PostUp(p) PROVE IdentityUnique'
  BY <1>23 DEF PostUp, Finish, Respond, Goto, storeVars, tunnelVars, accVars
<1>24. ASSUME NEW p \in Procs, SaveActive(p) PROVE IdentityUnique'
  BY <1>24 DEF SaveActive, Finish, Respond, Goto, storeVars, accVars
<1>25. ASSUME NEW p \in Procs, RunDown(p) PROVE IdentityUnique'
  BY <1>25 DEF RunDown, Finish, Respond, Goto, DownOk, storeVars, accVars
<1>26. ASSUME NEW p \in Procs, DownWait(p) PROVE IdentityUnique'
  BY <1>26 DEF DownWait, Finish, Respond, Goto, DownOk, DownErr, storeVars, accVars
<1>27. ASSUME NEW p \in Procs, ClearActive(p) PROVE IdentityUnique'
  BY <1>27 DEF ClearActive, Finish, Respond, Goto, storeVars, accVars
<1>28. CASE BootList
  BY <1>28 DEF BootList, boot_reconcile_candidates, storeVars, tunnelVars, accVars
<1>29. CASE BootNext
  BY <1>29 DEF BootNext, storeVars, tunnelVars, accVars
<1>30. CASE BootEnd
  BY <1>30 DEF BootEnd, storeVars, tunnelVars, accVars
<1>31. ASSUME NEW i \in Ids, HelperReady(i) PROVE IdentityUnique'
  BY <1>31 DEF HelperReady, helperFrame, storeVars, accVars, procVars, bootVars
<1>32. ASSUME NEW i \in Ids, HelperFail(i) PROVE IdentityUnique'
  BY <1>32 DEF HelperFail, helperFrame, storeVars, accVars, procVars, bootVars
<1>33. ASSUME NEW i \in Ids, HelperStopped(i) PROVE IdentityUnique'
  BY <1>33 DEF HelperStopped, helperFrame, storeVars, accVars, procVars, bootVars
<1>34. ASSUME NEW i \in Ids, HelperSignal(i) PROVE IdentityUnique'
  BY <1>34 DEF HelperSignal, helperFrame, storeVars, accVars, procVars, bootVars
<1>35. ASSUME NEW i \in Ids, HelperCrash(i) PROVE IdentityUnique'
  BY <1>35 DEF HelperCrash, helperFrame, storeVars, accVars, procVars, bootVars
<1>36. ASSUME NEW i \in Ids, HelperStartCrash(i) PROVE IdentityUnique'
  BY <1>36 DEF HelperStartCrash, helperFrame, storeVars, accVars, procVars, bootVars
<1>37. CASE UNCHANGED vars
  BY <1>37 DEF vars, storeVars, tunnelVars, accVars, procVars, bootVars
<1>38. QED
  BY <1>1, <1>2, <1>3, <1>4, <1>5, <1>6, <1>7, <1>8, <1>9, <1>10, <1>11, <1>12, <1>13,
     <1>14, <1>15, <1>16, <1>17, <1>18, <1>19, <1>20,
     <1>21, <1>22, <1>23, <1>24, <1>25, <1>26, <1>27, <1>28, <1>29, <1>30, <1>31, <1>32,
     <1>33, <1>34, <1>35, <1>36, <1>37
     DEF Next, AddConnection, AccStep, ProcStep, HelperStep, StdioExit, ServiceKill, IdleExit

-----------------------------------------------------------------------------
\* The flag a reconciliation read under the connection lock stays "no" while it
\* holds the lock: only a user disconnect sets it, under the same lock.
LEMMA StepReconcile ==
  Typed /\ LockOwnership /\ StoreStable /\ ReconcileRespectsDisconnect /\ [Next]_vars
    => ReconcileRespectsDisconnect'
<1> SUFFICES ASSUME Typed, LockOwnership, StoreStable, ReconcileRespectsDisconnect, [Next]_vars
             PROVE  ReconcileRespectsDisconnect'
  OBVIOUS
<1> USE ServicesAssumption, ValuesAssumption DEF Typed, TypeOK, Assigned, LockOwnership,
         StoreStable, ReconcileRespectsDisconnect, InOperation, Connecting, Stored
<1>1. ASSUME NEW s \in Services, ServiceStart(s) PROVE ReconcileRespectsDisconnect'
  BY <1>1 DEF ServiceStart, storeVars, tunnelVars, accVars, bootVars
<1>2. ASSUME NEW s \in Services, Terminate(s) PROVE ReconcileRespectsDisconnect'
  BY <1>2 DEF Terminate, ThreadsOf, storeVars
<1>3. CASE Reboot
  BY <1>3 DEF Reboot, storeVars
<1>4. ASSUME NEW w \in Workers, ClientHangup(w) PROVE ReconcileRespectsDisconnect'
  BY <1>4 DEF ClientHangup, storeVars, tunnelVars, accVars, bootVars
<1>5. ASSUME NEW s \in Services, NEW fp \in Fingerprints, NEW owner \in Owners,
              NEW mode \in StartModes, NEW name \in Names \cup {NoName}, NEW force \in Forces,
              AddNew(s, fp, owner, mode, name, force)
       PROVE  ReconcileRespectsDisconnect'
  BY <1>5 DEF AddNew, tunnelVars, accVars, procVars, bootVars, Record
<1>6. ASSUME NEW s \in Services, NEW fp \in Fingerprints, NEW owner \in Owners,
              NEW mode \in StartModes, NEW name \in Names \cup {NoName}, NEW force \in Forces,
              AddExisting(s, fp, owner, mode, name, force)
       PROVE  ReconcileRespectsDisconnect'
  <2>1. PICK i \in find_by_identity(fp, owner) :
           accId' = Set(accId, s, i) /\ accRec' = Set(accRec, s, Resubmitted(records[i], mode, name))
    BY <1>6 DEF AddExisting
  <2>2. i \in Ids /\ records[i] \in Record
    BY <2>1 DEF find_by_identity
  <2>3. /\ indexLock = Free /\ indexLock' = s /\ accPc' = Set(accPc, s, "addwait")
        /\ UNCHANGED <<storeVars, tunnelVars, connLock, netLock, running, procVars, bootVars>>
    BY <1>6 DEF AddExisting
  <2>4. /\ Resubmitted(records[i], mode, name) \in Record
        /\ Resubmitted(records[i], mode, name).fingerprint = records[i].fingerprint
        /\ Resubmitted(records[i], mode, name).owner = records[i].owner
    BY <2>2, ResubmittedRecord
  <2>5. QED
    BY <2>1, <2>2, <2>3, <2>4, RecordAssumption DEF storeVars, tunnelVars, procVars, bootVars
<1>7. ASSUME NEW s \in Services, AddUpdate(s) PROVE ReconcileRespectsDisconnect'
  BY <1>7, RecordAssumption DEF AddUpdate, AccDone, tunnelVars, procVars, bootVars
<1>8. ASSUME NEW s \in Services, AccBusy(s) PROVE ReconcileRespectsDisconnect'
  BY <1>8 DEF AccBusy, AccDone, storeVars, tunnelVars, procVars, bootVars
<1>9. ASSUME NEW s \in Services, RemoveLock(s) PROVE ReconcileRespectsDisconnect'
  BY <1>9 DEF RemoveLock, AccDone, storeVars, tunnelVars, procVars, bootVars
<1>10. ASSUME NEW s \in Services, RemoveCommit(s) PROVE ReconcileRespectsDisconnect'
  BY <1>10 DEF RemoveCommit, AccDone, tunnelVars, procVars, bootVars
<1>11. ASSUME NEW s \in Services, NEW i \in Ids, RemoveConnection(s, i) PROVE ReconcileRespectsDisconnect'
  BY <1>11 DEF RemoveConnection, CanAccept, storeVars, tunnelVars, procVars, bootVars
<1>12. ASSUME NEW s \in Services, NEW i \in Ids, NEW mode \in StartModes,
              SetConnectionMode(s, i, mode)
       PROVE  ReconcileRespectsDisconnect'
  BY <1>12, WithModeRecord DEF SetConnectionMode, tunnelVars, accVars, procVars, bootVars
<1>13. ASSUME NEW s \in Services, NEW w \in Workers, NEW i \in Ids,
              ConnectConnection(s, w, i) \/ DisconnectConnection(s, w, i)
       PROVE  ReconcileRespectsDisconnect'
  BY <1>13 DEF ConnectConnection, DisconnectConnection, Spawn, storeVars, tunnelVars,
     accVars, bootVars
<1>14. ASSUME NEW w \in Workers, Reply(w) PROVE ReconcileRespectsDisconnect'
  BY <1>14 DEF Reply, storeVars, tunnelVars, accVars, bootVars
<1>15. ASSUME NEW p \in Procs, ProcLock(p) PROVE ReconcileRespectsDisconnect'
  BY <1>15 DEF ProcLock, Finish, Respond, Goto, storeVars, tunnelVars, accVars
<1>16. ASSUME NEW p \in Procs, ConnectIntent(p) PROVE ReconcileRespectsDisconnect'
  <2>1. Stored(cid[p]) => records[cid[p]] \in Record /\ records[cid[p]].user_disconnected \in {"yes", "no"}
    BY <1>16 DEF ConnectIntent, Record
  <2>2. QED
    BY <1>16, <2>1, WithFlagRecord DEF ConnectIntent, BacksOff, Finish, Respond, Goto,
       tunnelVars, accVars
<1>17. ASSUME NEW p \in Procs, DisconnectIntent(p) PROVE ReconcileRespectsDisconnect'
  BY <1>17, WithFlagRecord DEF DisconnectIntent, Finish, Respond, Goto, tunnelVars, accVars
<1>18. ASSUME NEW p \in Procs, ConnectCheck(p) PROVE ReconcileRespectsDisconnect'
  BY <1>18 DEF ConnectCheck, Finish, Respond, Goto, storeVars, tunnelVars, accVars
<1>19. ASSUME NEW p \in Procs, NetLock(p) PROVE ReconcileRespectsDisconnect'
  BY <1>19 DEF NetLock, Finish, Respond, Goto, storeVars, tunnelVars, accVars
<1>20. ASSUME NEW p \in Procs, NetTimeout(p) PROVE ReconcileRespectsDisconnect'
  BY <1>20 DEF NetTimeout, Finish, Respond, Goto, storeVars, accVars
<1>21. ASSUME NEW p \in Procs, RunUp(p) PROVE ReconcileRespectsDisconnect'
  BY <1>21 DEF RunUp, Finish, Respond, Goto, storeVars, accVars
<1>22. ASSUME NEW p \in Procs, UpReturn(p) PROVE ReconcileRespectsDisconnect'
  BY <1>22 DEF UpReturn, Finish, Respond, Goto, storeVars, tunnelVars, accVars
<1>23. ASSUME NEW p \in Procs, PostUp(p) PROVE ReconcileRespectsDisconnect'
  BY <1>23 DEF PostUp, Finish, Respond, Goto, storeVars, tunnelVars, accVars
<1>24. ASSUME NEW p \in Procs, SaveActive(p) PROVE ReconcileRespectsDisconnect'
  BY <1>24 DEF SaveActive, Finish, Respond, Goto, storeVars, accVars
<1>25. ASSUME NEW p \in Procs, RunDown(p) PROVE ReconcileRespectsDisconnect'
  BY <1>25 DEF RunDown, Finish, Respond, Goto, DownOk, storeVars, accVars
<1>26. ASSUME NEW p \in Procs, DownWait(p) PROVE ReconcileRespectsDisconnect'
  BY <1>26 DEF DownWait, Finish, Respond, Goto, DownOk, DownErr, storeVars, accVars
<1>27. ASSUME NEW p \in Procs, ClearActive(p) PROVE ReconcileRespectsDisconnect'
  BY <1>27 DEF ClearActive, Finish, Respond, Goto, storeVars, accVars
<1>28. CASE BootList
  BY <1>28 DEF BootList, boot_reconcile_candidates, storeVars, tunnelVars, accVars
<1>29. CASE BootNext
  BY <1>29 DEF BootNext, storeVars, tunnelVars, accVars
<1>30. CASE BootEnd
  BY <1>30 DEF BootEnd, storeVars, tunnelVars, accVars
<1>31. ASSUME NEW i \in Ids, HelperReady(i) PROVE ReconcileRespectsDisconnect'
  BY <1>31 DEF HelperReady, helperFrame, storeVars, accVars, procVars, bootVars
<1>32. ASSUME NEW i \in Ids, HelperFail(i) PROVE ReconcileRespectsDisconnect'
  BY <1>32 DEF HelperFail, helperFrame, storeVars, accVars, procVars, bootVars
<1>33. ASSUME NEW i \in Ids, HelperStopped(i) PROVE ReconcileRespectsDisconnect'
  BY <1>33 DEF HelperStopped, helperFrame, storeVars, accVars, procVars, bootVars
<1>34. ASSUME NEW i \in Ids, HelperSignal(i) PROVE ReconcileRespectsDisconnect'
  BY <1>34 DEF HelperSignal, helperFrame, storeVars, accVars, procVars, bootVars
<1>35. ASSUME NEW i \in Ids, HelperCrash(i) PROVE ReconcileRespectsDisconnect'
  BY <1>35 DEF HelperCrash, helperFrame, storeVars, accVars, procVars, bootVars
<1>36. ASSUME NEW i \in Ids, HelperStartCrash(i) PROVE ReconcileRespectsDisconnect'
  BY <1>36 DEF HelperStartCrash, helperFrame, storeVars, accVars, procVars, bootVars
<1>37. CASE UNCHANGED vars
  BY <1>37 DEF vars, storeVars, tunnelVars, accVars, procVars, bootVars
<1>38. QED
  BY <1>1, <1>2, <1>3, <1>4, <1>5, <1>6, <1>7, <1>8, <1>9, <1>10, <1>11, <1>12, <1>13,
     <1>14, <1>15, <1>16, <1>17, <1>18, <1>19, <1>20,
     <1>21, <1>22, <1>23, <1>24, <1>25, <1>26, <1>27, <1>28, <1>29, <1>30, <1>31, <1>32,
     <1>33, <1>34, <1>35, <1>36, <1>37
     DEF Next, AddConnection, AccStep, ProcStep, HelperStep, StdioExit, ServiceKill, IdleExit

-----------------------------------------------------------------------------
\* A helper starts only under a waiting thread, and a thread that the process
\* loses in that wait marks the connection.
LEMMA StepStart ==
  Typed /\ LockOwnership /\ StartTracked /\ [Next]_vars
    => StartTracked'
<1> SUFFICES ASSUME Typed, LockOwnership, StartTracked, [Next]_vars
             PROVE  StartTracked'
  OBVIOUS
<1> USE ServicesAssumption, ValuesAssumption DEF Typed, TypeOK, Assigned, LockOwnership,
         StartTracked, InOperation, InNetwork, Window
<1>1. ASSUME NEW s \in Services, ServiceStart(s) PROVE StartTracked'
  BY <1>1 DEF ServiceStart, storeVars, tunnelVars, accVars, bootVars
<1>2. ASSUME NEW s \in Services, Terminate(s) PROVE StartTracked'
  BY <1>2 DEF Terminate, ThreadsOf, storeVars
<1>3. CASE Reboot
  BY <1>3 DEF Reboot, storeVars
<1>4. ASSUME NEW w \in Workers, ClientHangup(w) PROVE StartTracked'
  BY <1>4 DEF ClientHangup, storeVars, tunnelVars, accVars, bootVars
<1>5. ASSUME NEW s \in Services, NEW fp \in Fingerprints, NEW owner \in Owners,
              NEW mode \in StartModes, NEW name \in Names \cup {NoName}, NEW force \in Forces,
              AddNew(s, fp, owner, mode, name, force)
       PROVE  StartTracked'
  BY <1>5 DEF AddNew, tunnelVars, accVars, procVars, bootVars
<1>6. ASSUME NEW s \in Services, NEW fp \in Fingerprints, NEW owner \in Owners,
              NEW mode \in StartModes, NEW name \in Names \cup {NoName}, NEW force \in Forces,
              AddExisting(s, fp, owner, mode, name, force)
       PROVE  StartTracked'
  BY <1>6 DEF AddExisting, find_by_identity, CanAccept, storeVars, tunnelVars, procVars,
     bootVars
<1>7. ASSUME NEW s \in Services, AddUpdate(s) PROVE StartTracked'
  BY <1>7 DEF AddUpdate, AccDone, tunnelVars, procVars, bootVars
<1>8. ASSUME NEW s \in Services, AccBusy(s) PROVE StartTracked'
  BY <1>8 DEF AccBusy, AccDone, storeVars, tunnelVars, procVars, bootVars
<1>9. ASSUME NEW s \in Services, RemoveLock(s) PROVE StartTracked'
  BY <1>9 DEF RemoveLock, AccDone, storeVars, tunnelVars, procVars, bootVars, IsActive
<1>10. ASSUME NEW s \in Services, RemoveCommit(s) PROVE StartTracked'
  BY <1>10 DEF RemoveCommit, AccDone, tunnelVars, procVars, bootVars
<1>11. ASSUME NEW s \in Services, NEW i \in Ids, RemoveConnection(s, i) PROVE StartTracked'
  BY <1>11 DEF RemoveConnection, CanAccept, storeVars, tunnelVars, procVars, bootVars
<1>12. ASSUME NEW s \in Services, NEW i \in Ids, NEW mode \in StartModes,
              SetConnectionMode(s, i, mode)
       PROVE  StartTracked'
  BY <1>12 DEF SetConnectionMode, tunnelVars, accVars, procVars, bootVars
<1>13. ASSUME NEW s \in Services, NEW w \in Workers, NEW i \in Ids,
              ConnectConnection(s, w, i) \/ DisconnectConnection(s, w, i)
       PROVE  StartTracked'
  BY <1>13 DEF ConnectConnection, DisconnectConnection, Spawn, storeVars, tunnelVars,
     accVars, bootVars
<1>14. ASSUME NEW w \in Workers, Reply(w) PROVE StartTracked'
  BY <1>14 DEF Reply, storeVars, tunnelVars, accVars, bootVars
<1>15. ASSUME NEW p \in Procs, ProcLock(p) PROVE StartTracked'
  BY <1>15 DEF ProcLock, Finish, Respond, Goto, storeVars, tunnelVars, accVars
<1>16. ASSUME NEW p \in Procs, ConnectIntent(p) PROVE StartTracked'
  BY <1>16 DEF ConnectIntent, Finish, Respond, Goto, tunnelVars, accVars
<1>17. ASSUME NEW p \in Procs, DisconnectIntent(p) PROVE StartTracked'
  BY <1>17 DEF DisconnectIntent, Finish, Respond, Goto, tunnelVars, accVars
<1>18. ASSUME NEW p \in Procs, ConnectCheck(p) PROVE StartTracked'
  BY <1>18 DEF ConnectCheck, Finish, Respond, Goto, storeVars, tunnelVars, accVars
<1>19. ASSUME NEW p \in Procs, NetLock(p) PROVE StartTracked'
  BY <1>19 DEF NetLock, Finish, Respond, Goto, storeVars, tunnelVars, accVars
<1>20. ASSUME NEW p \in Procs, NetTimeout(p) PROVE StartTracked'
  BY <1>20 DEF NetTimeout, Finish, Respond, Goto, storeVars, accVars
<1>21. ASSUME NEW p \in Procs, RunUp(p) PROVE StartTracked'
  BY <1>21 DEF RunUp, Finish, Respond, Goto, storeVars, accVars
<1>22. ASSUME NEW p \in Procs, UpReturn(p) PROVE StartTracked'
  BY <1>22 DEF UpReturn, Finish, Respond, Goto, storeVars, tunnelVars, accVars
<1>23. ASSUME NEW p \in Procs, PostUp(p) PROVE StartTracked'
  BY <1>23 DEF PostUp, Finish, Respond, Goto, storeVars, tunnelVars, accVars
<1>24. ASSUME NEW p \in Procs, SaveActive(p) PROVE StartTracked'
  BY <1>24 DEF SaveActive, Finish, Respond, Goto, storeVars, accVars
<1>25. ASSUME NEW p \in Procs, RunDown(p) PROVE StartTracked'
  BY <1>25 DEF RunDown, Finish, Respond, Goto, DownOk, storeVars, accVars
<1>26. ASSUME NEW p \in Procs, DownWait(p) PROVE StartTracked'
  BY <1>26 DEF DownWait, Finish, Respond, Goto, DownOk, DownErr, storeVars, accVars
<1>27. ASSUME NEW p \in Procs, ClearActive(p) PROVE StartTracked'
  BY <1>27 DEF ClearActive, Finish, Respond, Goto, storeVars, accVars
<1>28. CASE BootList
  BY <1>28 DEF BootList, boot_reconcile_candidates, storeVars, tunnelVars, accVars
<1>29. CASE BootNext
  BY <1>29 DEF BootNext, storeVars, tunnelVars, accVars
<1>30. CASE BootEnd
  BY <1>30 DEF BootEnd, storeVars, tunnelVars, accVars
<1>31. ASSUME NEW i \in Ids, HelperReady(i) PROVE StartTracked'
  BY <1>31 DEF HelperReady, helperFrame, storeVars, accVars, procVars, bootVars
<1>32. ASSUME NEW i \in Ids, HelperFail(i) PROVE StartTracked'
  BY <1>32 DEF HelperFail, helperFrame, storeVars, accVars, procVars, bootVars
<1>33. ASSUME NEW i \in Ids, HelperStopped(i) PROVE StartTracked'
  BY <1>33 DEF HelperStopped, helperFrame, storeVars, accVars, procVars, bootVars
<1>34. ASSUME NEW i \in Ids, HelperSignal(i) PROVE StartTracked'
  BY <1>34 DEF HelperSignal, helperFrame, storeVars, accVars, procVars, bootVars
<1>35. ASSUME NEW i \in Ids, HelperCrash(i) PROVE StartTracked'
  BY <1>35 DEF HelperCrash, helperFrame, storeVars, accVars, procVars, bootVars
<1>36. ASSUME NEW i \in Ids, HelperStartCrash(i) PROVE StartTracked'
  BY <1>36 DEF HelperStartCrash, helperFrame, storeVars, accVars, procVars, bootVars
<1>37. CASE UNCHANGED vars
  BY <1>37 DEF vars, storeVars, tunnelVars, accVars, procVars, bootVars
<1>38. QED
  BY <1>1, <1>2, <1>3, <1>4, <1>5, <1>6, <1>7, <1>8, <1>9, <1>10, <1>11, <1>12, <1>13,
     <1>14, <1>15, <1>16, <1>17, <1>18, <1>19, <1>20,
     <1>21, <1>22, <1>23, <1>24, <1>25, <1>26, <1>27, <1>28, <1>29, <1>30, <1>31, <1>32,
     <1>33, <1>34, <1>35, <1>36, <1>37
     DEF Next, AddConnection, AccStep, ProcStep, HelperStep, StdioExit, ServiceKill, IdleExit

-----------------------------------------------------------------------------
\* A running helper is left by its thread only with a matching marker, or with
\* the connection marked as cut short.
LEMMA StepTrack ==
  Typed /\ LockOwnership /\ StoreStable /\ StartTracked /\ DisconnectConfirmsDown /\ TunnelTracked /\ [Next]_vars
    => TunnelTracked'
<1> SUFFICES ASSUME Typed, LockOwnership, StoreStable, StartTracked, DisconnectConfirmsDown, TunnelTracked, [Next]_vars
             PROVE  TunnelTracked'
  OBVIOUS
<1> USE ServicesAssumption, ValuesAssumption DEF Typed, TypeOK, Assigned, LockOwnership,
         StoreStable, StartTracked, DisconnectConfirmsDown, TunnelTracked,
         HelperRunning, InOperation, Stored, Window
<1>1. ASSUME NEW s \in Services, ServiceStart(s) PROVE TunnelTracked'
  BY <1>1 DEF ServiceStart, storeVars, tunnelVars, accVars, bootVars
<1>2. ASSUME NEW s \in Services, Terminate(s) PROVE TunnelTracked'
  BY <1>2 DEF Terminate, ThreadsOf, storeVars
<1>3. CASE Reboot
  BY <1>3 DEF Reboot, storeVars
<1>4. ASSUME NEW w \in Workers, ClientHangup(w) PROVE TunnelTracked'
  BY <1>4 DEF ClientHangup, storeVars, tunnelVars, accVars, bootVars
<1>5. ASSUME NEW s \in Services, NEW fp \in Fingerprints, NEW owner \in Owners,
              NEW mode \in StartModes, NEW name \in Names \cup {NoName}, NEW force \in Forces,
              AddNew(s, fp, owner, mode, name, force)
       PROVE  TunnelTracked'
  BY <1>5 DEF AddNew, tunnelVars, accVars, procVars, bootVars
<1>6. ASSUME NEW s \in Services, NEW fp \in Fingerprints, NEW owner \in Owners,
              NEW mode \in StartModes, NEW name \in Names \cup {NoName}, NEW force \in Forces,
              AddExisting(s, fp, owner, mode, name, force)
       PROVE  TunnelTracked'
  <2>1. PICK i \in find_by_identity(fp, owner) :
           accId' = Set(accId, s, i) /\ accRec' = Set(accRec, s, Resubmitted(records[i], mode, name))
    BY <1>6 DEF AddExisting
  <2>2. i \in Ids /\ records[i] \in Record
    BY <2>1 DEF find_by_identity
  <2>3. /\ indexLock = Free /\ indexLock' = s /\ accPc' = Set(accPc, s, "addwait")
        /\ UNCHANGED <<storeVars, tunnelVars, connLock, netLock, running, procVars, bootVars>>
    BY <1>6 DEF AddExisting
  <2>4. /\ Resubmitted(records[i], mode, name) \in Record
        /\ Resubmitted(records[i], mode, name).fingerprint = records[i].fingerprint
        /\ Resubmitted(records[i], mode, name).owner = records[i].owner
    BY <2>2, ResubmittedRecord
  <2>5. QED
    BY <2>1, <2>2, <2>3, <2>4, RecordAssumption DEF storeVars, tunnelVars, procVars, bootVars
<1>7. ASSUME NEW s \in Services, AddUpdate(s) PROVE TunnelTracked'
  BY <1>7, RecordAssumption DEF AddUpdate, AccDone, tunnelVars, procVars, bootVars
<1>8. ASSUME NEW s \in Services, AccBusy(s) PROVE TunnelTracked'
  BY <1>8 DEF AccBusy, AccDone, storeVars, tunnelVars, procVars, bootVars
<1>9. ASSUME NEW s \in Services, RemoveLock(s) PROVE TunnelTracked'
  BY <1>9 DEF RemoveLock, AccDone, storeVars, tunnelVars, procVars, bootVars
<1>10. ASSUME NEW s \in Services, RemoveCommit(s) PROVE TunnelTracked'
  BY <1>10 DEF RemoveCommit, AccDone, tunnelVars, procVars, bootVars
<1>11. ASSUME NEW s \in Services, NEW i \in Ids, RemoveConnection(s, i) PROVE TunnelTracked'
  BY <1>11 DEF RemoveConnection, CanAccept, storeVars, tunnelVars, procVars, bootVars
<1>12. ASSUME NEW s \in Services, NEW i \in Ids, NEW mode \in StartModes,
              SetConnectionMode(s, i, mode)
       PROVE  TunnelTracked'
  BY <1>12, WithModeRecord DEF SetConnectionMode, tunnelVars, accVars, procVars, bootVars
<1>13. ASSUME NEW s \in Services, NEW w \in Workers, NEW i \in Ids,
              ConnectConnection(s, w, i) \/ DisconnectConnection(s, w, i)
       PROVE  TunnelTracked'
  BY <1>13 DEF ConnectConnection, DisconnectConnection, Spawn, storeVars, tunnelVars,
     accVars, bootVars
<1>14. ASSUME NEW w \in Workers, Reply(w) PROVE TunnelTracked'
  BY <1>14 DEF Reply, storeVars, tunnelVars, accVars, bootVars
<1>15. ASSUME NEW p \in Procs, ProcLock(p) PROVE TunnelTracked'
  BY <1>15 DEF ProcLock, Finish, Respond, Goto, storeVars, tunnelVars, accVars
<1>16. ASSUME NEW p \in Procs, ConnectIntent(p) PROVE TunnelTracked'
  BY <1>16, WithFlagRecord DEF ConnectIntent, Finish, Respond, Goto, tunnelVars, accVars
<1>17. ASSUME NEW p \in Procs, DisconnectIntent(p) PROVE TunnelTracked'
  BY <1>17, WithFlagRecord DEF DisconnectIntent, Finish, Respond, Goto, tunnelVars, accVars
<1>18. ASSUME NEW p \in Procs, ConnectCheck(p) PROVE TunnelTracked'
  BY <1>18 DEF ConnectCheck, Finish, Respond, Goto, storeVars, tunnelVars, accVars
<1>19. ASSUME NEW p \in Procs, NetLock(p) PROVE TunnelTracked'
  BY <1>19 DEF NetLock, Finish, Respond, Goto, storeVars, tunnelVars, accVars
<1>20. ASSUME NEW p \in Procs, NetTimeout(p) PROVE TunnelTracked'
  BY <1>20 DEF NetTimeout, Finish, Respond, Goto, storeVars, accVars
<1>21. ASSUME NEW p \in Procs, RunUp(p) PROVE TunnelTracked'
  BY <1>21 DEF RunUp, Finish, Respond, Goto, storeVars, accVars
<1>22. ASSUME NEW p \in Procs, UpReturn(p) PROVE TunnelTracked'
  BY <1>22 DEF UpReturn, Finish, Respond, Goto, storeVars, tunnelVars, accVars
<1>23. ASSUME NEW p \in Procs, PostUp(p) PROVE TunnelTracked'
  BY <1>23 DEF PostUp, Finish, Respond, Goto, storeVars, tunnelVars, accVars
<1>24. ASSUME NEW p \in Procs, SaveActive(p) PROVE TunnelTracked'
  BY <1>24 DEF SaveActive, Finish, Respond, Goto, storeVars, accVars
<1>25. ASSUME NEW p \in Procs, RunDown(p) PROVE TunnelTracked'
  BY <1>25 DEF RunDown, Finish, Respond, Goto, DownOk, storeVars, accVars
<1>26. ASSUME NEW p \in Procs, DownWait(p) PROVE TunnelTracked'
  BY <1>26 DEF DownWait, Finish, Respond, Goto, DownOk, DownErr, storeVars, accVars
<1>27. ASSUME NEW p \in Procs, ClearActive(p) PROVE TunnelTracked'
  BY <1>27 DEF ClearActive, Finish, Respond, Goto, storeVars, accVars
<1>28. CASE BootList
  BY <1>28 DEF BootList, boot_reconcile_candidates, storeVars, tunnelVars, accVars
<1>29. CASE BootNext
  BY <1>29 DEF BootNext, storeVars, tunnelVars, accVars
<1>30. CASE BootEnd
  BY <1>30 DEF BootEnd, storeVars, tunnelVars, accVars
<1>31. ASSUME NEW i \in Ids, HelperReady(i) PROVE TunnelTracked'
  BY <1>31 DEF HelperReady, helperFrame, storeVars, accVars, procVars, bootVars
<1>32. ASSUME NEW i \in Ids, HelperFail(i) PROVE TunnelTracked'
  BY <1>32 DEF HelperFail, helperFrame, storeVars, accVars, procVars, bootVars
<1>33. ASSUME NEW i \in Ids, HelperStopped(i) PROVE TunnelTracked'
  BY <1>33 DEF HelperStopped, helperFrame, storeVars, accVars, procVars, bootVars
<1>34. ASSUME NEW i \in Ids, HelperSignal(i) PROVE TunnelTracked'
  BY <1>34 DEF HelperSignal, helperFrame, storeVars, accVars, procVars, bootVars
<1>35. ASSUME NEW i \in Ids, HelperCrash(i) PROVE TunnelTracked'
  BY <1>35 DEF HelperCrash, helperFrame, storeVars, accVars, procVars, bootVars
<1>36. ASSUME NEW i \in Ids, HelperStartCrash(i) PROVE TunnelTracked'
  BY <1>36 DEF HelperStartCrash, helperFrame, storeVars, accVars, procVars, bootVars
<1>37. CASE UNCHANGED vars
  BY <1>37 DEF vars, storeVars, tunnelVars, accVars, procVars, bootVars
<1>38. QED
  BY <1>1, <1>2, <1>3, <1>4, <1>5, <1>6, <1>7, <1>8, <1>9, <1>10, <1>11, <1>12, <1>13,
     <1>14, <1>15, <1>16, <1>17, <1>18, <1>19, <1>20,
     <1>21, <1>22, <1>23, <1>24, <1>25, <1>26, <1>27, <1>28, <1>29, <1>30, <1>31, <1>32,
     <1>33, <1>34, <1>35, <1>36, <1>37
     DEF Next, AddConnection, AccStep, ProcStep, HelperStep, StdioExit, ServiceKill, IdleExit

-----------------------------------------------------------------------------
\* A thread gets to clear the marker only after a confirmed teardown, and no
\* other thread can start the helper again meanwhile.
LEMMA StepDown ==
  Typed /\ LockOwnership /\ StartTracked /\ DisconnectConfirmsDown /\ [Next]_vars
    => DisconnectConfirmsDown'
<1> SUFFICES ASSUME Typed, LockOwnership, StartTracked, DisconnectConfirmsDown, [Next]_vars
             PROVE  DisconnectConfirmsDown'
  OBVIOUS
<1> USE ServicesAssumption, ValuesAssumption DEF Typed, TypeOK, Assigned, LockOwnership,
         StartTracked, DisconnectConfirmsDown, HelperRunning, InOperation
<1>1. ASSUME NEW s \in Services, ServiceStart(s) PROVE DisconnectConfirmsDown'
  BY <1>1 DEF ServiceStart, storeVars, tunnelVars, accVars, bootVars
<1>2. ASSUME NEW s \in Services, Terminate(s) PROVE DisconnectConfirmsDown'
  BY <1>2 DEF Terminate, ThreadsOf, storeVars
<1>3. CASE Reboot
  BY <1>3 DEF Reboot, storeVars
<1>4. ASSUME NEW w \in Workers, ClientHangup(w) PROVE DisconnectConfirmsDown'
  BY <1>4 DEF ClientHangup, storeVars, tunnelVars, accVars, bootVars
<1>5. ASSUME NEW s \in Services, NEW fp \in Fingerprints, NEW owner \in Owners,
              NEW mode \in StartModes, NEW name \in Names \cup {NoName}, NEW force \in Forces,
              AddNew(s, fp, owner, mode, name, force)
       PROVE  DisconnectConfirmsDown'
  BY <1>5 DEF AddNew, tunnelVars, accVars, procVars, bootVars
<1>6. ASSUME NEW s \in Services, NEW fp \in Fingerprints, NEW owner \in Owners,
              NEW mode \in StartModes, NEW name \in Names \cup {NoName}, NEW force \in Forces,
              AddExisting(s, fp, owner, mode, name, force)
       PROVE  DisconnectConfirmsDown'
  BY <1>6 DEF AddExisting, find_by_identity, CanAccept, storeVars, tunnelVars, procVars,
     bootVars
<1>7. ASSUME NEW s \in Services, AddUpdate(s) PROVE DisconnectConfirmsDown'
  BY <1>7 DEF AddUpdate, AccDone, tunnelVars, procVars, bootVars
<1>8. ASSUME NEW s \in Services, AccBusy(s) PROVE DisconnectConfirmsDown'
  BY <1>8 DEF AccBusy, AccDone, storeVars, tunnelVars, procVars, bootVars
<1>9. ASSUME NEW s \in Services, RemoveLock(s) PROVE DisconnectConfirmsDown'
  BY <1>9 DEF RemoveLock, AccDone, storeVars, tunnelVars, procVars, bootVars
<1>10. ASSUME NEW s \in Services, RemoveCommit(s) PROVE DisconnectConfirmsDown'
  BY <1>10 DEF RemoveCommit, AccDone, tunnelVars, procVars, bootVars
<1>11. ASSUME NEW s \in Services, NEW i \in Ids, RemoveConnection(s, i) PROVE DisconnectConfirmsDown'
  BY <1>11 DEF RemoveConnection, CanAccept, storeVars, tunnelVars, procVars, bootVars
<1>12. ASSUME NEW s \in Services, NEW i \in Ids, NEW mode \in StartModes,
              SetConnectionMode(s, i, mode)
       PROVE  DisconnectConfirmsDown'
  BY <1>12 DEF SetConnectionMode, tunnelVars, accVars, procVars, bootVars
<1>13. ASSUME NEW s \in Services, NEW w \in Workers, NEW i \in Ids,
              ConnectConnection(s, w, i) \/ DisconnectConnection(s, w, i)
       PROVE  DisconnectConfirmsDown'
  BY <1>13 DEF ConnectConnection, DisconnectConnection, Spawn, storeVars, tunnelVars,
     accVars, bootVars
<1>14. ASSUME NEW w \in Workers, Reply(w) PROVE DisconnectConfirmsDown'
  BY <1>14 DEF Reply, storeVars, tunnelVars, accVars, bootVars
<1>15. ASSUME NEW p \in Procs, ProcLock(p) PROVE DisconnectConfirmsDown'
  BY <1>15 DEF ProcLock, Finish, Respond, Goto, storeVars, tunnelVars, accVars
<1>16. ASSUME NEW p \in Procs, ConnectIntent(p) PROVE DisconnectConfirmsDown'
  BY <1>16 DEF ConnectIntent, Finish, Respond, Goto, tunnelVars, accVars
<1>17. ASSUME NEW p \in Procs, DisconnectIntent(p) PROVE DisconnectConfirmsDown'
  BY <1>17 DEF DisconnectIntent, Finish, Respond, Goto, tunnelVars, accVars
<1>18. ASSUME NEW p \in Procs, ConnectCheck(p) PROVE DisconnectConfirmsDown'
  BY <1>18 DEF ConnectCheck, Finish, Respond, Goto, storeVars, tunnelVars, accVars
<1>19. ASSUME NEW p \in Procs, NetLock(p) PROVE DisconnectConfirmsDown'
  BY <1>19 DEF NetLock, Finish, Respond, Goto, storeVars, tunnelVars, accVars
<1>20. ASSUME NEW p \in Procs, NetTimeout(p) PROVE DisconnectConfirmsDown'
  BY <1>20 DEF NetTimeout, Finish, Respond, Goto, storeVars, accVars
<1>21. ASSUME NEW p \in Procs, RunUp(p) PROVE DisconnectConfirmsDown'
  BY <1>21 DEF RunUp, Finish, Respond, Goto, storeVars, accVars
<1>22. ASSUME NEW p \in Procs, UpReturn(p) PROVE DisconnectConfirmsDown'
  BY <1>22 DEF UpReturn, Finish, Respond, Goto, storeVars, tunnelVars, accVars
<1>23. ASSUME NEW p \in Procs, PostUp(p) PROVE DisconnectConfirmsDown'
  BY <1>23 DEF PostUp, Finish, Respond, Goto, storeVars, tunnelVars, accVars
<1>24. ASSUME NEW p \in Procs, SaveActive(p) PROVE DisconnectConfirmsDown'
  BY <1>24 DEF SaveActive, Finish, Respond, Goto, storeVars, accVars
<1>25. ASSUME NEW p \in Procs, RunDown(p) PROVE DisconnectConfirmsDown'
  BY <1>25 DEF RunDown, Finish, Respond, Goto, DownOk, storeVars, accVars
<1>26. ASSUME NEW p \in Procs, DownWait(p) PROVE DisconnectConfirmsDown'
  BY <1>26 DEF DownWait, Finish, Respond, Goto, DownOk, DownErr, storeVars, accVars
<1>27. ASSUME NEW p \in Procs, ClearActive(p) PROVE DisconnectConfirmsDown'
  BY <1>27 DEF ClearActive, Finish, Respond, Goto, storeVars, accVars
<1>28. CASE BootList
  BY <1>28 DEF BootList, boot_reconcile_candidates, storeVars, tunnelVars, accVars
<1>29. CASE BootNext
  BY <1>29 DEF BootNext, storeVars, tunnelVars, accVars
<1>30. CASE BootEnd
  BY <1>30 DEF BootEnd, storeVars, tunnelVars, accVars
<1>31. ASSUME NEW i \in Ids, HelperReady(i) PROVE DisconnectConfirmsDown'
  BY <1>31 DEF HelperReady, helperFrame, storeVars, accVars, procVars, bootVars
<1>32. ASSUME NEW i \in Ids, HelperFail(i) PROVE DisconnectConfirmsDown'
  BY <1>32 DEF HelperFail, helperFrame, storeVars, accVars, procVars, bootVars
<1>33. ASSUME NEW i \in Ids, HelperStopped(i) PROVE DisconnectConfirmsDown'
  BY <1>33 DEF HelperStopped, helperFrame, storeVars, accVars, procVars, bootVars
<1>34. ASSUME NEW i \in Ids, HelperSignal(i) PROVE DisconnectConfirmsDown'
  BY <1>34 DEF HelperSignal, helperFrame, storeVars, accVars, procVars, bootVars
<1>35. ASSUME NEW i \in Ids, HelperCrash(i) PROVE DisconnectConfirmsDown'
  BY <1>35 DEF HelperCrash, helperFrame, storeVars, accVars, procVars, bootVars
<1>36. ASSUME NEW i \in Ids, HelperStartCrash(i) PROVE DisconnectConfirmsDown'
  BY <1>36 DEF HelperStartCrash, helperFrame, storeVars, accVars, procVars, bootVars
<1>37. CASE UNCHANGED vars
  BY <1>37 DEF vars, storeVars, tunnelVars, accVars, procVars, bootVars
<1>38. QED
  BY <1>1, <1>2, <1>3, <1>4, <1>5, <1>6, <1>7, <1>8, <1>9, <1>10, <1>11, <1>12, <1>13,
     <1>14, <1>15, <1>16, <1>17, <1>18, <1>19, <1>20,
     <1>21, <1>22, <1>23, <1>24, <1>25, <1>26, <1>27, <1>28, <1>29, <1>30, <1>31, <1>32,
     <1>33, <1>34, <1>35, <1>36, <1>37
     DEF Next, AddConnection, AccStep, ProcStep, HelperStep, StdioExit, ServiceKill, IdleExit

-----------------------------------------------------------------------------
(* The inductive invariant and what follows from it.                       *)

\* The initial state, no service running and an empty store, satisfies IInv.
LEMMA InitIInv == Init => IInv
<1> SUFFICES ASSUME Init PROVE IInv
  OBVIOUS
<1> USE ServicesAssumption, ValuesAssumption DEF Init
<1>1. TypeOK
  BY DEF TypeOK, Places, InOperation, HelperStates
<1>2. Assigned
  BY DEF Assigned
<1>3. LockOwnership
  BY DEF LockOwnership, InOperation, InNetwork
<1>4. StoreStable /\ IdentityUnique /\ ReconcileRespectsDisconnect
  BY DEF StoreStable, IdentityUnique, ReconcileRespectsDisconnect, Stored, InOperation, Connecting
<1>5. StartTracked /\ TunnelTracked /\ DisconnectConfirmsDown
  BY DEF StartTracked, TunnelTracked, DisconnectConfirmsDown, HelperRunning
<1>6. QED
  BY <1>1, <1>2, <1>3, <1>4, <1>5 DEF IInv

\* Every step preserves IInv: its conjuncts, in the order of their dependence.
LEMMA StepIInv == IInv /\ [Next]_vars => IInv'
<1> SUFFICES ASSUME IInv, [Next]_vars PROVE IInv'
  OBVIOUS
<1>1. Typed'
  BY StepTyped DEF IInv, Typed
<1>2. LockOwnership'
  BY StepLock DEF IInv, Typed
<1>3. StoreStable'
  BY StepStore DEF IInv, Typed
<1>4. IdentityUnique'
  BY StepIdentity DEF IInv, Typed
<1>5. ReconcileRespectsDisconnect'
  BY StepReconcile DEF IInv, Typed
<1>6. StartTracked'
  BY StepStart DEF IInv, Typed
<1>7. TunnelTracked'
  BY StepTrack DEF IInv, Typed
<1>8. DisconnectConfirmsDown'
  BY StepDown DEF IInv, Typed
<1>9. QED
  BY <1>1, <1>2, <1>3, <1>4, <1>5, <1>6, <1>7, <1>8 DEF IInv, Typed

\* IInv is an inductive invariant of the daemon, its workers and its helpers.
THEOREM Induction == Spec => []IInv
<1>1. Init => IInv
  BY InitIInv
<1>2. IInv /\ [Next]_vars => IInv'
  BY StepIInv
<1>3. QED
  BY <1>1, <1>2, PTL DEF Spec

\* Every variable keeps its type.
THEOREM TypeCorrect == Spec => []TypeOK
<1>1. IInv => TypeOK
  BY DEF IInv
<1>2. QED
  BY <1>1, Induction, PTL

\* lock_connection serialises connect, disconnect and remove of a connection,
\* over threads and service processes and across kills: two of them at one id
\* would both own its lock.
THEOREM ConnectionsSerialised == Spec => []OneOperationPerConnection
<1>1. IInv => OneOperationPerConnection
  <2> SUFFICES ASSUME IInv PROVE OneOperationPerConnection
    OBVIOUS
  <2>1. LockOwnership /\ Assigned
    BY DEF IInv
  <2>2. ASSUME NEW p \in Procs, NEW q \in Procs,
               pc[p] \in InOperation, pc[q] \in InOperation, cid[p] = cid[q]
        PROVE  p = q
    BY <2>1, <2>2 DEF LockOwnership
  <2>3. ASSUME NEW p \in Procs, NEW s \in Services,
               pc[p] \in InOperation, accPc[s] = "rmcommit", cid[p] = accId[s]
        PROVE  FALSE
    <3>1. connLock[accId[s]] = p /\ connLock[accId[s]] = s
      BY <2>1, <2>3 DEF LockOwnership
    <3>2. p # s
      BY ServicesAssumption
    <3>3. QED
      BY <3>1, <3>2
  <2>4. QED
    BY <2>2, <2>3 DEF OneOperationPerConnection
<1>2. QED
  BY <1>1, Induction, PTL

\* lock_system_network_mutation: bring-ups and teardowns of any two connections
\* never overlap while a thread drives them.
THEOREM NetworkSerialised == Spec => []NetworkExclusive
<1>1. IInv => NetworkExclusive
  <2> SUFFICES ASSUME IInv PROVE NetworkExclusive
    OBVIOUS
  <2>1. LockOwnership /\ StartTracked
    BY DEF IInv
  <2>2. ASSUME NEW p \in Procs, NEW q \in Procs, pc[p] \in InNetwork, pc[q] \in InNetwork
        PROVE  p = q
    BY <2>1, <2>2 DEF LockOwnership
  <2>3. ASSUME NEW i \in Ids, NEW j \in Ids, helper[i] = "starting", helper[j] = "starting",
               i \notin faulted, j \notin faulted
        PROVE  i = j
    <3>1. PICK p \in Procs : pc[p] = "upwait" /\ cid[p] = i
      BY <2>1, <2>3 DEF StartTracked
    <3>2. PICK q \in Procs : pc[q] = "upwait" /\ cid[q] = j
      BY <2>1, <2>3 DEF StartTracked
    <3>3. p = q
      BY <2>2, <3>1, <3>2 DEF InNetwork
    <3>4. QED
      BY <3>1, <3>2, <3>3
  <2>4. QED
    BY <2>2, <2>3 DEF NetworkExclusive
<1>2. QED
  BY <1>1, Induction, PTL

\* However stale the snapshot of a boot or session reconciliation is, it never
\* brings up a connection whose explicit disconnect has been committed.
THEOREM DisconnectWins == Spec => []ReconcileRespectsDisconnect
<1>1. IInv => ReconcileRespectsDisconnect
  BY DEF IInv
<1>2. QED
  BY <1>1, Induction, PTL

\* AddConnection's exact-match lookup: an identity is stored at most once.
THEOREM IdentitiesUnique == Spec => []IdentityUnique
<1>1. IInv => IdentityUnique
  BY DEF IInv
<1>2. QED
  BY <1>1, Induction, PTL

\* RemoveConnection and connect never leave a running helper that no marker
\* describes, no thread is on, and that no interrupted operation explains.
THEOREM TunnelsTracked == Spec => []TunnelTracked
<1>1. IInv => TunnelTracked
  BY DEF IInv
<1>2. QED
  BY <1>1, Induction, PTL

\* disconnect clears the marker only once the helper has confirmed its cleanup.
THEOREM DisconnectConfirmed == Spec => []DisconnectConfirmsDown
<1>1. IInv => DisconnectConfirmsDown
  BY DEF IInv
<1>2. QED
  BY <1>1, Induction, PTL

\* One step never stores a record at an id that was allocated and is not stored:
\* AddNew takes a new id, and every other write is over a record that a lock
\* has kept in place since it was read.
LEMMA StepNoResurrection ==
  IInv /\ [Next]_vars => [\A i \in used : ~Stored(i) => ~Stored(i)']_vars
<1> SUFFICES ASSUME IInv, Next, NEW i \in used, ~Stored(i) PROVE ~Stored(i)'
  BY DEF vars
<1>1. Typed /\ StoreStable
  BY DEF IInv, Typed
<1> i \in Ids /\ i \in used /\ records[i] = NoRecord
  BY <1>1 DEF Typed, TypeOK, Stored
<1> USE <1>1, ServicesAssumption DEF Typed, TypeOK, Assigned, StoreStable, Stored, InOperation
<1>2. ASSUME NEW s \in Services, NEW fp \in Fingerprints, NEW owner \in Owners,
             NEW mode \in StartModes, NEW name \in Names \cup {NoName}, NEW force \in Forces,
             AddNew(s, fp, owner, mode, name, force)
      PROVE  records'[i] = NoRecord
  BY <1>2 DEF AddNew
<1>3. ASSUME NEW s \in Services, AddUpdate(s) PROVE records'[i] = NoRecord
  BY <1>3 DEF AddUpdate
<1>4. ASSUME NEW s \in Services, RemoveCommit(s) PROVE records'[i] = NoRecord
  BY <1>4 DEF RemoveCommit
<1>5. ASSUME NEW s \in Services, NEW j \in Ids, NEW mode \in StartModes, SetConnectionMode(s, j, mode)
      PROVE  records'[i] = NoRecord
  BY <1>5 DEF SetConnectionMode
<1>6. ASSUME NEW p \in Procs, ConnectIntent(p) \/ DisconnectIntent(p)
      PROVE  records'[i] = NoRecord
  BY <1>6 DEF ConnectIntent, DisconnectIntent
<1>7. ASSUME NEW s \in Services, Terminate(s) \/ ServiceStart(s) \/ AccBusy(s) \/ RemoveLock(s)
      PROVE  UNCHANGED records
  BY <1>7 DEF Terminate, ServiceStart, AccBusy, RemoveLock, storeVars
<1>8. ASSUME NEW s \in Services, NEW fp \in Fingerprints, NEW owner \in Owners,
             NEW mode \in StartModes, NEW name \in Names \cup {NoName}, NEW force \in Forces,
             AddExisting(s, fp, owner, mode, name, force)
      PROVE  UNCHANGED records
  BY <1>8 DEF AddExisting, storeVars
<1>9. ASSUME NEW s \in Services, NEW j \in Ids, NEW w \in Workers,
             ConnectConnection(s, w, j) \/ DisconnectConnection(s, w, j)
      PROVE  UNCHANGED records
  BY <1>9 DEF ConnectConnection, DisconnectConnection, Spawn, storeVars
<1>10. ASSUME NEW s \in Services, NEW j \in Ids, RemoveConnection(s, j)
       PROVE  UNCHANGED records
  BY <1>10 DEF RemoveConnection, storeVars
<1>11. ASSUME NEW w \in Workers, ClientHangup(w) \/ Reply(w)
       PROVE  UNCHANGED records
  BY <1>11 DEF ClientHangup, Reply, storeVars
<1>12. ASSUME NEW p \in Procs,
              \/ ProcLock(p) \/ ConnectCheck(p) \/ NetLock(p) \/ NetTimeout(p) \/ RunUp(p)
              \/ UpReturn(p) \/ PostUp(p) \/ SaveActive(p) \/ RunDown(p) \/ DownWait(p)
              \/ ClearActive(p)
       PROVE  UNCHANGED records
  BY <1>12 DEF ProcLock, ConnectCheck, NetLock, NetTimeout, RunUp, UpReturn, PostUp, SaveActive,
              RunDown, DownWait, ClearActive, storeVars
<1>13. ASSUME Reboot \/ BootList \/ BootNext \/ BootEnd PROVE UNCHANGED records
  BY <1>13 DEF Reboot, BootList, BootNext, BootEnd, storeVars
<1>14. ASSUME NEW j \in Ids,
              \/ HelperReady(j) \/ HelperFail(j) \/ HelperStopped(j) \/ HelperSignal(j)
              \/ HelperCrash(j) \/ HelperStartCrash(j)
       PROVE  UNCHANGED records
  BY <1>14 DEF HelperReady, HelperFail, HelperStopped, HelperSignal, HelperCrash,
              HelperStartCrash, helperFrame, storeVars
<1>15. QED
  BY <1>2, <1>3, <1>4, <1>5, <1>6, <1>7, <1>8, <1>9, <1>10, <1>11, <1>12, <1>13, <1>14
     DEF Next, AddConnection, AccStep, ProcStep, HelperStep, StdioExit, ServiceKill, IdleExit

\* A removed connection stays removed, whatever handlers are under way in
\* whichever service process.
THEOREM RemovedStaysRemoved == Spec => NoResurrection
<1>1. IInv /\ [Next]_vars => [\A i \in used : ~Stored(i) => ~Stored(i)']_vars
  BY StepNoResurrection
<1>2. QED
  BY <1>1, Induction, PTL DEF Spec, NoResurrection

-----------------------------------------------------------------------------
(* Names, where no client forces an add.                                   *)

\* Setting user_disconnected and changing the mode keep the name; a resubmission
\* keeps it or takes the one it was given.
LEMMA NamesOfRecords ==
  /\ \A rec \in Record, value \in {"yes", "no"} : WithFlag(rec, value).name = rec.name
  /\ \A rec \in Record, mode \in StartModes : WithMode(rec, mode).name = rec.name
  /\ \A rec \in Record, mode \in StartModes, name \in Names \cup {NoName} :
       Resubmitted(rec, mode, name).name = IF name = NoName THEN rec.name ELSE name
<1>1. \A rec \in Record, value \in {"yes", "no"} : WithFlag(rec, value).name = rec.name
  BY DEF WithFlag, Record
<1>2. \A rec \in Record, mode \in StartModes : WithMode(rec, mode).name = rec.name
  BY DEF WithMode, Record
<1>3. \A rec \in Record, mode \in StartModes, name \in Names \cup {NoName} :
        Resubmitted(rec, mode, name).name = IF name = NoName THEN rec.name ELSE name
  BY <1>2, WithModeRecord DEF Resubmitted, Record
<1>4. QED
  BY <1>1, <1>2, <1>3

\* A step that stores no new name and starts no add keeps names unique.
LEMMA NameFrame ==
  ASSUME NamesUnique, NameReserved,
         \A i \in Ids : Stored(i)' => /\ Stored(i) /\ records'[i].name = records[i].name
                                      /\ records'[i].owner = records[i].owner,
         \A s \in Services : accPc'[s] = "addwait" =>
           accPc[s] = "addwait" /\ accId'[s] = accId[s] /\ accRec'[s] = accRec[s]
  PROVE  NamesUnique' /\ NameReserved'
<1>1. NamesUnique'
  BY DEF NamesUnique
<1>2. NameReserved'
  BY DEF NameReserved
<1>3. QED
  BY <1>1, <1>2

\* Every step keeps a name with one connection of its owner: the check and the write
\* of an add happen under one hold of the index lock.
LEMMA StepNames ==
  ASSUME TRUE \notin Forces, IInv, NamesUnique, NameReserved, [Next]_vars
  PROVE  NamesUnique' /\ NameReserved'
<1>0. Typed /\ LockOwnership /\ StoreStable
  BY DEF IInv, Typed
<1>a. \A i \in Ids : Stored(i) => records[i] \in Record
  BY <1>0 DEF Typed, TypeOK, Stored
<1>1. ASSUME NEW s \in Services, NEW fp \in Fingerprints, NEW owner \in Owners,
             NEW mode \in StartModes, NEW name \in Names \cup {NoName}, NEW force \in Forces,
             AddNew(s, fp, owner, mode, name, force)
      PROVE  NamesUnique' /\ NameReserved'
  <2>1. PICK i \in Ids : /\ i \notin used
                         /\ records' = Set(records, i,
                              [fingerprint |-> fp, owner |-> owner, start_mode |-> mode,
                               name |-> name, user_disconnected |-> "no"])
    BY <1>1 DEF AddNew
  <2>2. name = NoName \/ find_by_name(name, owner) = {}
    BY <1>1, ValuesAssumption DEF AddNew
  <2>3. \A t \in Services : accPc'[t] # "addwait"
    BY <1>0, <1>1, ServicesAssumption DEF AddNew, IndexFree, LockOwnership, accVars
  <2>4. /\ records'[i].name = name /\ records'[i].owner = owner
        /\ \A j \in Ids \ {i} : records'[j] = records[j]
    BY <2>1, <1>0 DEF Typed, TypeOK
  <2>5. NamesUnique'
    BY <2>2, <2>4 DEF NamesUnique, find_by_name, Stored
  <2>6. QED
    BY <2>3, <2>5 DEF NameReserved
<1>2. ASSUME NEW s \in Services, NEW fp \in Fingerprints, NEW owner \in Owners,
             NEW mode \in StartModes, NEW name \in Names \cup {NoName}, NEW force \in Forces,
             AddExisting(s, fp, owner, mode, name, force)
      PROVE  NamesUnique' /\ NameReserved'
  <2>1. PICK i \in find_by_identity(fp, owner) :
          /\ name # NoName /\ name # records[i].name => find_by_name(name, owner) \subseteq {i}
          /\ accPc' = Set(accPc, s, "addwait") /\ accId' = Set(accId, s, i)
          /\ accRec' = Set(accRec, s, Resubmitted(records[i], mode, name))
    BY <1>2, ValuesAssumption DEF AddExisting
  <2>2. i \in Ids /\ Stored(i) /\ records[i] \in Record /\ records[i].owner = owner
    BY <2>1, <1>a DEF find_by_identity
  <2>3. /\ UNCHANGED records
        /\ \A t \in Services \ {s} : accPc'[t] # "addwait"
        /\ accId'[s] = i /\ accRec'[s] = Resubmitted(records[i], mode, name)
    BY <1>0, <1>2, <2>1, ServicesAssumption
       DEF AddExisting, IndexFree, LockOwnership, storeVars, Typed, TypeOK
  <2>4. /\ accRec'[s].owner = owner
        /\ accRec'[s].name = IF name = NoName THEN records[i].name ELSE name
    BY <2>2, <2>3, ResubmittedRecord, NamesOfRecords
  <2>5. ASSUME NEW j \in Ids \ {i}, Stored(j), records[j].owner = owner,
               records[j].name = accRec'[s].name
        PROVE  accRec'[s].name = NoName
    <3>1. CASE accRec'[s].name = records[i].name
      BY <2>2, <2>5, <3>1 DEF NamesUnique
    <3>2. CASE name # NoName /\ name # records[i].name
      BY <2>1, <2>4, <2>5, <3>2 DEF find_by_name
    <3>3. QED
      BY <2>4, <3>1, <3>2
  <2>6. NameReserved'
    BY <2>3, <2>4, <2>5 DEF NameReserved, Stored
  <2>7. QED
    BY <2>3, <2>6 DEF NamesUnique, Stored
<1>3. ASSUME NEW s \in Services, AddUpdate(s) PROVE NamesUnique' /\ NameReserved'
  <2>1. /\ accPc[s] = "addwait" /\ accId[s] \in Ids /\ accRec[s].owner = records[accId[s]].owner
        /\ records'[accId[s]] = accRec[s]
        /\ \A j \in Ids \ {accId[s]} : records'[j] = records[j]
    BY <1>0, <1>3 DEF AddUpdate, Typed, TypeOK, Assigned, StoreStable
  <2>2. \A t \in Services : accPc'[t] # "addwait"
    BY <1>0, <1>3, <2>1 DEF AddUpdate, AccDone, LockOwnership, Typed, TypeOK
  <2>3. NamesUnique'
    <3> SUFFICES ASSUME NEW i \in Ids, NEW j \in Ids, Stored(i)', Stored(j)', i # j,
                        records'[i].name # NoName, records'[i].name = records'[j].name,
                        records'[i].owner = records'[j].owner
                 PROVE  FALSE
      BY DEF NamesUnique
    <3>1. CASE i = accId[s]
      BY <2>1, <3>1 DEF NameReserved, Stored
    <3>2. CASE j = accId[s]
      BY <2>1, <3>2 DEF NameReserved, Stored
    <3>3. CASE i # accId[s] /\ j # accId[s]
      BY <2>1, <3>3 DEF NamesUnique, Stored
    <3>4. QED
      BY <3>1, <3>2, <3>3
  <2>4. QED
    BY <2>2, <2>3 DEF NameReserved
<1>4. ASSUME NEW s \in Services, RemoveCommit(s) PROVE NamesUnique' /\ NameReserved'
  BY <1>0, <1>4, NameFrame DEF RemoveCommit, AccDone, Typed, TypeOK, Assigned, Stored
<1>5. ASSUME NEW s \in Services, NEW i \in Ids, NEW mode \in StartModes, SetConnectionMode(s, i, mode)
      PROVE  NamesUnique' /\ NameReserved'
  <2>1. /\ WithMode(records[i], mode).name = records[i].name
        /\ WithMode(records[i], mode).owner = records[i].owner
    BY <1>5, <1>a, NamesOfRecords, WithModeRecord DEF SetConnectionMode
  <2>2. QED
    BY <1>0, <1>5, <2>1, NameFrame DEF SetConnectionMode, Typed, TypeOK, Stored, accVars
<1>6. ASSUME NEW p \in Procs, ConnectIntent(p) \/ DisconnectIntent(p)
      PROVE  NamesUnique' /\ NameReserved'
  <2>1. \A value \in {"yes", "no"} : Stored(cid[p]) /\ cid[p] \in Ids =>
          /\ WithFlag(records[cid[p]], value).name = records[cid[p]].name
          /\ WithFlag(records[cid[p]], value).owner = records[cid[p]].owner
    BY <1>a, NamesOfRecords, WithFlagRecord
  <2>2. cid[p] \in Ids
    BY <1>0, <1>6 DEF ConnectIntent, DisconnectIntent, Typed, Assigned
  <2>3. \/ UNCHANGED records
        \/ /\ Stored(cid[p])
           /\ \E value \in {"yes", "no"} : records' = Set(records, cid[p], WithFlag(records[cid[p]], value))
    BY <1>6 DEF ConnectIntent, DisconnectIntent
  <2>4. UNCHANGED accVars
    BY <1>6 DEF ConnectIntent, DisconnectIntent
  <2>5. QED
    BY <1>0, <2>1, <2>2, <2>3, <2>4, NameFrame DEF Typed, TypeOK, Stored, accVars
<1>7. ASSUME NEW s \in Services, Terminate(s) \/ ServiceStart(s) \/ AccBusy(s) \/ RemoveLock(s)
      PROVE  NamesUnique' /\ NameReserved'
  BY <1>0, <1>7, NameFrame
     DEF Terminate, ServiceStart, AccBusy, AccDone, RemoveLock, storeVars, accVars, Stored, Typed, TypeOK
<1>8. ASSUME NEW s \in Services, NEW i \in Ids, RemoveConnection(s, i)
      PROVE  NamesUnique' /\ NameReserved'
  BY <1>0, <1>8, NameFrame DEF RemoveConnection, storeVars, Stored, Typed, TypeOK
<1>9. ASSUME NEW s \in Services, NEW i \in Ids, NEW w \in Workers,
             ConnectConnection(s, w, i) \/ DisconnectConnection(s, w, i)
      PROVE  NamesUnique' /\ NameReserved'
  BY <1>9, NameFrame DEF ConnectConnection, DisconnectConnection, Spawn, storeVars, accVars, Stored
<1>10. ASSUME NEW w \in Workers, ClientHangup(w) \/ Reply(w)
       PROVE  NamesUnique' /\ NameReserved'
  BY <1>10, NameFrame DEF ClientHangup, Reply, storeVars, accVars, Stored
<1>11. ASSUME NEW p \in Procs,
              \/ ProcLock(p) \/ ConnectCheck(p) \/ NetLock(p) \/ NetTimeout(p) \/ RunUp(p)
              \/ UpReturn(p) \/ PostUp(p) \/ SaveActive(p) \/ RunDown(p) \/ DownWait(p)
              \/ ClearActive(p)
       PROVE  NamesUnique' /\ NameReserved'
  <2>1. UNCHANGED <<storeVars, accVars>>
    BY <1>11 DEF ProcLock, ConnectCheck, NetLock, NetTimeout, RunUp, UpReturn, PostUp, SaveActive,
                 RunDown, DownWait, ClearActive
  <2>2. QED
    BY <2>1, NameFrame DEF storeVars, accVars, Stored
<1>12. ASSUME \/ Reboot \/ BootList \/ BootNext \/ BootEnd \/ UNCHANGED vars
              \/ \E i \in Ids : \/ HelperReady(i) \/ HelperFail(i) \/ HelperStopped(i)
                              \/ HelperSignal(i) \/ HelperCrash(i) \/ HelperStartCrash(i)
       PROVE  NamesUnique' /\ NameReserved'
  <2>1. UNCHANGED records /\ \A s \in Services : accPc'[s] = "addwait" =>
           accPc[s] = "addwait" /\ accId'[s] = accId[s] /\ accRec'[s] = accRec[s]
    BY <1>12 DEF Reboot, BootList, BootNext, BootEnd, HelperReady, HelperFail, HelperStopped,
                 HelperSignal, HelperCrash, HelperStartCrash, helperFrame, storeVars, accVars, vars
  <2>2. QED
    BY <2>1, NameFrame DEF Stored
<1>13. QED
  BY <1>1, <1>2, <1>3, <1>4, <1>5, <1>6, <1>7, <1>8, <1>9, <1>10, <1>11, <1>12,
     ServicesAssumption DEF Next, AddConnection, AccStep, ProcStep, HelperStep, StdioExit, ServiceKill, IdleExit

\* Where no client forces an add, a name belongs to one connection of an owner, however
\* many services add, rename and remove at the same time.
THEOREM NamesStayUnique == TRUE \notin Forces /\ Spec => []NamesUnique
<1> SUFFICES ASSUME TRUE \notin Forces PROVE Spec => []NamesUnique
  OBVIOUS
<1>1. Init => NamesUnique /\ NameReserved
  BY DEF Init, NamesUnique, NameReserved, Stored
<1>2. IInv /\ NamesUnique /\ NameReserved /\ [Next]_vars => (NamesUnique /\ NameReserved)'
  BY StepNames
<1>3. QED
  BY <1>1, <1>2, Induction, PTL DEF Spec

=============================================================================
