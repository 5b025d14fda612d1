------------------------- MODULE DnsReconcileProofs -------------------------
(***************************************************************************)
(* DNS ownership proved for any set of services, any settings and any      *)
(* number of helpers, changes and failed commands.                         *)
(***************************************************************************)
EXTENDS DnsReconcile, TLAPS

\* What the proofs need of the constants.
LEMMA Settings ==
  /\ Blank \in Confs /\ Blank.dns # Tunnel
  /\ Carried \in Confs
  /\ NoSave \notin Confs
  /\ \A h \in HostConfigs : h \in Confs /\ h.dns # Tunnel
  /\ \A c, d \in Confs : [c EXCEPT !.dns = d.dns] \in Confs
BY DnsAssumption DEF Confs, Blank, Carried

\* Every reading is a fingerprint.
LEMMA Readings ==
  ASSUME TypeOK, NEW p \in {primary, NoService}, NEW r \in SUBSET Services
  PROVE  Fingerprint(p, r) \in FingerprintType
<1> DEFINE obs == [s \in Services |-> IF s \in present \cap r THEN conf[s].dns ELSE Unset]
<1>1. obs \in [Services -> Resolvers \cup {Tunnel}]
  BY DnsAssumption DEF TypeOK, Confs
<1>2. present \in SUBSET Services /\ p \in Services \cup {NoService}
  BY DEF TypeOK
<1>3. Fingerprint(p, r) = [primary |-> p, services |-> present, observed |-> obs]
  BY DEF Fingerprint
<1> HIDE DEF obs
<1> QED BY <1>1, <1>2, <1>3 DEF FingerprintType

\* What a write leaves of a service's settings.
LEMMA Writes ==
  ASSUME TypeOK, NEW s \in Services, NEW c \in Confs, Written(s, c) \/ HalfWritten(s, c)
  PROVE  conf' \in [Services -> Confs] /\ faults' \in Nat
BY Settings DEF TypeOK, Written, HalfWritten, Fails, Fault, NoFault, Set

\* A helper starts: it owns nothing yet.
LEMMA StartInv ==
  ASSUME DnsInv, Start
  PROVE  DnsInv'
<1>1. TypeOK'
  <2>1. PICK fp \in {Fingerprint(p, r) : p \in {primary, NoService}, r \in SUBSET Services} :
          /\ macos_current_dns_fingerprint(fp)
          /\ snap' = fp
          /\ cap' = dns_target_services(fp)
    BY DEF Start
  <2>2. fp \in FingerprintType
    BY Readings DEF DnsInv
  <2>3. cap' \subseteq Services
    BY <2>1, <2>2 DEF dns_target_services, FingerprintType
  <2>4. faults' \in Nat
    BY <2>1 DEF DnsInv, TypeOK, macos_current_dns_fingerprint, Fault, NoFault
  <2> QED BY <2>1, <2>2, <2>3, <2>4 DEF DnsInv, Start, TypeOK, Places, hostVars, histVars
<1>2. TunnelDnsOwned'
  BY DEF DnsInv, Start, hostVars, histVars, Owned, TunnelDnsOwned
<1>3. OriginalsKept'
  BY DEF DnsInv, Start, hostVars, histVars, Owned, OriginalsKept
<1>4. PlanShape'
  BY DEF DnsInv, Start, Owned, PlanShape
<1>5. TeardownShape'
  BY DEF DnsInv, Start, TeardownShape
<1> QED BY <1>1, <1>2, <1>3, <1>4, <1>5 DEF DnsInv

\* Setup backs a service up, or rolls back.
LEMMA SetupCaptureInv ==
  ASSUME DnsInv, NEW s \in Services, SetupCapture(s)
  PROVE  DnsInv'
<1>1. TypeOK'
  BY Settings DEF DnsInv, SetupCapture, Take, Original, Rollback, Set, hostVars,
     histVars, Fails, Fault, NoFault, TypeOK, Owned, Places
<1>2. TunnelDnsOwned'
  BY Settings DEF DnsInv, SetupCapture, Take, Original, Set, hostVars, histVars, TypeOK,
     Owned, TunnelDnsOwned
<1>3. OriginalsKept'
  BY Settings DEF DnsInv, SetupCapture, Take, Original, Set, hostVars, histVars, TypeOK,
     Owned, OriginalsKept, PlanShape
<1>4. PlanShape'
  BY Settings DEF DnsInv, SetupCapture, Take, Original, Rollback, Set, TypeOK, Owned,
     PlanShape
<1>5. TeardownShape'
  BY DEF DnsInv, SetupCapture, Rollback, Owned, TeardownShape
<1> QED BY <1>1, <1>2, <1>3, <1>4, <1>5 DEF DnsInv

\* Setup writes a service it has backed up.
LEMMA SetupApplyInv ==
  ASSUME DnsInv, NEW s \in Services, SetupApply(s)
  PROVE  DnsInv'
<1>1. TypeOK'
  <2>1. conf' \in [Services -> Confs] /\ faults' \in Nat
    BY Settings, Writes DEF DnsInv, SetupApply
  <2> QED BY <2>1 DEF DnsInv, SetupApply, TypeOK, Places, Rollback, Owned, histVars
<1>2. TunnelDnsOwned'
  BY DEF DnsInv, SetupApply, Written, HalfWritten, Set, histVars, TypeOK, Owned,
     TunnelDnsOwned, PlanShape
<1>3. OriginalsKept'
  BY DEF DnsInv, SetupApply, Written, HalfWritten, Set, histVars, TypeOK, Owned,
     OriginalsKept, PlanShape
<1>4. PlanShape'
  BY DEF DnsInv, SetupApply, Rollback, Owned, PlanShape
<1>5. TeardownShape'
  BY DEF DnsInv, SetupApply, Rollback, Owned, TeardownShape
<1> QED BY <1>1, <1>2, <1>3, <1>4, <1>5 DEF DnsInv

\* Setup takes the first fingerprint.
LEMMA SetupDoneInv ==
  ASSUME DnsInv, SetupDone
  PROVE  DnsInv'
<1>1. TypeOK'
  <2>1. Fingerprints \subseteq FingerprintType
    BY Readings DEF DnsInv, Fingerprints, TypeOK
  <2>2. stored' \in FingerprintType
    BY <2>1 DEF DnsInv, SetupDone, TypeOK
  <2>3. faults' \in Nat
    BY DEF DnsInv, SetupDone, Resnapshot, macos_current_dns_fingerprint, Fault, NoFault, TypeOK
  <2> QED BY <2>2, <2>3 DEF DnsInv, SetupDone, TypeOK, Places, hostVars, planVars, histVars
<1>2. TunnelDnsOwned'
  BY DEF DnsInv, SetupDone, hostVars, histVars, Owned, TunnelDnsOwned
<1>3. OriginalsKept'
  BY DEF DnsInv, SetupDone, hostVars, histVars, Owned, OriginalsKept
<1>4. PlanShape'
  BY DEF DnsInv, SetupDone, planVars, PlanShape
<1>5. TeardownShape'
  BY DEF DnsInv, SetupDone, TeardownShape
<1> QED BY <1>1, <1>2, <1>3, <1>4, <1>5 DEF DnsInv

\* A tick plans; what it drops is accounted for.
LEMMA TickInv ==
  ASSUME DnsInv, Tick
  PROVE  DnsInv'
<1>1. TypeOK'
  <2>1. Fingerprints \subseteq FingerprintType
    BY Readings DEF DnsInv, Fingerprints, TypeOK
  <2>2. snap' \in FingerprintType
    BY <2>1 DEF Tick
  <2>3. cap' \subseteq Services /\ app' \subseteq Services /\ res' \subseteq Services
    BY <2>1 DEF Tick, plan_dns_actions, dns_target_services, FingerprintType, Owned
  <2>4. saved' \in [Services -> Confs \cup {NoSave}]
    BY DEF DnsInv, Tick, TypeOK
  <2>5. lost' \subseteq Services /\ stray' \subseteq Services
    BY DEF DnsInv, Tick, plan_dns_actions, TypeOK, Owned
  <2>6. faults' \in Nat
    BY DEF DnsInv, Tick, macos_current_dns_fingerprint, Fault, NoFault, TypeOK
  <2> QED BY <2>2, <2>3, <2>4, <2>5, <2>6 DEF DnsInv, Tick, TypeOK, Places, hostVars
<1>2. TunnelDnsOwned'
  BY DEF DnsInv, Tick, plan_dns_actions, hostVars, Owned, TunnelDnsOwned
<1>3. OriginalsKept'
  BY DEF DnsInv, Tick, plan_dns_actions, hostVars, Owned, OriginalsKept
<1>4. PlanShape'
  BY DEF DnsInv, Tick, plan_dns_actions, Owned, PlanShape
<1>5. TeardownShape'
  BY DEF DnsInv, Tick, TeardownShape
<1> QED BY <1>1, <1>2, <1>3, <1>4, <1>5 DEF DnsInv

\* A tick backs a service up or leaves it alone.
LEMMA TickCaptureInv ==
  ASSUME DnsInv, NEW s \in Services, TickCapture(s)
  PROVE  DnsInv'
<1>1. TypeOK'
  BY Settings DEF DnsInv, TickCapture, Take, Original, Set, hostVars, histVars, Fails,
     Fault, NoFault, TypeOK
<1>2. TunnelDnsOwned'
  BY Settings DEF DnsInv, TickCapture, Take, Original, Set, hostVars, histVars, TypeOK,
     Owned, TunnelDnsOwned
<1>3. OriginalsKept'
  BY Settings DEF DnsInv, TickCapture, Take, Original, Set, hostVars, histVars, TypeOK,
     Owned, OriginalsKept, PlanShape
<1>4. PlanShape'
  BY Settings DEF DnsInv, TickCapture, Take, Original, Set, TypeOK, Owned, PlanShape
<1>5. TeardownShape'
  BY DEF DnsInv, TickCapture, TeardownShape
<1> QED BY <1>1, <1>2, <1>3, <1>4, <1>5 DEF DnsInv

\* A tick gives a service back or keeps its original.
LEMMA TickRestoreInv ==
  ASSUME DnsInv, NEW s \in Services, TickRestore(s)
  PROVE  DnsInv'
<1>1. TypeOK'
  <2>1. saved[s] \in Confs
    BY DEF DnsInv, TickRestore, TypeOK, PlanShape, Owned
  <2>2. conf' \in [Services -> Confs] /\ faults' \in Nat
    BY <2>1, Writes DEF DnsInv, TickRestore
  <2> QED BY <2>2 DEF DnsInv, TickRestore, TypeOK, Places, Set, histVars
<1>2. TunnelDnsOwned'
  BY DEF DnsInv, TickRestore, Written, HalfWritten, Set, histVars, TypeOK, Owned,
     TunnelDnsOwned, PlanShape
<1>3. OriginalsKept'
  BY DEF DnsInv, TickRestore, Written, HalfWritten, Set, histVars, TypeOK, Owned,
     OriginalsKept, PlanShape
<1>4. PlanShape'
  BY DEF DnsInv, TickRestore, Set, TypeOK, Owned, PlanShape
<1>5. TeardownShape'
  BY DEF DnsInv, TickRestore, TeardownShape
<1> QED BY <1>1, <1>2, <1>3, <1>4, <1>5 DEF DnsInv

\* A tick writes an owned service.
LEMMA TickApplyInv ==
  ASSUME DnsInv, NEW s \in Services, TickApply(s)
  PROVE  DnsInv'
<1>1. TypeOK'
  <2>1. conf' \in [Services -> Confs] /\ faults' \in Nat
    BY Settings, Writes DEF DnsInv, TickApply
  <2> QED BY <2>1 DEF DnsInv, TickApply, TypeOK, Places, Rollback, Owned, histVars
<1>2. TunnelDnsOwned'
  BY DEF DnsInv, TickApply, Written, HalfWritten, Set, histVars, TypeOK, Owned,
     TunnelDnsOwned, PlanShape
<1>3. OriginalsKept'
  BY DEF DnsInv, TickApply, Written, HalfWritten, Set, histVars, TypeOK, Owned,
     OriginalsKept, PlanShape
<1>4. PlanShape'
  BY DEF DnsInv, TickApply, Owned, PlanShape
<1>5. TeardownShape'
  BY DEF DnsInv, TickApply, TeardownShape
<1> QED BY <1>1, <1>2, <1>3, <1>4, <1>5 DEF DnsInv

\* A tick ends.
LEMMA TickDoneInv ==
  ASSUME DnsInv, TickDone
  PROVE  DnsInv'
<1>1. TypeOK'
  <2>1. Fingerprints \subseteq FingerprintType
    BY Readings DEF DnsInv, Fingerprints, TypeOK
  <2>2. stored' \in FingerprintType
    BY <2>1 DEF DnsInv, TickDone, TypeOK
  <2>3. faults' \in Nat
    BY DEF DnsInv, TickDone, Resnapshot, macos_current_dns_fingerprint, Fault, NoFault, TypeOK
  <2> QED BY <2>2, <2>3 DEF DnsInv, TickDone, TypeOK, Places, hostVars, planVars, histVars
<1>2. TunnelDnsOwned'
  BY DEF DnsInv, TickDone, hostVars, histVars, Owned, TunnelDnsOwned
<1>3. OriginalsKept'
  BY DEF DnsInv, TickDone, hostVars, histVars, Owned, OriginalsKept
<1>4. PlanShape'
  BY DEF DnsInv, TickDone, planVars, PlanShape
<1>5. TeardownShape'
  BY DEF DnsInv, TickDone, TeardownShape
<1> QED BY <1>1, <1>2, <1>3, <1>4, <1>5 DEF DnsInv

\* Teardown begins with every owned service.
LEMMA ShutdownInv ==
  ASSUME DnsInv, Shutdown
  PROVE  DnsInv'
<1>1. TypeOK'
  BY DEF DnsInv, Shutdown, hostVars, histVars, TypeOK, Owned, Places
<1>2. TunnelDnsOwned'
  BY DEF DnsInv, Shutdown, hostVars, histVars, Owned, TunnelDnsOwned
<1>3. OriginalsKept'
  BY DEF DnsInv, Shutdown, hostVars, histVars, Owned, OriginalsKept
<1>4. PlanShape'
  BY DEF DnsInv, Shutdown, Owned, PlanShape
<1>5. TeardownShape'
  BY DEF DnsInv, Shutdown, Owned, TeardownShape
<1> QED BY <1>1, <1>2, <1>3, <1>4, <1>5 DEF DnsInv

\* Teardown restores a service or records the failure.
LEMMA ReleaseInv ==
  ASSUME DnsInv, NEW s \in Services, Release(s)
  PROVE  DnsInv'
<1>1. TypeOK'
  <2>1. saved[s] \in Confs
    BY DEF DnsInv, Release, TypeOK, PlanShape, Owned
  <2>2. conf' \in [Services -> Confs] /\ faults' \in Nat
    BY <2>1, Writes DEF DnsInv, Release
  <2> QED BY <2>2 DEF DnsInv, Release, TypeOK, Places, Set, histVars
<1>2. TunnelDnsOwned'
  BY DEF DnsInv, Release, Written, HalfWritten, Set, histVars, TypeOK, Owned,
     TunnelDnsOwned, PlanShape
<1>3. OriginalsKept'
  BY DEF DnsInv, Release, Written, HalfWritten, Set, histVars, TypeOK, Owned,
     OriginalsKept, PlanShape
<1>4. PlanShape'
  BY DEF DnsInv, Release, Owned, PlanShape
<1>5. TeardownShape'
  BY DEF DnsInv, Release, Written, HalfWritten, Set, histVars, TypeOK, Owned,
     TunnelDnsOwned, TeardownShape
<1> QED BY <1>1, <1>2, <1>3, <1>4, <1>5 DEF DnsInv

\* The helper leaves after teardown.
LEMMA ReleasedInv ==
  ASSUME DnsInv, Released
  PROVE  DnsInv'
<1>1. TypeOK'
  <2>1. Fingerprint(NoService, {}) \in FingerprintType
    BY Readings DEF DnsInv
  <2> QED BY <2>1 DEF DnsInv, Released, Exit, NoFault, TypeOK, Places, Owned, hostVars
<1>2. TunnelDnsOwned'
  BY DEF DnsInv, Released, Exit, hostVars, Owned, TunnelDnsOwned, TeardownShape
<1>3. OriginalsKept'
  BY DEF DnsInv, Released, Exit, hostVars, Owned, OriginalsKept, TeardownShape
<1>4. PlanShape'
  BY DEF DnsInv, Released, Exit, Owned, PlanShape
<1>5. TeardownShape'
  BY DEF DnsInv, Released, Exit, TeardownShape
<1> QED BY <1>1, <1>2, <1>3, <1>4, <1>5 DEF DnsInv

\* The helper dies where it is.
LEMMA CrashInv ==
  ASSUME DnsInv, Crash
  PROVE  DnsInv'
<1>1. TypeOK'
  <2>1. Fingerprint(NoService, {}) \in FingerprintType
    BY Readings DEF DnsInv
  <2>2. faults' \in Nat
    BY DEF DnsInv, Crash, Fault, TypeOK
  <2>3. lost' \subseteq Services /\ stray' \subseteq Services
    BY DEF DnsInv, Crash, Exit, Owned, TypeOK
  <2> QED BY <2>1, <2>2, <2>3 DEF DnsInv, Crash, Exit, TypeOK, Places, hostVars
<1>2. TunnelDnsOwned'
  BY DEF DnsInv, Crash, Exit, hostVars, Owned, TunnelDnsOwned
<1>3. OriginalsKept'
  BY DEF DnsInv, Crash, Exit, hostVars, Owned, OriginalsKept
<1>4. PlanShape'
  BY DEF DnsInv, Crash, Exit, Owned, PlanShape
<1>5. TeardownShape'
  BY DEF DnsInv, Crash, Exit, TeardownShape
<1> QED BY <1>1, <1>2, <1>3, <1>4, <1>5 DEF DnsInv

\* The host changes the settings of a service.
LEMMA HostSetInv ==
  ASSUME DnsInv, NEW s \in Services, NEW h \in HostConfigs, HostSet(s, h)
  PROVE  DnsInv'
<1>1. TypeOK'
  BY Settings DEF DnsInv, HostSet, HelperStays, Set, planVars, Change, NoFault, TypeOK
<1>2. TunnelDnsOwned'
  BY Settings DEF DnsInv, HostSet, HelperStays, Set, TypeOK, Owned, TunnelDnsOwned
<1>3. OriginalsKept'
  BY DEF DnsInv, HostSet, HelperStays, Set, TypeOK, Owned, OriginalsKept
<1>4. PlanShape'
  BY DEF DnsInv, HostSet, HelperStays, planVars, Owned, PlanShape
<1>5. TeardownShape'
  BY Settings DEF DnsInv, HostSet, HelperStays, Set, planVars, Owned, TeardownShape
<1> QED BY <1>1, <1>2, <1>3, <1>4, <1>5 DEF DnsInv

\* Services come and go.
LEMMA HostServicesInv ==
  ASSUME DnsInv, NEW here \in SUBSET Services,
         NEW prime \in Services \cup {NoService}, HostServices(here, prime)
  PROVE  DnsInv'
<1>1. TypeOK'
  BY DEF DnsInv, HostServices, HelperStays, histVars, planVars, Change, NoFault, TypeOK
<1>2. TunnelDnsOwned'
  BY DEF DnsInv, HostServices, HelperStays, histVars, Owned, TunnelDnsOwned
<1>3. OriginalsKept'
  BY DEF DnsInv, HostServices, HelperStays, histVars, Owned, OriginalsKept
<1>4. PlanShape'
  BY DEF DnsInv, HostServices, HelperStays, planVars, Owned, PlanShape
<1>5. TeardownShape'
  BY DEF DnsInv, HostServices, HelperStays, histVars, planVars, Owned, TeardownShape
<1> QED BY <1>1, <1>2, <1>3, <1>4, <1>5 DEF DnsInv

\* A colliding LAN comes and goes.
LEMMA HostLanInv ==
  ASSUME DnsInv, HostLan
  PROVE  DnsInv'
<1>1. TypeOK'
  BY DEF DnsInv, HostLan, HelperStays, histVars, planVars, Change, NoFault, TypeOK
<1>2. TunnelDnsOwned'
  BY DEF DnsInv, HostLan, HelperStays, histVars, Owned, TunnelDnsOwned
<1>3. OriginalsKept'
  BY DEF DnsInv, HostLan, HelperStays, histVars, Owned, OriginalsKept
<1>4. PlanShape'
  BY DEF DnsInv, HostLan, HelperStays, planVars, Owned, PlanShape
<1>5. TeardownShape'
  BY DEF DnsInv, HostLan, HelperStays, histVars, planVars, Owned, TeardownShape
<1> QED BY <1>1, <1>2, <1>3, <1>4, <1>5 DEF DnsInv

\* Nothing is owned, planned or lost before the first helper.
LEMMA InitInv == Init => DnsInv
<1> SUFFICES ASSUME Init PROVE DnsInv
  OBVIOUS
<1>1. stored \in FingerprintType
  BY DnsAssumption DEF Init, FingerprintType
<1>2. conf \in [Services -> Confs] /\ orig = conf
  BY Settings DEF Init
<1>3. TypeOK
  BY <1>1, <1>2 DEF Init, TypeOK, Places
<1>4. TunnelDnsOwned /\ OriginalsKept
  BY Settings DEF Init, TunnelDnsOwned, OriginalsKept, Owned
<1>5. PlanShape /\ TeardownShape
  BY DEF Init, PlanShape, TeardownShape, Owned
<1> QED BY <1>3, <1>4, <1>5 DEF DnsInv

\* Every step keeps the inductive invariant.
LEMMA StepInv == DnsInv /\ [Next]_vars => DnsInv'
<1> SUFFICES ASSUME DnsInv, [Next]_vars PROVE DnsInv'
  OBVIOUS
<1>1. CASE HelperStep
  BY <1>1, TickInv, TickDoneInv, SetupDoneInv, ReleasedInv, SetupCaptureInv, SetupApplyInv,
     TickCaptureInv, TickRestoreInv, TickApplyInv, ReleaseInv DEF HelperStep
<1>2. CASE HostStep
  BY <1>2, HostSetInv, HostServicesInv, HostLanInv DEF HostStep
<1>3. CASE Start \/ Shutdown \/ Crash
  BY <1>3, StartInv, ShutdownInv, CrashInv
<1>4. CASE UNCHANGED vars
  <2>1. TypeOK'
    BY <1>4 DEF DnsInv, TypeOK, vars, hostVars, planVars, histVars
  <2>2. TunnelDnsOwned' /\ OriginalsKept' /\ PlanShape' /\ TeardownShape'
    BY <1>4 DEF DnsInv, TunnelDnsOwned, OriginalsKept, PlanShape, TeardownShape, Owned,
                vars, hostVars, planVars, histVars
  <2> QED BY <2>1, <2>2 DEF DnsInv
<1> QED BY <1>1, <1>2, <1>3, <1>4 DEF Next

\* The inductive invariant of DNS ownership holds in every reachable state.
THEOREM DnsInduction == Spec => []DnsInv
BY InitInv, StepInv, PTL DEF Spec

\* The tunnel's DNS never outlives its owner unaccounted for.
THEOREM TunnelDnsAccounted == Spec => []TunnelDnsOwned
BY DnsInduction, PTL DEF DnsInv

\* What a service has or will get back is what the host gave it.
THEOREM OriginalsPreserved == Spec => []OriginalsKept
BY DnsInduction, PTL DEF DnsInv

\* A helper reports "ok" only when every owned service has its original back.
THEOREM OkIsTrue == Spec => OkMeansRestored
<1>1. DnsInv /\ [Next]_vars =>
        [pc = "teardown" /\ pc' = "off" /\ status' = "ok"
           => \A s \in Owned \ lost : conf[s] = orig[s]]_vars
  <2> SUFFICES ASSUME DnsInv, Next, pc = "teardown", pc' = "off", status' = "ok",
                      NEW s \in Owned \ lost
               PROVE  conf[s] = orig[s]
    OBVIOUS
  <2>1. Released \/ Crash
    BY DEF Next, HelperStep, HostStep, Start, Shutdown, Tick, TickDone, SetupDone, SetupCapture,
           SetupApply, TickCapture, TickRestore, TickApply, Release, HostSet, HostServices,
           HostLan, HelperStays
  <2>2. Released
    BY <2>1 DEF Crash
  <2>3. res = {} /\ errors = {}
    BY <2>2 DEF Released
  <2> QED BY <2>3 DEF DnsInv, TeardownShape, OriginalsKept, Owned
<1> QED BY <1>1, DnsInduction, PTL DEF Spec, OkMeansRestored
=============================================================================
