------------------------ MODULE RouteReconcileProofs ------------------------
(***************************************************************************)
(* The tunnel's routes proved for any prefixes, any LANs that do not nest, *)
(* any gateways and any number of network changes and failed commands.     *)
(***************************************************************************)
EXTENDS RouteReconcile, TLAPS

\* Every reading of the network is a fingerprint.
LEMMA ReadingType ==
  ASSUME TypeOK, NEW g \in AnyGateway, NEW fp \in Readings(g)
  PROVE  fp \in FingerprintType
BY DEF TypeOK, Readings, FingerprintType, AnyGateway

\* A LAN whose own prefix is among AllowedIPs is the only one that excludes it.
LEMMA OwnLan ==
  ASSUME NEW fp \in FingerprintType, NEW d \in Dests \cap Lans, d \notin Desired(fp)
  PROVE  d \in fp.lans
<1>1. PICK l \in fp.lans : d \in Covers[l]
  BY DEF Desired
<1>2. l \in Lans
  BY DEF FingerprintType
<1>3. d \in Covers[d]
  BY RouteAssumption
<1> QED BY <1>1, <1>2, <1>3, RouteAssumption

\* A route is deleted and the LAN it shadowed repaired.
LEMMA DeleteInv ==
  ASSUME RouteInv, NEW d \in Dests, Delete(d)
  PROVE  RouteInv'
<1>1. TypeOK'
  <2>1. delPin' \in BOOLEAN /\ errors' \in BOOLEAN
    BY DEF RouteInv, Delete, TypeOK
  <2> QED
    BY <2>1, RouteAssumption DEF RouteInv, Delete, Restored, Set, hostVars, Fault,
       NoFault, TypeOK, Places, AnyGateway, Prefixes
<1>2. RoutesTracked'
  BY DEF RouteInv, Delete, Restored, Set, TypeOK, RoutesTracked, Prefixes
<1>3. LanKept'
  <2> SUFFICES ASSUME NEW l \in attached, l \notin cut', table'[l] = "none"
               PROVE  ready = l
    BY DEF Delete, LanKept, hostVars
  <2>1. l \in Prefixes /\ l \in Lans /\ l \notin cut
    BY DEF Delete, RouteInv, TypeOK, Prefixes
  <2>2. table[l] = "none" => ready = l
    BY <2>1 DEF RouteInv, LanKept
  <2>3. CASE l # d
    BY <2>1, <2>2, <2>3 DEF Delete, Restored, Set, RouteInv, TypeOK
  <2>4. CASE l = d
    <3>1. d \in snap.lans \cup cut'
      BY <2>1, <2>4, OwnLan DEF Delete, RouteInv, TypeOK, PlanShape
    <3>2. d \in Covers[d]
      BY <2>1, <2>4, RouteAssumption
    <3>3. table' \notin Restored(Set(table, d, "none"), d)
      BY <2>1, <2>4, <3>1, <3>2 DEF Restored, Set, RouteInv, TypeOK
    <3>4. UNCHANGED table
      BY <2>4, <3>3 DEF Delete
    <3> QED BY <2>2, <3>4
  <2> QED BY <2>3, <2>4
<1>4. PlanShape'
  BY DEF RouteInv, Delete, Restored, Set, TypeOK, PlanShape
<1> QED BY <1>1, <1>2, <1>3, <1>4 DEF RouteInv

\* The pin is deleted.
LEMMA DeletePinInv ==
  ASSUME RouteInv, DeletePin
  PROVE  RouteInv'
<1>1. TypeOK'
  <2>1. delPin' \in BOOLEAN /\ errors' \in BOOLEAN
    BY DEF RouteInv, DeletePin, TypeOK
  <2> QED
    BY <2>1, RouteAssumption DEF RouteInv, DeletePin, hostVars, Fault, NoFault, TypeOK,
       Places, AnyGateway, Prefixes
<1>2. RoutesTracked'
  BY DEF RouteInv, DeletePin, RoutesTracked
<1>3. LanKept'
  BY DEF RouteInv, DeletePin, hostVars, LanKept
<1>4. PlanShape'
  BY DEF RouteInv, DeletePin, PlanShape
<1> QED BY <1>1, <1>2, <1>3, <1>4 DEF RouteInv

\* The pin is added, or setup rolls back.
LEMMA AddPinInv ==
  ASSUME RouteInv, AddPin
  PROVE  RouteInv'
<1>1. TypeOK'
  <2>1. delPin' \in BOOLEAN /\ errors' \in BOOLEAN
    BY DEF RouteInv, AddPin, Rollback, TypeOK
  <2> QED
    BY <2>1, RouteAssumption DEF RouteInv, AddPin, Adding, Rollback, hostVars, Fault,
       NoFault, AnyGateway, TypeOK, Places, Prefixes
<1>2. RoutesTracked'
  BY DEF RouteInv, AddPin, Adding, Rollback, RoutesTracked
<1>3. LanKept'
  BY DEF RouteInv, AddPin, Rollback, hostVars, LanKept, PlanShape
<1>4. PlanShape'
  BY DEF RouteInv, AddPin, Rollback, PlanShape
<1> QED BY <1>1, <1>2, <1>3, <1>4 DEF RouteInv

\* A prefix is examined, and a stale entry cleared.
LEMMA ProbeInv ==
  ASSUME RouteInv, NEW d \in Dests, Probe(d)
  PROVE  RouteInv'
<1>1. TypeOK'
  BY DEF RouteInv, Probe, Set, hostVars, Fault, NoFault, TypeOK
<1>2. RoutesTracked'
  BY DEF RouteInv, Probe, Set, TypeOK, RoutesTracked, Prefixes
<1>3. LanKept'
  BY RouteAssumption DEF RouteInv, Probe, Set, hostVars, TypeOK, LanKept, Prefixes
<1>4. PlanShape'
  BY DEF RouteInv, Probe, Set, TypeOK, PlanShape
<1> QED BY <1>1, <1>2, <1>3, <1>4 DEF RouteInv

\* A route is added, or given up.
LEMMA InstallInv ==
  ASSUME RouteInv, NEW d \in Dests, Install(d)
  PROVE  RouteInv'
<1>1. TypeOK'
  <2>1. delPin' \in BOOLEAN /\ errors' \in BOOLEAN
    BY DEF RouteInv, Install, GiveUp, Rollback, TypeOK
  <2> QED
    BY <2>1, RouteAssumption DEF RouteInv, Install, Adding, Set, GiveUp, Rollback,
       hostVars, Fault, NoFault, TypeOK, Places, AnyGateway, Prefixes
<1>2. RoutesTracked'
  BY DEF RouteInv, Install, Adding, Set, GiveUp, Rollback, TypeOK, RoutesTracked,
     Prefixes
<1>3. LanKept'
  BY DEF RouteInv, Install, Set, hostVars, TypeOK, LanKept, Prefixes
<1>4. PlanShape'
  BY DEF RouteInv, Install, Set, GiveUp, Rollback, TypeOK, PlanShape
<1> QED BY <1>1, <1>2, <1>3, <1>4 DEF RouteInv

\* Setup reads the network and plans its routes.
LEMMA SetupInv ==
  ASSUME RouteInv, Setup
  PROVE  RouteInv'
<1>1. TypeOK'
  <2>1. PICK fp \in Readings(NoGateway) :
          /\ macos_current_fingerprint(fp, NoGateway)
          /\ snap' = fp /\ stored' = fp
          /\ IF NeedsPin /\ fp.gateway = NoGateway
             THEN pc' = "off" /\ status' = "error" /\ UNCHANGED <<add, addPin>>
             ELSE pc' = "setup" /\ add' = Desired(fp) /\ addPin' = fp.gateway /\ UNCHANGED status
    BY DEF Setup
  <2>2. fp \in FingerprintType
    BY ReadingType DEF RouteInv, AnyGateway
  <2>3. fp.gateway \in AnyGateway /\ Desired(fp) \subseteq Dests
    BY <2>2 DEF FingerprintType, Desired
  <2>4. faults' \in Nat
    BY <2>1 DEF RouteInv, TypeOK, macos_current_fingerprint, Fault, NoFault
  <2> QED BY <2>1, <2>2, <2>3, <2>4 DEF RouteInv, Setup, hostVars, TypeOK, Places
<1>2. RoutesTracked'
  BY DEF RouteInv, Setup, RoutesTracked
<1>3. LanKept'
  BY DEF RouteInv, Setup, hostVars, LanKept
<1>4. PlanShape'
  BY DEF RouteInv, Setup, PlanShape
<1> QED BY <1>1, <1>2, <1>3, <1>4 DEF RouteInv

\* Setup is complete, or DNS fails and it rolls back.
LEMMA SetupDoneInv ==
  ASSUME RouteInv, SetupDone
  PROVE  RouteInv'
<1>1. TypeOK'
  <2>1. delPin' \in BOOLEAN /\ errors' \in BOOLEAN
    BY DEF RouteInv, SetupDone, Rollback, planVars, TypeOK
  <2> QED
    BY <2>1, RouteAssumption DEF RouteInv, SetupDone, Rollback, planVars, hostVars,
       Fault, NoFault, TypeOK, Places, AnyGateway, Prefixes
<1>2. RoutesTracked'
  BY DEF RouteInv, SetupDone, Rollback, RoutesTracked, PlanShape
<1>3. LanKept'
  BY DEF RouteInv, SetupDone, Rollback, planVars, hostVars, LanKept, PlanShape
<1>4. PlanShape'
  BY DEF RouteInv, SetupDone, Rollback, planVars, PlanShape
<1> QED BY <1>1, <1>2, <1>3, <1>4 DEF RouteInv

\* A tick plans what a changed network calls for.
LEMMA TickInv ==
  ASSUME RouteInv, Tick
  PROVE  RouteInv'
<1>1. TypeOK'
  <2>1. PICK fp \in Readings(stored.gateway) :
          /\ macos_current_fingerprint(fp, stored.gateway)
          /\ snap' = fp
          /\ del' = owned \ Desired(fp)
          /\ owned' = owned \cap Desired(fp)
          /\ add' = Desired(fp) \ owned
          /\ delPin' = (ownedPin \notin {NoGateway, fp.gateway})
          /\ addPin' = IF ownedPin = fp.gateway THEN NoGateway ELSE fp.gateway
          /\ ownedPin' = IF ownedPin = fp.gateway THEN ownedPin ELSE NoGateway
    BY DEF Tick
  <2>2. fp \in FingerprintType
    BY ReadingType DEF RouteInv, TypeOK, FingerprintType
  <2>3. fp.gateway \in AnyGateway /\ NoGateway \in AnyGateway /\ Desired(fp) \subseteq Dests
    BY <2>2 DEF FingerprintType, Desired, AnyGateway
  <2>4. faults' \in Nat
    BY <2>1 DEF RouteInv, TypeOK, macos_current_fingerprint, Fault, NoFault
  <2>5. delPin' \in BOOLEAN
    BY <2>1
  <2> QED BY <2>1, <2>2, <2>3, <2>4, <2>5 DEF RouteInv, Tick, hostVars, TypeOK, Places
<1>2. RoutesTracked'
  BY DEF RouteInv, Tick, RoutesTracked, PlanShape
<1>3. LanKept'
  BY DEF RouteInv, Tick, hostVars, LanKept
<1>4. PlanShape'
  BY DEF RouteInv, Tick, PlanShape
<1> QED BY <1>1, <1>2, <1>3, <1>4 DEF RouteInv

\* A tick is over.
LEMMA TickDoneInv ==
  ASSUME RouteInv, TickDone
  PROVE  RouteInv'
<1>1. TypeOK'
  BY DEF RouteInv, TickDone, planVars, hostVars, TypeOK, Places
<1>2. RoutesTracked'
  BY DEF RouteInv, TickDone, RoutesTracked
<1>3. LanKept'
  BY DEF RouteInv, TickDone, planVars, hostVars, LanKept
<1>4. PlanShape'
  BY DEF RouteInv, TickDone, planVars, PlanShape
<1> QED BY <1>1, <1>2, <1>3, <1>4 DEF RouteInv

\* Teardown plans to delete every recorded route.
LEMMA ShutdownInv ==
  ASSUME RouteInv, Shutdown
  PROVE  RouteInv'
<1>1. TypeOK'
  <2>1. snap' \in FingerprintType
    BY DEF RouteInv, Shutdown, TypeOK, FingerprintType
  <2>2. delPin' \in BOOLEAN
    BY DEF Shutdown
  <2>3. faults' \in Nat
    BY DEF RouteInv, Shutdown, TypeOK, Fault, NoFault
  <2> QED BY <2>1, <2>2, <2>3 DEF RouteInv, Shutdown, hostVars, TypeOK, Places
<1>2. RoutesTracked'
  BY DEF RouteInv, Shutdown, RoutesTracked, PlanShape
<1>3. LanKept'
  BY DEF RouteInv, Shutdown, hostVars, LanKept
<1>4. PlanShape'
  BY DEF RouteInv, Shutdown, PlanShape
<1> QED BY <1>1, <1>2, <1>3, <1>4 DEF RouteInv

\* The helper ends after its teardown.
LEMMA FinishInv ==
  ASSUME RouteInv, Finish
  PROVE  RouteInv'
<1>1. TypeOK'
  <2>1. delPin' \in BOOLEAN /\ errors' \in BOOLEAN
    BY DEF RouteInv, Finish, Gone, TypeOK
  <2> QED
    BY <2>1, RouteAssumption DEF RouteInv, Finish, Gone, hostVars, Fault, NoFault,
       TypeOK, Places, AnyGateway, Prefixes
<1>2. RoutesTracked'
  BY DEF RouteInv, Finish, Gone, RoutesTracked, Prefixes
<1>3. LanKept'
  BY DEF RouteInv, Finish, Gone, hostVars, TypeOK, RoutesTracked, LanKept, PlanShape,
     Prefixes
<1>4. PlanShape'
  BY DEF RouteInv, Finish, Gone, PlanShape
<1> QED BY <1>1, <1>2, <1>3, <1>4 DEF RouteInv

\* The helper dies.
LEMMA CrashInv ==
  ASSUME RouteInv, Crash
  PROVE  RouteInv'
<1>1. TypeOK'
  <2>1. delPin' \in BOOLEAN /\ errors' \in BOOLEAN
    BY DEF RouteInv, Crash, Gone, TypeOK
  <2> QED
    BY <2>1, RouteAssumption DEF RouteInv, Crash, Gone, hostVars, Fault, NoFault,
       TypeOK, Places, AnyGateway, Prefixes
<1>2. RoutesTracked'
  BY DEF RouteInv, Crash, Gone, RoutesTracked, Prefixes
<1>3. LanKept'
  BY DEF RouteInv, Crash, Gone, hostVars, TypeOK, LanKept, Prefixes
<1>4. PlanShape'
  BY DEF RouteInv, Crash, Gone, PlanShape
<1> QED BY <1>1, <1>2, <1>3, <1>4 DEF RouteInv

\* The host joins a LAN.
LEMMA AttachInv ==
  ASSUME RouteInv, NEW l \in Lans, Attach(l)
  PROVE  RouteInv'
<1>1. TypeOK'
  <2>1. delPin' \in BOOLEAN /\ errors' \in BOOLEAN
    BY DEF RouteInv, Attach, HelperStays, planVars, TypeOK
  <2> QED
    BY <2>1, RouteAssumption DEF RouteInv, Attach, Change, HelperStays, planVars, Set,
       Fault, NoFault, TypeOK, Places, AnyGateway, Prefixes
<1>2. RoutesTracked'
  BY DEF RouteInv, Attach, HelperStays, planVars, Set, RoutesTracked
<1>3. LanKept'
  BY DEF RouteInv, Attach, HelperStays, planVars, Set, TypeOK, LanKept, Prefixes
<1>4. PlanShape'
  BY DEF RouteInv, Attach, HelperStays, planVars, Set, PlanShape
<1> QED BY <1>1, <1>2, <1>3, <1>4 DEF RouteInv

\* The host leaves a LAN.
LEMMA DetachInv ==
  ASSUME RouteInv, NEW l \in Lans, Detach(l)
  PROVE  RouteInv'
<1>1. TypeOK'
  <2>1. delPin' \in BOOLEAN /\ errors' \in BOOLEAN
    BY DEF RouteInv, Detach, HelperStays, planVars, TypeOK
  <2> QED
    BY <2>1, RouteAssumption DEF RouteInv, Detach, Change, HelperStays, planVars, Set,
       Fault, NoFault, TypeOK, Places, AnyGateway, Prefixes
<1>2. RoutesTracked'
  BY DEF RouteInv, Detach, HelperStays, planVars, Set, RoutesTracked
<1>3. LanKept'
  BY DEF RouteInv, Detach, HelperStays, planVars, Set, LanKept
<1>4. PlanShape'
  BY DEF RouteInv, Detach, HelperStays, planVars, Set, PlanShape
<1> QED BY <1>1, <1>2, <1>3, <1>4 DEF RouteInv

\* The host changes its gateway.
LEMMA RoamInv ==
  ASSUME RouteInv, NEW g \in AnyGateway, Roam(g)
  PROVE  RouteInv'
<1>1. TypeOK'
  BY DEF RouteInv, Roam, Change, HelperStays, planVars, NoFault, TypeOK
<1>2. RoutesTracked'
  BY DEF RouteInv, Roam, HelperStays, planVars, RoutesTracked
<1>3. LanKept'
  BY DEF RouteInv, Roam, HelperStays, planVars, LanKept
<1>4. PlanShape'
  BY DEF RouteInv, Roam, HelperStays, planVars, PlanShape
<1> QED BY <1>1, <1>2, <1>3, <1>4 DEF RouteInv

\* Nothing happens.
LEMMA StutterInv ==
  ASSUME RouteInv, UNCHANGED vars
  PROVE  RouteInv'
BY DEF RouteInv, vars, hostVars, planVars, TypeOK, RoutesTracked, LanKept, PlanShape

\* The first state.
LEMMA InitInv ==
  ASSUME Init
  PROVE  RouteInv
<1>1. TypeOK
  BY RouteAssumption DEF Init, TypeOK, Places, AnyGateway, FingerprintType
<1>2. RoutesTracked
  BY DEF Init, RoutesTracked, Prefixes
<1>3. LanKept
  BY DEF Init, LanKept, Prefixes
<1>4. PlanShape
  BY DEF Init, PlanShape, Prefixes
<1> QED BY <1>1, <1>2, <1>3, <1>4 DEF RouteInv

\* Every step of the helper, the host or a crash keeps the invariant.
LEMMA StepInv ==
  ASSUME RouteInv, [Next]_vars
  PROVE  RouteInv'
BY DeleteInv, DeletePinInv, AddPinInv, ProbeInv, InstallInv, SetupInv, SetupDoneInv, TickInv,
   TickDoneInv, ShutdownInv, FinishInv, CrashInv, AttachInv, DetachInv, RoamInv, StutterInv
   DEF Next, HelperStep, HostStep, AnyGateway

\* The invariant of setup, reconciler and teardown holds in every reachable state.
THEOREM RouteInduction == Spec => []RouteInv
<1>1. Init => RouteInv
  BY InitInv
<1>2. RouteInv /\ [Next]_vars => RouteInv'
  BY StepInv
<1> QED BY <1>1, <1>2, PTL DEF Spec

\* routes_added is the source of truth for teardown: no route of the tunnel escapes it
\* unless a command on that prefix failed.
THEOREM RoutesAccounted == Spec => []RoutesTracked
<1>1. RouteInv => RoutesTracked
  BY DEF RouteInv
<1> QED BY <1>1, RouteInduction, PTL

\* Neither setup, reconciler nor teardown leaves a LAN the host is on without its
\* connected route.
THEOREM LanPreserved == Spec => []LanKept
<1>1. RouteInv => LanKept
  BY DEF RouteInv
<1> QED BY <1>1, RouteInduction, PTL

\* Teardown and rollback delete the pin of the endpoint after the tunnel's routes.
THEOREM PinLast == Spec => PinOutlivesRoutes
<1> DEFINE Step == pin # NoGateway /\ pin' = NoGateway /\ pc \in {"teardown", "rollback"}
                     => \A d \in Dests \ cut : table[d] # "tunnel"
<1>1. ASSUME RouteInv, [Next]_vars, pin # NoGateway, pin' = NoGateway,
             pc \in {"teardown", "rollback"}
      PROVE  \A d \in Dests \ cut : table[d] # "tunnel"
  <2>1. DeletePin
    BY <1>1 DEF Next, HelperStep, HostStep, Tick, TickDone, SetupDone, AddPin, Finish, Delete,
       Probe, Install, Setup, Shutdown, Crash, Gone, Attach, Detach, Roam, HelperStays, vars
  <2>2. del = {}
    BY <1>1, <2>1 DEF DeletePin
  <2> QED BY <1>1, <2>2 DEF RouteInv, RoutesTracked
<1>2. RouteInv /\ [Next]_vars => [Step]_vars
  BY <1>1
<1> QED BY <1>2, RouteInduction, PTL DEF Spec, PinOutlivesRoutes
=============================================================================
