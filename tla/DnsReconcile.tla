---------------------------- MODULE DnsReconcile ----------------------------
(***************************************************************************)
(* The tunnel helper's ownership of the host's DNS settings                *)
(* (src/userspace_helper.rs): configure_macos_dns at connect, the          *)
(* reconciler macos_reconcile_dns every three seconds while the tunnel is  *)
(* up, and the DNS half of cleanup_network_macos.                          *)
(*                                                                         *)
(* One helper after another serves one tunnel.  A network service holds a  *)
(* DNS server list and a search domain list; only the list of the tunnel,  *)
(* "unset", and everything else are told apart.  networksetup commands are *)
(* steps of their own, so the host (the user, DHCP, a location switch) may *)
(* act between any two of them.                                            *)
(***************************************************************************)
EXTENDS Naturals, FiniteSets

CONSTANTS
  Services,     \* names of network services
  Resolvers,    \* server lists that are not the tunnel's
  Domains,      \* search domain lists
  HostConfigs,  \* settings the host gives a service
  Tunnel,       \* the tunnel's server list
  Unset,        \* networksetup's "Empty"
  NoService,    \* no primary service can be determined
  NoSave,       \* the tunnel does not own the service
  MaxRuns,      \* bound: helpers started
  MaxChanges,   \* bound: changes of the host's environment
  MaxFaults     \* bound: failed commands, degraded reads and crashes

\* The settings of a service, and those that "Empty" gives it.
Confs == [dns : Resolvers \cup {Tunnel}, search : Domains]
Blank == [dns |-> Unset, search |-> Unset]

ASSUME DnsAssumption ==
  /\ MaxRuns \in Nat /\ MaxChanges \in Nat /\ MaxFaults \in Nat
  /\ Unset \in Resolvers /\ Unset \in Domains /\ Tunnel \notin Resolvers
  /\ HostConfigs \subseteq [dns : Resolvers, search : Domains]
  /\ NoService \notin Services
  /\ NoSave \notin Confs

VARIABLES
  present,   \* services networksetup lists
  primary,   \* the service that owns global resolution
  conf,      \* settings of every service, kept while it is not listed
  collide,   \* a connected LAN contains the tunnel's DNS server
  pc,        \* where the helper is
  saved,     \* MacosDnsState.services: the original of each owned service
  stored,    \* MacosDnsState.fingerprint
  snap,      \* the fingerprint the running tick or setup acts on
  cap,       \* services still to be captured
  res,       \* services still to be restored
  app,       \* services still to be given the tunnel's DNS
  changed,   \* the tick has applied or restored something
  errors,    \* services whose restore failed during teardown
  status,    \* what the last helper reported: "ok", "error" or "none"
  orig,      \* history: settings the host last gave each service
  lost,      \* history: services whose original the tunnel cannot know (see below)
  stray,     \* history: services left at the tunnel's DNS with no owner
  runs, changes, faults

hostVars == <<present, primary, conf, collide>>
planVars == <<snap, cap, res, app, changed>>
histVars == <<orig, lost, stray>>
vars == <<hostVars, pc, saved, stored, planVars, errors, status, histVars, runs, changes, faults>>

Set(f, x, v) == [f EXCEPT ![x] = v]

Owned == {s \in Services : saved[s] # NoSave}

Fault == faults < MaxFaults /\ faults' = faults + 1
NoFault == UNCHANGED faults

-----------------------------------------------------------------------------
(* Reading the environment.                                                *)

Fingerprint(prime, read) ==
  [primary  |-> prime,
   services |-> present,
   observed |-> [s \in Services |-> IF s \in present \cap read THEN conf[s].dns ELSE Unset]]

\* A failed read of one service's servers, or of the primary service, degrades to
\* "none"; an empty listing aborts.
macos_current_dns_fingerprint(fp) ==
  /\ present # {}
  /\ \/ fp = Fingerprint(primary, Services) /\ NoFault
     \/ /\ fp \in {Fingerprint(p, r) : p \in {primary, NoService}, r \in SUBSET Services}
        /\ Fault

\* Policy PrimaryOnly, with its fallback to every service.
dns_target_services(fp) ==
  IF fp.primary \in fp.services THEN {fp.primary} ELSE fp.services

\* Mutant: a cleared collision does not force the tick.
dns_reconcile_pull_only(clash, targets) == clash /\ Owned # {}

dns_reconcile_forced(clash, targets) ==
  \/ clash /\ Owned # {}
  \/ ~clash /\ ~(targets \subseteq Owned)

-----------------------------------------------------------------------------
(* The networksetup commands that write.                                   *)

\* Mutant: the search domains are not backed up.
OriginalServers(s) == IF conf[s].dns = Tunnel THEN Blank ELSE [conf[s] EXCEPT !.search = Unset]

\* A service found at the tunnel's DNS has lost its original: it is adopted with an
\* unset one.
Original(s) == IF conf[s].dns = Tunnel THEN Blank ELSE conf[s]

\* capture_macos_dns_service succeeds: the service becomes owned.
Take(s) ==
  /\ s \in present
  /\ saved' = Set(saved, s, Original(s))
  /\ stray' = stray \ {s}
  /\ UNCHANGED <<orig, lost>>
  /\ NoFault

\* A command fails when the service is not listed, and may fail otherwise.
Fails(s) == IF s \in present THEN Fault ELSE NoFault

\* Both lists are written.
Written(s, c) ==
  /\ s \in present
  /\ conf' = Set(conf, s, c)
  /\ NoFault

\* The first command fails, or the second after the first has succeeded.
HalfWritten(s, c) ==
  /\ Fails(s)
  /\ \/ UNCHANGED conf
     \/ s \in present /\ conf' = Set(conf, s, [conf[s] EXCEPT !.dns = c.dns])

Carried == [dns |-> Tunnel, search |-> Unset]

-----------------------------------------------------------------------------
(* Connect.                                                                *)

\* A helper starts; when the first snapshot fails nothing has been touched.
Start ==
  /\ pc = "off"
  /\ runs < MaxRuns
  /\ runs' = runs + 1
  /\ \E fp \in {Fingerprint(p, r) : p \in {primary, NoService}, r \in SUBSET Services} :
       /\ macos_current_dns_fingerprint(fp)
       /\ snap' = fp
       /\ cap' = dns_target_services(fp)
  /\ pc' = "setup"
  /\ status' = "none"
  /\ UNCHANGED <<hostVars, saved, stored, res, app, changed, errors, histVars, changes>>

\* An error of one service rolls back the services taken so far.
Rollback ==
  /\ pc' = "rollback"
  /\ cap' = {}
  /\ app' = {}
  /\ res' = Owned

SetupCapture(s) ==
  /\ pc = "setup" /\ app = {} /\ s \in cap
  /\ \/ /\ Take(s)
        /\ cap' = cap \ {s}
        /\ app' = {s}
        /\ UNCHANGED <<pc, res>>
     \/ Fails(s) /\ Rollback /\ UNCHANGED <<saved, histVars>>
  /\ UNCHANGED <<hostVars, stored, snap, changed, errors, status, runs, changes>>

SetupApply(s) ==
  /\ pc = "setup" /\ s \in app
  /\ \/ Written(s, Carried) /\ app' = {} /\ UNCHANGED <<pc, cap, res>>
     \/ HalfWritten(s, Carried) /\ Rollback
  /\ UNCHANGED <<present, primary, collide, saved, stored, snap, changed, errors, status, histVars,
                 runs, changes>>

\* The fingerprint that the first tick compares with is taken after the writes; if
\* that snapshot fails, the one from before them is kept.
Resnapshot(fp) ==
  \/ macos_current_dns_fingerprint(fp)
  \/ fp = snap /\ (IF present = {} THEN NoFault ELSE Fault)

Fingerprints == {Fingerprint(p, r) : p \in {primary, NoService}, r \in SUBSET Services} \cup {snap}

SetupDone ==
  /\ pc = "setup" /\ cap = {} /\ app = {}
  /\ \E fp \in Fingerprints : Resnapshot(fp) /\ stored' = fp
  /\ pc' = "up"
  /\ UNCHANGED <<hostVars, saved, planVars, errors, status, histVars, runs, changes>>

-----------------------------------------------------------------------------
(* One reconcile tick.                                                     *)

plan_dns_actions(fp, targets) ==
  [capture |-> targets \ Owned,
   apply   |-> {s \in targets : fp.observed[s] # Tunnel},
   restore |-> (Owned \ targets) \cap fp.services,
   drop    |-> (Owned \ targets) \ fp.services]

\* Snapshot, collision test and plan.  Services that have vanished are dropped with
\* their saved original.
Tick ==
  /\ pc = "up"
  /\ \E fp \in Fingerprints, clash \in {collide, FALSE} :
       LET targets == IF clash THEN {} ELSE dns_target_services(fp)
           plan == plan_dns_actions(fp, targets)
       IN /\ \/ clash = collide /\ macos_current_dns_fingerprint(fp)
             \/ clash # collide /\ fp = Fingerprint(primary, Services) /\ present # {} /\ Fault
          /\ fp # stored \/ dns_reconcile_forced(clash, targets)
          /\ snap' = fp
          /\ cap' = plan.capture
          /\ app' = plan.apply
          /\ res' = plan.restore
          /\ saved' = [s \in Services |-> IF s \in plan.drop THEN NoSave ELSE saved[s]]
          /\ lost' = lost \cup plan.drop
          /\ stray' = stray \cup plan.drop
  /\ pc' = "tick"
  /\ changed' = FALSE
  /\ UNCHANGED <<hostVars, stored, errors, status, orig, runs, changes>>

\* Mutant: a service whose original could not be read is overwritten all the same.
TickCaptureIgnored(s) ==
  /\ pc = "tick" /\ s \in cap
  /\ cap' = cap \ {s}
  /\ \/ Take(s) /\ UNCHANGED app
     \/ Fails(s) /\ UNCHANGED <<app, saved, histVars>>
  /\ UNCHANGED <<hostVars, pc, stored, snap, res, changed, errors, status, runs, changes>>

\* capture_failed keeps the service out of the writes below.
TickCapture(s) ==
  /\ pc = "tick" /\ s \in cap
  /\ cap' = cap \ {s}
  /\ \/ Take(s) /\ UNCHANGED app
     \/ Fails(s) /\ app' = app \ {s} /\ UNCHANGED <<saved, histVars>>
  /\ UNCHANGED <<hostVars, pc, stored, snap, res, changed, errors, status, runs, changes>>

\* The saved original is kept when the restore fails.
TickRestore(s) ==
  /\ pc = "tick" /\ cap = {} /\ s \in res
  /\ res' = res \ {s}
  /\ \/ Written(s, saved[s]) /\ saved' = Set(saved, s, NoSave) /\ changed' = TRUE
     \/ HalfWritten(s, saved[s]) /\ UNCHANGED <<saved, changed>>
  /\ UNCHANGED <<present, primary, collide, pc, stored, snap, cap, app, errors, status, histVars,
                 runs, changes>>

TickApply(s) ==
  /\ pc = "tick" /\ cap = {} /\ res = {} /\ s \in app
  /\ app' = app \ {s}
  /\ \/ Written(s, Carried) /\ changed' = TRUE
     \/ HalfWritten(s, Carried) /\ UNCHANGED changed
  /\ UNCHANGED <<present, primary, collide, pc, saved, stored, snap, cap, res, errors, status,
                 histVars, runs, changes>>

TickDone ==
  /\ pc = "tick" /\ cap = {} /\ res = {} /\ app = {}
  /\ IF changed THEN \E fp \in Fingerprints : Resnapshot(fp) /\ stored' = fp
                ELSE stored' = snap /\ NoFault
  /\ pc' = "up"
  /\ UNCHANGED <<hostVars, saved, planVars, errors, status, histVars, runs, changes>>

-----------------------------------------------------------------------------
(* Teardown.                                                               *)

\* SIGTERM, SIGINT or a removed control socket.  The tick is awaited, so it never
\* runs beside the teardown.
Shutdown ==
  /\ pc = "up"
  /\ pc' = "teardown"
  /\ res' = Owned
  /\ UNCHANGED <<hostVars, saved, stored, snap, cap, app, changed, errors, status, histVars,
                 runs, changes, faults>>

Release(s) ==
  /\ pc \in {"teardown", "rollback"} /\ s \in res
  /\ res' = res \ {s}
  /\ \/ Written(s, saved[s]) /\ UNCHANGED errors
     \/ HalfWritten(s, saved[s]) /\ errors' = errors \cup {s}
  /\ UNCHANGED <<present, primary, collide, pc, saved, stored, snap, cap, app, changed, status,
                 histVars, runs, changes>>

\* The process ends and forgets what it owned.
Exit(left) ==
  /\ pc' = "off"
  /\ saved' = [s \in Services |-> NoSave]
  /\ lost' = lost \cup left
  /\ stray' = stray \cup left
  /\ stored' = Fingerprint(NoService, {})
  /\ snap' = Fingerprint(NoService, {})
  /\ cap' = {} /\ res' = {} /\ app' = {}
  /\ changed' = FALSE
  /\ errors' = {}
  /\ UNCHANGED <<hostVars, orig, runs, changes>>

\* Mutant: failed restores do not reach the status.
ReleasedSilently ==
  /\ pc \in {"teardown", "rollback"} /\ res = {}
  /\ status' = IF pc = "teardown" THEN "ok" ELSE "error"
  /\ Exit(errors)
  /\ NoFault

Released ==
  /\ pc \in {"teardown", "rollback"} /\ res = {}
  /\ status' = IF pc = "teardown" /\ errors = {} THEN "ok" ELSE "error"
  /\ Exit(errors)
  /\ NoFault

\* The helper is killed, or leaves start_device with the network configured.
Crash ==
  /\ pc # "off"
  /\ Fault
  /\ status' = "none"
  /\ Exit(Owned)

-----------------------------------------------------------------------------
(* The host.                                                               *)

Change == changes < MaxChanges /\ changes' = changes + 1 /\ NoFault

HelperStays == UNCHANGED <<pc, saved, stored, planVars, errors, status, runs>>

\* The user or DHCP gives a service new settings.  While the tunnel owns the service
\* they take the place of an original that the helper keeps.
HostSet(s, h) ==
  /\ Change
  /\ s \in present
  /\ conf' = Set(conf, s, h)
  /\ orig' = Set(orig, s, h)
  /\ stray' = stray \ {s}
  /\ lost' = IF s \in Owned THEN lost \cup {s} ELSE lost \ {s}
  /\ HelperStays
  /\ UNCHANGED <<present, primary, collide>>

\* Services come and go and the primary one changes.
HostServices(here, prime) ==
  /\ Change
  /\ prime \in here \cup {NoService}
  /\ present' = here
  /\ primary' = prime
  /\ HelperStays
  /\ UNCHANGED <<conf, collide, histVars>>

\* The host joins or leaves a LAN that contains the tunnel's DNS server.
HostLan ==
  /\ Change
  /\ collide' = ~collide
  /\ HelperStays
  /\ UNCHANGED <<present, primary, conf, histVars>>

-----------------------------------------------------------------------------

Init ==
  /\ present = Services
  /\ primary \in Services \cup {NoService}
  /\ conf \in [Services -> HostConfigs]
  /\ collide = FALSE
  /\ pc = "off"
  /\ saved = [s \in Services |-> NoSave]
  /\ stored = [primary |-> NoService, services |-> {}, observed |-> [s \in Services |-> Unset]]
  /\ snap = stored
  /\ cap = {} /\ res = {} /\ app = {}
  /\ changed = FALSE
  /\ errors = {}
  /\ status = "none"
  /\ orig = conf
  /\ lost = {} /\ stray = {}
  /\ runs = 0 /\ changes = 0 /\ faults = 0

HelperStep ==
  \/ Tick \/ TickDone \/ SetupDone \/ Released
  \/ \E s \in Services : \/ SetupCapture(s) \/ SetupApply(s) \/ TickCapture(s)
                         \/ TickRestore(s) \/ TickApply(s) \/ Release(s)

HostStep ==
  \/ \E s \in Services, h \in HostConfigs : HostSet(s, h)
  \/ \E here \in SUBSET Services, prime \in Services \cup {NoService} : HostServices(here, prime)
  \/ HostLan

Next == HelperStep \/ HostStep \/ Start \/ Shutdown \/ Crash

Spec == Init /\ [][Next]_vars

\* The maintenance job runs every three seconds and each command returns.  No failure
\* is owed.
FairSpec == Spec /\ WF_vars(HelperStep /\ UNCHANGED faults)

-----------------------------------------------------------------------------
(* Properties.                                                             *)

Places == {"off", "setup", "up", "tick", "teardown", "rollback"}

FingerprintType ==
  [primary : Services \cup {NoService}, services : SUBSET Services,
   observed : [Services -> Resolvers \cup {Tunnel}]]

TypeOK ==
  /\ present \subseteq Services
  /\ primary \in Services \cup {NoService}
  /\ conf \in [Services -> Confs]
  /\ collide \in BOOLEAN /\ changed \in BOOLEAN
  /\ pc \in Places
  /\ saved \in [Services -> Confs \cup {NoSave}]
  /\ stored \in FingerprintType /\ snap \in FingerprintType
  /\ cap \subseteq Services /\ res \subseteq Services /\ app \subseteq Services
  /\ errors \subseteq Services /\ lost \subseteq Services /\ stray \subseteq Services
  /\ status \in {"ok", "error", "none"}
  /\ orig \in [Services -> HostConfigs]
  /\ runs \in Nat /\ changes \in Nat /\ faults \in Nat

\* The tunnel's DNS never outlives its owner: a service shows it only while a saved
\* original waits for it, or after a crash, a failed restore or a vanished service
\* left it behind; the saved original is never the tunnel's own list ("never
\* overwrite DNS we couldn't back up").
TunnelDnsOwned ==
  \A s \in Services :
    /\ s \notin Owned /\ s \notin stray => conf[s].dns # Tunnel
    /\ s \in Owned => saved[s].dns # Tunnel

\* The settings a service has or will get back are the host's own, through any number
\* of ticks, primary changes and failed commands, unless the host changed them while
\* the tunnel owned the service or an earlier helper lost them.
OriginalsKept ==
  \A s \in Services \ lost :
    IF s \in Owned THEN saved[s] = orig[s] ELSE conf[s] = orig[s]

\* A teardown that reports "ok" has given every owned service its original back.
OkMeansRestored ==
  [][pc = "teardown" /\ pc' = "off" /\ status' = "ok"
     => \A s \in Owned \ lost : conf[s] = orig[s]]_vars

Up == pc \in {"up", "tick"}

Targets == dns_target_services(Fingerprint(primary, Services))

\* Ownership follows a collision of the tunnel's DNS server with a connected LAN,
\* although no fingerprint shows it: while it lasts every service is given back,
\* failed restores included, and once it is over the services that resolve names are
\* taken again.
CollisionFollowed ==
  /\ <>[](Up /\ collide /\ present # {}) => <>[](Owned = {})
  /\ \A s \in Services :
       <>[](Up /\ ~collide /\ s \in Targets /\ s \in present) => <>[](s \in Owned)

-----------------------------------------------------------------------------
(* What the proofs need beside them.                                       *)

\* What is planned fits what is owned: only unowned services are captured, only owned
\* ones restored, and only backed-up ones written.
PlanShape ==
  /\ pc = "off" => Owned = {}
  /\ cap \cap Owned = {} /\ res \subseteq Owned /\ res \cap app = {}
  /\ app \subseteq (IF pc = "tick" THEN Owned \cup cap ELSE Owned)
  /\ pc \notin {"setup", "tick"} => cap = {} /\ app = {}
  /\ pc \in {"off", "setup", "up"} => res = {}

\* Teardown has finished with a service that is neither waiting nor failed.
TeardownShape ==
  pc \in {"teardown", "rollback"} =>
    \A s \in Owned \ (res \cup errors) :
      conf[s].dns # Tunnel /\ (s \notin lost => conf[s] = saved[s])

\* The inductive invariant of DNS ownership.
DnsInv ==
  /\ TypeOK
  /\ TunnelDnsOwned
  /\ OriginalsKept
  /\ PlanShape
  /\ TeardownShape
=============================================================================
