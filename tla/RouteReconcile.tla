--------------------------- MODULE RouteReconcile ---------------------------
(***************************************************************************)
(* The routes of one tunnel helper (src/userspace_helper.rs): the route    *)
(* half of configure_network_macos, the reconciler macos_reconcile_routes, *)
(* and the route half of cleanup_network_macos.                            *)
(*                                                                         *)
(* A prefix holds one entry: none, this tunnel's, another (stale) tunnel's *)
(* or that of a physical interface.  Addresses are abstracted to prefixes  *)
(* and to which LAN contains which AllowedIPs prefix.  Each route command  *)
(* is a step, so the host may join and leave LANs between any two.         *)
(***************************************************************************)
EXTENDS Naturals

CONSTANTS
  Dests,       \* prefixes of macos_allowed_routes
  Lans,        \* subnets of LANs the host may join; some may be prefixes of Dests
  Covers,      \* Covers[l]: the prefixes of Dests equal to, or inside, LAN l
  Gateways,    \* default gateways of the networks the host may be on
  NoGateway,
  NoDest,
  NeedsPin,    \* macos_allowed_ips_cover_endpoint
  MaxChanges,  \* bound: changes of the host's network
  MaxFaults    \* bound: failed commands and crashes

Prefixes == Dests \cup Lans

\* The subnets of LANs joined at one time are taken not to nest.
ASSUME RouteAssumption ==
  /\ MaxChanges \in Nat /\ MaxFaults \in Nat
  /\ NeedsPin \in BOOLEAN
  /\ Covers \in [Lans -> SUBSET Dests]
  /\ \A l \in Lans \cap Dests : l \in Covers[l]
  /\ \A l, m \in Lans : Covers[l] \cap Covers[m] # {} => l = m
  /\ NoGateway \notin Gateways
  /\ NoDest \notin Prefixes

VARIABLES
  attached,   \* LANs the host is on
  gateway,    \* its default gateway
  table,      \* the routing table entry of each prefix
  pin,        \* the gateway of the endpoint's host route
  pc,         \* where the helper is
  owned,      \* routes_added: tunnel routes
  ownedPin,   \* routes_added: the endpoint pin
  stored,     \* MacosRoutingState.fingerprint
  snap,       \* the fingerprint that setup, a tick or teardown acts on
  del,        \* tunnel routes still to be deleted
  delPin,     \* the pin is still to be deleted
  add,        \* tunnel routes still to be added
  addPin,     \* the pin still to be added
  ready,      \* the prefix that add_macos_route has examined and is about to add
  errors,     \* a deletion of the teardown failed
  status,     \* what the helper reported
  cut,        \* history: prefixes a failed command or a late LAN left without repair
  changes, faults

hostVars == <<attached, gateway>>
planVars == <<del, delPin, add, addPin, ready>>
vars == <<hostVars, table, pin, pc, owned, ownedPin, stored, snap, planVars, errors, status, cut,
          changes, faults>>

Set(f, x, v) == [f EXCEPT ![x] = v]

Fault == faults < MaxFaults /\ faults' = faults + 1
NoFault == UNCHANGED faults

-----------------------------------------------------------------------------
(* The environment and what the tunnel wants of it.                        *)

\* A failed ifconfig reads as "no LAN"; a failed gateway lookup keeps `previous`.
Readings(previous) ==
  [lans : {attached, {}},
   gateway : IF ~NeedsPin THEN {NoGateway}
             ELSE IF gateway = NoGateway THEN {previous} ELSE {gateway, previous}]

Exact(previous) ==
  [lans |-> attached,
   gateway |-> IF ~NeedsPin THEN NoGateway
               ELSE IF gateway = NoGateway THEN previous ELSE gateway]

macos_current_fingerprint(fp, previous) ==
  \/ fp = Exact(previous) /\ NoFault
  \/ fp \in Readings(previous) /\ Fault

\* Mutant: AllowedIPs are routed whatever the host is attached to.
DesiredAlways(fp) == Dests

\* macos_desired_routes: everything outside the connected LANs.
Desired(fp) == {d \in Dests : \A l \in fp.lans : d \notin Covers[l]}

-----------------------------------------------------------------------------
(* Deleting.                                                               *)

\* Mutant: the connected route of a LAN is not put back.
RestoredNever(t, d) == {t}

\* macos_restore_shadowed_lan_route: what becomes of table t once the entry of d is
\* deleted.
Restored(t, d) ==
  LET shadowed == {l \in snap.lans \cap attached : d \in Covers[l] /\ t[l] = "none"}
  IN {[p \in Prefixes |-> IF p \in shadowed THEN "lan" ELSE t[p]]}

\* A route that is "not in table" counts as deleted.  Whatever holds the prefix goes.
Delete(d) ==
  /\ pc \in {"tick", "teardown", "rollback"} /\ d \in del
  /\ pc = "tick" => ~delPin
  /\ del' = del \ {d}
  /\ \/ /\ table' \in Restored(Set(table, d, "none"), d)
        /\ cut' = IF pc # "tick" /\ d \in attached \ snap.lans THEN cut \cup {d} ELSE cut
        /\ NoFault /\ UNCHANGED errors
     \/ /\ table' = Set(table, d, "none")      \* the repair fails: a warning
        /\ cut' = cut \cup {d} \cup {l \in Lans : d \in Covers[l]}
        /\ Fault /\ UNCHANGED errors
     \/ /\ cut' = cut \cup {d}
        /\ errors' = (pc # "tick")             \* a tick forgets the route
        /\ Fault /\ UNCHANGED table
  /\ UNCHANGED <<hostVars, pin, pc, owned, ownedPin, stored, snap, delPin, add, addPin, ready,
                 status, changes>>

\* Mutant: the pin goes before the routes that it protects.
DeletePinFirst ==
  /\ pc \in {"tick", "teardown", "rollback"} /\ delPin
  /\ delPin' = FALSE
  /\ pin' = NoGateway /\ NoFault /\ UNCHANGED errors
  /\ UNCHANGED <<hostVars, table, pc, owned, ownedPin, stored, snap, del, add, addPin, ready,
                 status, cut, changes>>

\* First of the routes in a tick, last in a teardown, which goes through them in reverse.
DeletePin ==
  /\ pc \in {"tick", "teardown", "rollback"} /\ delPin
  /\ pc # "tick" => del = {}
  /\ delPin' = FALSE
  /\ \/ pin' = NoGateway /\ NoFault /\ UNCHANGED errors
     \/ Fault /\ errors' = (pc # "tick") /\ UNCHANGED pin
  /\ UNCHANGED <<hostVars, table, pc, owned, ownedPin, stored, snap, del, add, addPin, ready,
                 status, cut, changes>>

-----------------------------------------------------------------------------
(* Adding.                                                                 *)

\* An error of setup deletes what it has added so far.
Rollback ==
  /\ pc' = "rollback"
  /\ add' = {} /\ addPin' = NoGateway /\ ready' = NoDest
  /\ del' = owned /\ delPin' = (ownedPin # NoGateway)

\* A tick goes on with the next route.
GiveUp(d) == pc = "tick" /\ add' = add \ {d} /\ ready' = NoDest /\ UNCHANGED <<pc, del, delPin, addPin>>

Adding == pc \in {"setup", "tick"} /\ del = {} /\ ~delPin

\* "File exists" counts as added.
AddPin ==
  /\ Adding /\ addPin # NoGateway
  /\ \/ /\ pin' = IF pin = NoGateway THEN addPin ELSE pin
        /\ ownedPin' = addPin
        /\ addPin' = NoGateway
        /\ NoFault
        /\ UNCHANGED <<pc, add, ready, del, delPin>>
     \/ Fault /\ pc = "setup" /\ Rollback /\ UNCHANGED <<pin, ownedPin>>
     \/ Fault /\ pc = "tick" /\ addPin' = NoGateway
          /\ UNCHANGED <<pin, ownedPin, pc, add, ready, del, delPin>>
  /\ UNCHANGED <<hostVars, table, owned, stored, snap, errors, status, cut, changes>>

\* add_macos_route examines the prefix: a physical interface keeps it (Foreign), a
\* tunnel's entry is cleared, with the result of that ignored.
Probe(d) ==
  /\ Adding /\ addPin = NoGateway /\ ready = NoDest /\ d \in add
  /\ \/ /\ table[d] = "lan"
        /\ add' = add \ {d}
        /\ NoFault /\ UNCHANGED <<ready, table>>
     \/ /\ table[d] # "lan"
        /\ ready' = d
        /\ table' = Set(table, d, "none")
        /\ NoFault /\ UNCHANGED add
     \/ Fault /\ ready' = d /\ UNCHANGED <<table, add>>   \* lookup or deletion fails
  /\ UNCHANGED <<hostVars, pin, pc, owned, ownedPin, stored, snap, del, delPin, addPin, errors,
                 status, cut, changes>>

\* Mutant: a route that a tick adds is not put into `installed`.
InstallUnrecorded(d) ==
  /\ Adding /\ ready = d /\ d \in add
  /\ table' = IF table[d] = "none" THEN Set(table, d, "tunnel") ELSE table
  /\ owned' = IF pc = "tick" THEN owned ELSE owned \cup {d}
  /\ add' = add \ {d} /\ ready' = NoDest
  /\ NoFault
  /\ UNCHANGED <<hostVars, pin, pc, ownedPin, stored, snap, del, delPin, addPin, errors, status,
                 cut, changes>>

\* "File exists" counts as added.
Install(d) ==
  /\ Adding /\ ready = d /\ d \in add
  /\ \/ /\ table' = IF table[d] = "none" THEN Set(table, d, "tunnel") ELSE table
        /\ owned' = owned \cup {d}
        /\ add' = add \ {d} /\ ready' = NoDest
        /\ NoFault
        /\ UNCHANGED <<pc, del, delPin, addPin, cut>>
     \/ /\ Fault
        /\ cut' = cut \cup {d}
        /\ GiveUp(d) \/ (pc = "setup" /\ Rollback)
        /\ UNCHANGED <<table, owned>>
  /\ UNCHANGED <<hostVars, pin, ownedPin, stored, snap, errors, status, changes>>

-----------------------------------------------------------------------------
(* The helper's life.                                                      *)

\* The first fingerprint requires a gateway when the endpoint needs a pin.
Setup ==
  /\ pc = "start"
  /\ \E fp \in Readings(NoGateway) :
       /\ macos_current_fingerprint(fp, NoGateway)
       /\ snap' = fp /\ stored' = fp
       /\ IF NeedsPin /\ fp.gateway = NoGateway
          THEN pc' = "off" /\ status' = "error" /\ UNCHANGED <<add, addPin>>
          ELSE pc' = "setup" /\ add' = Desired(fp) /\ addPin' = fp.gateway /\ UNCHANGED status
  /\ UNCHANGED <<hostVars, table, pin, owned, ownedPin, del, delPin, ready, errors, cut, changes>>

\* Routes are in place; DNS follows and may still fail.
SetupDone ==
  /\ pc = "setup" /\ add = {} /\ addPin = NoGateway
  /\ \/ pc' = "up" /\ NoFault /\ UNCHANGED planVars
     \/ Fault /\ Rollback
  /\ UNCHANGED <<hostVars, table, pin, owned, ownedPin, stored, snap, errors, status, cut, changes>>

\* A changed fingerprint: what is no longer desired is deleted, what is missing added.
\* From here on a route that fails to be deleted is not remembered.
Tick ==
  /\ pc = "up"
  /\ \E fp \in Readings(stored.gateway) :
       /\ macos_current_fingerprint(fp, stored.gateway)
       /\ fp # stored
       /\ snap' = fp
       /\ del' = owned \ Desired(fp)
       /\ owned' = owned \cap Desired(fp)
       /\ add' = Desired(fp) \ owned
       /\ delPin' = (ownedPin \notin {NoGateway, fp.gateway})
       /\ addPin' = IF ownedPin = fp.gateway THEN NoGateway ELSE fp.gateway
       /\ ownedPin' = IF ownedPin = fp.gateway THEN ownedPin ELSE NoGateway
  /\ pc' = "tick"
  /\ UNCHANGED <<hostVars, table, pin, stored, ready, errors, status, cut, changes>>

TickDone ==
  /\ pc = "tick" /\ del = {} /\ ~delPin /\ add = {} /\ addPin = NoGateway
  /\ pc' = "up"
  /\ stored' = snap
  /\ UNCHANGED <<hostVars, table, pin, owned, ownedPin, snap, planVars, errors, status, cut,
                 changes, faults>>

\* The LANs are read anew, and every route of routes_added is deleted.
Shutdown ==
  /\ pc = "up"
  /\ pc' = "teardown"
  /\ \E lans \in {attached, {}} :
       /\ IF lans = attached THEN NoFault ELSE Fault
       /\ snap' = [lans |-> lans, gateway |-> stored.gateway]
  /\ del' = owned /\ delPin' = (ownedPin # NoGateway)
  /\ UNCHANGED <<hostVars, table, pin, owned, ownedPin, stored, add, addPin, ready, errors,
                 status, cut, changes>>

\* The tunnel device disappears with the process; an entry of it goes or lingers.
Gone(left) ==
  /\ pc' = "off"
  /\ \E now \in {"none", "other"} :
       table' = [p \in Prefixes |-> IF table[p] = "tunnel" THEN now ELSE table[p]]
  /\ owned' = {} /\ ownedPin' = NoGateway
  /\ del' = {} /\ delPin' = FALSE /\ add' = {} /\ addPin' = NoGateway /\ ready' = NoDest
  /\ errors' = FALSE
  /\ cut' = cut \cup left
  /\ UNCHANGED <<hostVars, pin, stored, snap, changes>>

Finish ==
  /\ pc \in {"teardown", "rollback"} /\ del = {} /\ ~delPin
  /\ status' = IF pc = "teardown" /\ ~errors THEN "ok" ELSE "error"
  /\ Gone({})
  /\ NoFault

Crash ==
  /\ pc \notin {"start", "off"}
  /\ status' = "none"
  /\ Gone(Prefixes)
  /\ Fault

-----------------------------------------------------------------------------
(* The host.                                                               *)

Change == changes < MaxChanges /\ changes' = changes + 1 /\ NoFault

HelperStays == UNCHANGED <<pin, pc, owned, ownedPin, stored, snap, planVars, errors, status, cut>>

\* The kernel installs the connected route unless something holds the prefix.
Attach(l) ==
  /\ Change
  /\ l \notin attached
  /\ attached' = attached \cup {l}
  /\ table' = IF table[l] = "none" THEN Set(table, l, "lan") ELSE table
  /\ HelperStays
  /\ UNCHANGED gateway

Detach(l) ==
  /\ Change
  /\ l \in attached
  /\ attached' = attached \ {l}
  /\ table' = IF table[l] = "lan" THEN Set(table, l, "none") ELSE table
  /\ HelperStays
  /\ UNCHANGED gateway

Roam(g) ==
  /\ Change
  /\ gateway' = g
  /\ HelperStays
  /\ UNCHANGED <<attached, table>>

-----------------------------------------------------------------------------

\* An earlier tunnel may have left entries behind.
Init ==
  /\ attached \in SUBSET Lans
  /\ gateway \in Gateways \cup {NoGateway}
  /\ \E stale \in SUBSET (Dests \ Lans) :
       table = [p \in Prefixes |-> IF p \in attached THEN "lan"
                                   ELSE IF p \in stale THEN "other" ELSE "none"]
  /\ pin = NoGateway
  /\ pc = "start"
  /\ owned = {} /\ ownedPin = NoGateway
  /\ stored = [lans |-> {}, gateway |-> NoGateway] /\ snap = stored
  /\ del = {} /\ delPin = FALSE /\ add = {} /\ addPin = NoGateway /\ ready = NoDest
  /\ errors = FALSE /\ status = "none" /\ cut = {}
  /\ changes = 0 /\ faults = 0

HelperStep ==
  \/ Tick \/ TickDone \/ SetupDone \/ AddPin \/ DeletePin \/ Finish
  \/ \E d \in Dests : Delete(d) \/ Probe(d) \/ Install(d)

HostStep ==
  \/ \E l \in Lans : Attach(l) \/ Detach(l)
  \/ \E g \in Gateways \cup {NoGateway} : Roam(g)

Next == HelperStep \/ HostStep \/ Setup \/ Shutdown \/ Crash

Spec == Init /\ [][Next]_vars

\* The maintenance job runs every three seconds and each command returns.  No failure
\* is owed.
FairSpec == Spec /\ WF_vars(HelperStep /\ NoFault)

-----------------------------------------------------------------------------
(* Properties.                                                             *)

Places == {"start", "setup", "up", "tick", "teardown", "rollback", "off"}

AnyGateway == Gateways \cup {NoGateway}

FingerprintType == [lans : SUBSET Lans, gateway : AnyGateway]

TypeOK ==
  /\ attached \subseteq Lans /\ gateway \in AnyGateway
  /\ table \in [Prefixes -> {"none", "tunnel", "other", "lan"}]
  /\ pin \in AnyGateway /\ ownedPin \in AnyGateway /\ addPin \in AnyGateway
  /\ pc \in Places
  /\ owned \subseteq Dests /\ del \subseteq Dests /\ add \subseteq Dests
  /\ ready \in Dests \cup {NoDest}
  /\ stored \in FingerprintType /\ snap \in FingerprintType
  /\ delPin \in BOOLEAN /\ errors \in BOOLEAN
  /\ status \in {"ok", "error", "none"}
  /\ cut \subseteq Prefixes
  /\ changes \in Nat /\ faults \in Nat

\* Every entry of the tunnel is one that the helper still means to delete, so teardown
\* takes it away ("the source of truth for teardown"), unless a deletion failed.
RoutesTracked ==
  \A d \in Dests \ cut :
    table[d] = "tunnel" => d \in del \/ (d \in owned /\ pc \notin {"teardown", "rollback"})

\* A LAN the host is on keeps its connected route, or has it shadowed by an entry that
\* the helper will still see: removing a tunnel route never leaves the LAN without
\* any, except for a LAN that is joined when teardown has already read the LANs and
\* for failed commands.
LanKept ==
  \A l \in attached \ cut : table[l] = "none" => ready = l

\* Leaving, the tunnel's routes go before the pin: the endpoint is never routed into
\* the tunnel on the way.
PinOutlivesRoutes ==
  [][pin # NoGateway /\ pin' = NoGateway /\ pc \in {"teardown", "rollback"}
     => \A d \in Dests \ cut : table[d] # "tunnel"]_vars

Up == pc \in {"up", "tick"}

\* Roaming: where no command fails, a LAN that lasts gets its prefixes back from the
\* tunnel, and the endpoint is pinned to a gateway that lasts.
NetworkFollowed ==
  /\ \A l \in Lans :
       <>[](Up /\ l \in attached /\ faults = 0)
         => <>[](\A p \in Covers[l] \cup {l} : table[p] # "tunnel")
  /\ \A g \in Gateways :
       <>[](Up /\ NeedsPin /\ gateway = g /\ faults = 0) => <>[](pin = g)

-----------------------------------------------------------------------------
(* What the proofs need beside them.                                       *)

\* What is planned fits the place: a tick deletes only what a connected LAN contains,
\* and the prefix that is examined is one that is still to be added.
PlanShape ==
  /\ pc \in {"start", "setup", "up", "off"} => del = {}
  /\ pc \in {"start", "up", "teardown", "rollback", "off"} => add = {}
  /\ pc = "tick" => del \cap Desired(snap) = {}
  /\ ready \in add \cup {NoDest}
  /\ addPin # NoGateway => ready = NoDest
  /\ \A p \in Prefixes : table[p] = "tunnel" => p \in Dests

\* The inductive invariant of the routes.
RouteInv == TypeOK /\ RoutesTracked /\ LanKept /\ PlanShape
=============================================================================
