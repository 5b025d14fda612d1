------------------------------ MODULE Services ------------------------------
(***************************************************************************)
(* The two launchd services of wgd, the commands that install, restart,    *)
(* reload and remove them, and the session agent that raises the user's    *)
(* automatic connections at login and lowers them at logout.               *)
(*                                                                         *)
(* The privileged service is socket activated: a request starts it, a      *)
(* bootout or kickstart kills it without warning, and tunnels outlive it.  *)
(* A request is sent and then applied; what happens in between to locks,   *)
(* helpers and markers is the subject of ConnectionDaemon and              *)
(* HelperLifecycle.  launchd itself is external: its rules are the guards  *)
(* of bootstrap, bootout, KeepAlive, login and reboot.                     *)
(***************************************************************************)
EXTENDS Naturals, Sequences

CONSTANTS
  Mine,          \* connections of the user
  Globals,       \* connections of nobody in particular
  Automatic,     \* connections whose start mode is Automatic
  Commands,      \* administrative commands that may be given
  UserCommands,  \* bound: connects and disconnects by the user
  AdminCommands, \* bound: administrative commands
  Faults,        \* bound: failed steps, dropped requests, kills, reboots
  None

ASSUME ServicesAssumption ==
  /\ Mine \cap Globals = {} /\ Automatic \subseteq Mine \cup Globals
  /\ Commands \subseteq {"install", "uninstall", "restart", "reload", "agent-install",
                          "agent-uninstall"}
  /\ None \notin [op : {"connect", "reconcile", "disconnect", "teardown"}, conn : Mine \cup Globals]
  /\ UserCommands \in Nat /\ AdminCommands \in Nat /\ Faults \in Nat

VARIABLES
  tunnel,            \* of each connection: "down", "up", or "stray" (up without a marker)
  user_disconnected, \* connections whose record has the flag
  by,                \* history: who raised the tunnel; "lost" once that actor met an error
  sys,               \* launchd's view of the privileged service
  serving,           \* a daemon process is running
  booting,           \* its boot thread
  reconciled,        \* the boot marker is of this boot
  req,               \* the request each actor has at the daemon
  todo,              \* connections each actor's listing left it to handle
  gui,               \* launchd's view of the session agent
  session,           \* the user is logged in
  agent,             \* program counter of the agent process
  term,              \* a SIGTERM is pending for it
  cmd,               \* the administrative command in progress, or the last one
  plan,              \* the steps it still has to take
  outcome,           \* how the last command ended
  template,          \* the plist template of an install
  hurt,              \* history: a fault hit a step of this command
  unheard,           \* history: a listing of this command found no service
  standing,          \* history: tunnels up since this uninstall began
  declined,          \* history: connections that the user asked to disconnect
  used, given, faults \* bound counters

store == <<tunnel, user_disconnected, by, standing>>
daemon == <<sys, serving, booting, reconciled>>
rpc == <<req, todo>>
agentvars == <<gui, session, agent, term>>
admin == <<cmd, plan, outcome, template, hurt, unheard>>
bounds == <<declined, used, given, faults>>
vars == <<store, daemon, rpc, agentvars, admin, bounds>>

Conns == Mine \cup Globals
Actors == {"user", "agent", "admin", "boot", "orphan"}
Ops == {"connect", "reconcile", "disconnect", "teardown"}
Label == [loaded : BOOLEAN, disabled : BOOLEAN, plist : BOOLEAN]
Templates == {"good", "no-placeholder", "no-label"}

\* cmd_install, bootstrap
InstallSteps == <<"prepare", "plist", "bootout", "enable", "bootstrap">>

\* session_agent::cmd_install
AgentSteps == <<"agent-plist", "agent-bootout", "agent-exit", "agent-enable", "agent-bootstrap">>

\* Mutant: reload restarts the agent first and lowers the tunnels afterwards.
ProgramAgentFirst(c) ==
  CASE c = "install" -> InstallSteps
    [] c = "reload" -> InstallSteps \o AgentSteps \o <<"list-mine", "sweep">>
    [] c = "uninstall" ->
         <<"list-all", "sweep", "list-all", "sweep", "bootout", "disable", "remove-plist">>
    [] c = "restart" -> <<"kickstart">>
    [] c = "agent-install" -> AgentSteps
    [] c = "agent-uninstall" -> <<"agent-bootout", "agent-exit", "agent-remove">>

Program(c) ==
  CASE c = "install" -> InstallSteps
    [] c = "reload" -> InstallSteps \o <<"list-mine", "sweep">> \o AgentSteps
    [] c = "uninstall" ->
         <<"list-all", "sweep", "list-all", "sweep", "bootout", "disable", "remove-plist">>
    [] c = "restart" -> <<"kickstart">>
    [] c = "agent-install" -> AgentSteps
    [] c = "agent-uninstall" -> <<"agent-bootout", "agent-exit", "agent-remove">>

TypeOK ==
  /\ tunnel \in [Conns -> {"down", "up", "stray"}] /\ user_disconnected \subseteq Conns
  /\ by \in [Conns -> {"none", "agent", "user", "boot", "lost"}] /\ standing \subseteq Conns
  /\ sys \in Label /\ gui \in Label
  /\ serving \in BOOLEAN /\ reconciled \in BOOLEAN
  /\ booting \in {"no", "list", "run", "failed"}
  /\ req \in [Actors -> {None} \cup [op : Ops, conn : Conns]]
  /\ todo \in [Actors -> SUBSET Conns]
  /\ session \in BOOLEAN /\ term \in BOOLEAN
  /\ agent \in {"off", "start", "list", "connect", "wait", "list-down", "disconnect"}
  /\ outcome \in {"none", "ok", "refused", "failed", "interrupted"} /\ template \in Templates
  /\ hurt \in BOOLEAN /\ unheard \in BOOLEAN
  /\ declined \subseteq Mine
  /\ used \in 0 .. UserCommands /\ given \in 0 .. AdminCommands /\ faults \in 0 .. Faults

\* A machine with both services installed and the user logging in, or with neither.
Init ==
  /\ tunnel = [c \in Conns |-> "down"] /\ user_disconnected = {}
  /\ by = [c \in Conns |-> "none"] /\ standing = {}
  /\ \E installed \in BOOLEAN :
       /\ sys = [loaded |-> installed, disabled |-> FALSE, plist |-> installed]
       /\ gui = [loaded |-> installed, disabled |-> FALSE, plist |-> installed]
  /\ serving = FALSE /\ booting = "no" /\ reconciled = FALSE
  /\ req = [a \in Actors |-> None] /\ todo = [a \in Actors |-> {}]
  /\ session = TRUE /\ agent = "off" /\ term = FALSE
  /\ cmd = None /\ plan = <<>> /\ outcome = "none" /\ template = "good"
  /\ hurt = FALSE /\ unheard = FALSE
  /\ declined = {} /\ used = 0 /\ given = 0 /\ faults = 0

-----------------------------------------------------------------------------
(* Requests to the privileged service. *)

Fault == faults < Faults /\ faults' = faults + 1 /\ UNCHANGED <<declined, used, given>>

\* launchd starts the daemon for a connection to its socket; a daemon that finds no boot
\* marker of this boot starts its boot thread.
Wake ==
  /\ serving' = TRUE
  /\ booting' = IF serving \/ reconciled THEN booting ELSE "list"
  /\ UNCHANGED <<sys, reconciled>>

Ask(a, op, c) == sys.loaded /\ Wake /\ req' = [req EXCEPT ![a] = [op |-> op, conn |-> c]]

\* ListConnections: connected is told by the marker.
Connected == {c \in Conns : tunnel[c] = "up"}

\* resolve_connect_intent and mark_user_disconnected: only the user's own requests
\* change the flag.
Intent(r) ==
  CASE r.op = "connect" -> user_disconnected \ {r.conn}
    [] r.op = "disconnect" -> user_disconnected \cup {r.conn}
    [] OTHER -> user_disconnected

Lower(cs) ==
  /\ tunnel' = [c \in Conns |-> IF c \in cs THEN "down" ELSE tunnel[c]]
  /\ by' = [c \in Conns |-> IF c \in cs THEN "none" ELSE by[c]]
  /\ standing' = standing \ cs

\* connect leaves what is up alone and refuses to adopt a stray; a reconciliation
\* backs off from a user's disconnect; a disconnect needs no marker.
Effect(a, r) ==
  IF r.op \in {"disconnect", "teardown"}
    THEN Lower({r.conn})
    ELSE IF tunnel[r.conn] = "down" /\ (r.op = "connect" \/ r.conn \notin user_disconnected)
      THEN /\ tunnel' = [tunnel EXCEPT ![r.conn] = "up"]
           /\ by' = [by EXCEPT ![r.conn] = IF a \in {"agent", "user", "boot"} THEN a ELSE "lost"]
           /\ UNCHANGED standing
      ELSE UNCHANGED <<tunnel, by, standing>>

Answered(a) == req' = [req EXCEPT ![a] = None]

Apply(a) ==
  /\ req[a] # None
  /\ user_disconnected' = Intent(req[a])
  /\ Effect(a, req[a]) /\ Answered(a)
  /\ booting' = IF a = "boot" /\ tunnel[req[a].conn] = "stray" THEN "failed" ELSE booting
  /\ UNCHANGED <<sys, serving, reconciled, todo, agentvars, admin, bounds>>

\* From here on the agent does not know what became of these connections.
Lost(cs) == [c \in Conns |-> IF c \in cs /\ by[c] = "agent" THEN "lost" ELSE by[c]]

\* The tunnel could not be raised or lowered; the intent stays recorded.
ApplyFails(a) ==
  /\ req[a] # None /\ Fault
  /\ user_disconnected' = Intent(req[a])
  /\ by' = IF a = "agent" THEN Lost({req[a].conn}) ELSE by
  /\ booting' = IF a = "boot" THEN "failed" ELSE booting
  /\ hurt' = (hurt \/ a = "admin")
  /\ Answered(a)
  /\ UNCHANGED <<tunnel, standing, sys, serving, reconciled, todo, agentvars, cmd, plan, outcome,
                 template, unheard>>

\* Client::deadline: the client is told nothing, its worker goes on.
Dropped(a) ==
  /\ a \in {"user", "agent", "admin"} /\ req[a] # None /\ req["orphan"] = None /\ Fault
  /\ req' = [req EXCEPT ![a] = None, !["orphan"] = req[a]]
  /\ by' = IF a = "agent" THEN Lost({req[a].conn}) ELSE by
  /\ hurt' = (hurt \/ a = "admin")
  /\ UNCHANGED <<tunnel, user_disconnected, standing, daemon, todo, agentvars, cmd, plan,
                 outcome, template, unheard>>

\* What a worker killed with the daemon leaves: nothing done, all done, or a helper that
\* came up without a marker.
Cut(r) ==
  IF r.op \in {"disconnect", "teardown"} THEN {"down", tunnel[r.conn]}
  ELSE IF tunnel[r.conn] = "down" /\ (r.op = "connect" \/ r.conn \notin user_disconnected)
    THEN {"down", "up", "stray"} ELSE {tunnel[r.conn]}

\* The daemon dies with its requests: no shutdown path of its own.
Killed ==
  LET busy == {a \in Actors : req[a] # None}
      cut == {req[a].conn : a \in busy}
  IN  /\ \E left \in [Conns -> {"down", "up", "stray"}] :
           /\ \A c \in Conns :
                left[c] \in {tunnel[c]} \cup UNION {Cut(req[a]) : a \in {x \in busy : req[x].conn = c}}
           /\ tunnel' = left
           /\ by' = [c \in Conns |-> IF c \notin cut THEN by[c]
                                     ELSE IF left[c] = "down" THEN "none" ELSE "lost"]
           /\ standing' = {c \in standing : left[c] # "down"}
      /\ user_disconnected' \in {user_disconnected}
                                  \cup {Intent(req[a]) : a \in busy \cap {"user", "orphan"}}
      /\ req' = [a \in Actors |-> None]
      /\ todo' = [todo EXCEPT !["boot"] = {}]

-----------------------------------------------------------------------------
(* The daemon's boot thread, idle exit and crash. *)

BootList ==
  /\ booting = "list"
  /\ todo' = [todo EXCEPT !["boot"] = ((Globals \cap Automatic) \ user_disconnected) \ Connected]
  /\ booting' = "run"
  /\ UNCHANGED <<store, sys, serving, reconciled, req, agentvars, admin, bounds>>

BootNext(c) ==
  /\ booting \in {"run", "failed"} /\ req["boot"] = None /\ c \in todo["boot"]
  /\ req' = [req EXCEPT !["boot"] = [op |-> "reconcile", conn |-> c]]
  /\ todo' = [todo EXCEPT !["boot"] = @ \ {c}]
  /\ UNCHANGED <<store, daemon, agentvars, admin, bounds>>

BootEnd ==
  /\ booting \in {"run", "failed"} /\ req["boot"] = None /\ todo["boot"] = {}
  /\ reconciled' = (booting = "run")
  /\ booting' = "no"
  /\ UNCHANGED <<store, sys, serving, rpc, agentvars, admin, bounds>>

IdleExit ==
  /\ serving /\ booting = "no" /\ \A a \in Actors : req[a] = None
  /\ serving' = FALSE
  /\ UNCHANGED <<store, sys, booting, reconciled, rpc, agentvars, admin, bounds>>

DaemonCrash ==
  /\ serving /\ Fault /\ Killed
  /\ serving' = FALSE /\ booting' = "no"
  /\ hurt' = (hurt \/ req["admin"] # None)
  /\ UNCHANGED <<sys, reconciled, agentvars, cmd, plan, outcome, template, unheard>>

-----------------------------------------------------------------------------
(* The user: wgd connection connect and disconnect, of connections of theirs. *)

UserAsks(op, c) ==
  /\ session /\ used < UserCommands /\ req["user"] = None
  /\ Ask("user", op, c)
  /\ used' = used + 1
  /\ declined' = IF op = "disconnect" THEN declined \cup {c} ELSE declined
  /\ UNCHANGED <<store, todo, agentvars, admin, given, faults>>

-----------------------------------------------------------------------------
(* The session agent. *)

\* RunAtLoad and KeepAlive.
AgentStart ==
  /\ gui.loaded /\ session /\ agent = "off"
  /\ agent' = "start" /\ term' = FALSE
  /\ UNCHANGED <<store, daemon, rpc, gui, session, admin, bounds>>

\* block_sigterm comes first.
AgentBlock ==
  /\ agent = "start"
  /\ agent' = "list"
  /\ UNCHANGED <<store, daemon, rpc, gui, session, term, admin, bounds>>

connect_candidates == ((Mine \cap Automatic) \ Connected) \ user_disconnected

\* reconcile_connect_mine: a failed listing only skips the reconciliation.
AgentList ==
  /\ agent = "list"
  /\ IF sys.loaded
       THEN /\ Wake
            /\ todo' = [todo EXCEPT !["agent"] = connect_candidates]
            /\ agent' = "connect"
       ELSE agent' = "wait" /\ UNCHANGED <<daemon, todo>>
  /\ UNCHANGED <<store, req, gui, session, term, admin, bounds>>

\* The next connection of the listing; an unreachable service fails it.
AgentAsks(where, op, c) ==
  /\ agent = where /\ req["agent"] = None /\ c \in todo["agent"]
  /\ todo' = [todo EXCEPT !["agent"] = @ \ {c}]
  /\ \/ Ask("agent", op, c) /\ UNCHANGED by
     \/ ~sys.loaded /\ by' = Lost({c}) /\ UNCHANGED <<daemon, req>>
  /\ UNCHANGED <<tunnel, user_disconnected, standing, agentvars, admin, bounds>>

AgentConnect(c) == AgentAsks("connect", "reconcile", c)

AgentConnected ==
  /\ agent = "connect" /\ req["agent"] = None /\ todo["agent"] = {}
  /\ agent' = "wait"
  /\ UNCHANGED <<store, daemon, rpc, gui, session, term, admin, bounds>>

\* wait_for_pending_sigterm
AgentSigterm ==
  /\ agent = "wait" /\ term
  /\ agent' = "list-down" /\ term' = FALSE
  /\ UNCHANGED <<store, daemon, rpc, gui, session, admin, bounds>>

\* reconcile_disconnect_mine
AgentDownList ==
  /\ agent = "list-down"
  /\ IF sys.loaded
       THEN /\ Wake
            /\ todo' = [todo EXCEPT !["agent"] = Mine \cap Connected]
            /\ agent' = "disconnect"
            /\ UNCHANGED by
       ELSE agent' = "off" /\ by' = Lost(Conns) /\ UNCHANGED <<daemon, todo>>
  /\ UNCHANGED <<tunnel, user_disconnected, standing, req, gui, session, term, admin, bounds>>

AgentDisconnect(c) == AgentAsks("disconnect", "teardown", c)

AgentExit ==
  /\ agent = "disconnect" /\ req["agent"] = None /\ todo["agent"] = {}
  /\ agent' = "off"
  /\ UNCHANGED <<store, daemon, rpc, gui, session, term, admin, bounds>>

\* SIGKILL: a crash, or ExitTimeOut.  Its request goes on without it.
AgentKilled ==
  /\ agent # "off" /\ req["orphan"] = None /\ Fault
  /\ agent' = "off"
  /\ by' = Lost(Conns)
  /\ req' = [req EXCEPT !["agent"] = None, !["orphan"] = req["agent"]]
  /\ todo' = [todo EXCEPT !["agent"] = {}]
  /\ UNCHANGED <<tunnel, user_disconnected, standing, daemon, gui, session, term, admin>>

\* Mutant: the agent blocks SIGTERM only once it has reconciled.
UnloadAgentUnblocked(after) ==
  /\ gui' = after
  /\ IF agent \in {"start", "list", "connect"}
       THEN agent' = "off" /\ UNCHANGED term
       ELSE UNCHANGED agent /\ term' = (agent # "off")

\* launchctl bootout, logout: launchd sends SIGTERM and does not restart the job.  It is
\* fatal before block_sigterm, pending after.
UnloadAgent(after) ==
  /\ gui' = after
  /\ IF agent = "start"
       THEN agent' = "off" /\ UNCHANGED term
       ELSE UNCHANGED agent /\ term' = (agent # "off")

Logout ==
  /\ session /\ plan = <<>> /\ gui.loaded /\ used < UserCommands
  /\ used' = used + 1
  /\ UnloadAgent([gui EXCEPT !.loaded = FALSE]) /\ session' = FALSE
  /\ UNCHANGED <<store, daemon, rpc, admin, declined, given, faults>>

Login ==
  /\ ~session /\ agent = "off"
  /\ session' = TRUE
  /\ gui' = [gui EXCEPT !.loaded = gui.plist /\ ~gui.disabled]
  /\ UNCHANGED <<store, daemon, rpc, agent, term, admin, bounds>>

\* The agent is switched off under Login Items.
SwitchedOff ==
  /\ session /\ plan = <<>> /\ gui.loaded /\ used < UserCommands
  /\ used' = used + 1
  /\ UnloadAgent([gui EXCEPT !.loaded = FALSE, !.disabled = TRUE]) /\ UNCHANGED session
  /\ UNCHANGED <<store, daemon, rpc, admin, declined, given, faults>>

-----------------------------------------------------------------------------
(* Administrative commands. *)

\* wgd launchd install | uninstall | restart | reload | agent install | agent uninstall.
\* install examines the template before it touches anything.
Give(c, t) ==
  /\ session /\ plan = <<>> /\ given < AdminCommands /\ c \in Commands
  /\ t = "good" \/ c = "install"
  /\ given' = given + 1
  /\ cmd' = c /\ template' = t /\ hurt' = FALSE /\ unheard' = FALSE
  /\ standing' = IF c = "uninstall" THEN Connected ELSE {}
  /\ IF t = "no-placeholder"
       THEN plan' = <<>> /\ outcome' = "refused"
       ELSE plan' = Program(c) /\ outcome' = "none"
  /\ UNCHANGED <<tunnel, user_disconnected, by, daemon, rpc, agentvars, declined, used, faults>>

At(step) == plan # <<>> /\ Head(plan) = step

Proceed ==
  /\ plan' = Tail(plan)
  /\ outcome' = IF Len(plan) = 1 THEN "ok" ELSE "none"
  /\ UNCHANGED <<cmd, template>>

End(how) == plan' = <<>> /\ outcome' = how /\ UNCHANGED <<cmd, template>>

\* The binary is copied, group and directories made, the authorization right registered:
\* one step, as nothing here reads them and each is safe to repeat.
Prepare ==
  /\ At("prepare")
  /\ Proceed
  /\ UNCHANGED <<store, daemon, rpc, agentvars, hurt, unheard, bounds>>

\* Mutant: the rendered plist is not looked at.
WritePlistUnchecked ==
  /\ At("plist")
  /\ Proceed
  /\ sys' = [sys EXCEPT !.plist = TRUE]
  /\ UNCHANGED <<store, serving, booting, reconciled, rpc, agentvars, hurt, unheard, bounds>>

\* render_plist_from refuses what lost its label; write_plist renames into place.
WritePlist ==
  /\ At("plist")
  /\ IF template = "good"
       THEN Proceed /\ sys' = [sys EXCEPT !.plist = TRUE]
       ELSE End("refused") /\ UNCHANGED sys
  /\ UNCHANGED <<store, serving, booting, reconciled, rpc, agentvars, hurt, unheard, bounds>>

\* A checked step fails: the command ends there.
CheckedSteps ==
  {"prepare", "plist", "enable", "bootstrap", "kickstart", "list-mine", "remove-plist",
   "agent-plist", "agent-enable", "agent-bootstrap", "agent-remove"}

StepFails ==
  /\ \E step \in CheckedSteps : At(step)
  /\ Fault /\ End("failed")
  /\ hurt' = TRUE
  /\ UNCHANGED <<store, daemon, rpc, agentvars, unheard>>

\* A bootout or disable that fails goes unnoticed.
IgnoredFails ==
  /\ \E step \in {"bootout", "disable", "agent-bootout"} : At(step)
  /\ Fault
  /\ plan' = IF At("agent-bootout") THEN Tail(Tail(plan)) ELSE Tail(plan)
  /\ hurt' = TRUE
  /\ UNCHANGED <<store, daemon, rpc, agentvars, cmd, outcome, template, unheard>>

\* Interrupted at the terminal.
Interrupted ==
  /\ plan # <<>> /\ req["admin"] = None /\ Fault
  /\ plan' = <<>> /\ outcome' = "interrupted" /\ hurt' = TRUE
  /\ todo' = [todo EXCEPT !["admin"] = {}]
  /\ UNCHANGED <<store, daemon, req, agentvars, cmd, template, unheard>>

\* Killing a daemon that does not run leaves everything as it is.
Stop ==
  IF serving
    THEN Killed /\ serving' = FALSE /\ booting' = "no"
    ELSE UNCHANGED <<store, rpc, serving, booting>>

Bootout ==
  /\ At("bootout")
  /\ Proceed /\ Stop
  /\ sys' = [sys EXCEPT !.loaded = FALSE]
  /\ UNCHANGED <<reconciled, agentvars, hurt, unheard, bounds>>

\* Mutant: a stale "disabled" override stays.
EnableNothing ==
  /\ At("enable")
  /\ Proceed
  /\ UNCHANGED <<store, daemon, rpc, agentvars, hurt, unheard, bounds>>

Enable ==
  /\ At("enable")
  /\ Proceed
  /\ sys' = [sys EXCEPT !.disabled = FALSE]
  /\ UNCHANGED <<store, serving, booting, reconciled, rpc, agentvars, hurt, unheard, bounds>>

\* launchd refuses a disabled label and one that is already loaded.
Bootable(label) == label.plist /\ ~label.disabled /\ ~label.loaded

Bootstrap ==
  /\ At("bootstrap")
  /\ IF Bootable(sys)
       THEN Proceed /\ sys' = [sys EXCEPT !.loaded = TRUE]
       ELSE End("failed") /\ UNCHANGED sys
  /\ UNCHANGED <<store, serving, booting, reconciled, rpc, agentvars, hurt, unheard, bounds>>

Disable ==
  /\ At("disable")
  /\ Proceed
  /\ sys' = [sys EXCEPT !.disabled = TRUE]
  /\ UNCHANGED <<store, serving, booting, reconciled, rpc, agentvars, hurt, unheard, bounds>>

RemovePlist ==
  /\ At("remove-plist")
  /\ Proceed
  /\ sys' = [sys EXCEPT !.plist = FALSE]
  /\ UNCHANGED <<store, serving, booting, reconciled, rpc, agentvars, hurt, unheard, bounds>>

\* launchctl kickstart -k
Kickstart ==
  /\ At("kickstart")
  /\ IF sys.loaded
       THEN /\ Proceed
            /\ IF serving THEN Killed ELSE UNCHANGED <<store, rpc>>
            /\ serving' = TRUE
            /\ booting' = IF reconciled THEN "no" ELSE "list"
       ELSE End("refused") /\ UNCHANGED <<store, rpc, serving, booting>>
  /\ UNCHANGED <<sys, reconciled, agentvars, hurt, unheard, bounds>>

\* disconnect_all_mine: an unreachable service ends the reload.
ListMine ==
  /\ At("list-mine")
  /\ IF sys.loaded
       THEN Wake /\ Proceed /\ todo' = [todo EXCEPT !["admin"] = Mine \cap Connected]
       ELSE End("failed") /\ UNCHANGED <<daemon, todo>>
  /\ UNCHANGED <<store, req, agentvars, hurt, unheard, bounds>>

\* Mutant: the sweep before an uninstall lists what the caller owns.
ListAllMine ==
  /\ At("list-all") /\ Proceed
  /\ IF sys.loaded
       THEN Wake /\ todo' = [todo EXCEPT !["admin"] = Mine \cap Connected] /\ UNCHANGED unheard
       ELSE unheard' = TRUE /\ UNCHANGED <<daemon, todo>>
  /\ UNCHANGED <<store, req, agentvars, hurt, bounds>>

\* disconnect_all_connections_once: an unreachable service is only warned of.
ListAll ==
  /\ At("list-all") /\ Proceed
  /\ IF sys.loaded
       THEN Wake /\ todo' = [todo EXCEPT !["admin"] = Connected] /\ UNCHANGED unheard
       ELSE unheard' = TRUE /\ UNCHANGED <<daemon, todo>>
  /\ UNCHANGED <<store, req, agentvars, hurt, bounds>>

Sweep(c) ==
  /\ At("sweep") /\ req["admin"] = None /\ c \in todo["admin"]
  /\ Ask("admin", "teardown", c)
  /\ todo' = [todo EXCEPT !["admin"] = @ \ {c}]
  /\ UNCHANGED <<store, agentvars, admin, bounds>>

Swept ==
  /\ At("sweep") /\ req["admin"] = None /\ todo["admin"] = {}
  /\ Proceed
  /\ UNCHANGED <<store, daemon, rpc, agentvars, hurt, unheard, bounds>>

\* agent install without --force is refused when a plist is there.
AgentPlist ==
  /\ At("agent-plist")
  /\ \/ Proceed /\ gui' = [gui EXCEPT !.plist = TRUE]
     \/ cmd = "agent-install" /\ gui.plist /\ End("refused") /\ UNCHANGED gui
  /\ UNCHANGED <<store, daemon, rpc, session, agent, term, hurt, unheard, bounds>>

AgentBootout ==
  /\ At("agent-bootout")
  /\ Proceed
  /\ IF gui.loaded THEN UnloadAgent([gui EXCEPT !.loaded = FALSE])
                   ELSE UNCHANGED <<gui, agent, term>>
  /\ UNCHANGED <<store, daemon, rpc, session, hurt, unheard, bounds>>

\* bootout returns when the process has exited.
AgentGone ==
  /\ At("agent-exit") /\ agent = "off"
  /\ Proceed
  /\ UNCHANGED <<store, daemon, rpc, agentvars, hurt, unheard, bounds>>

AgentEnable ==
  /\ At("agent-enable")
  /\ Proceed
  /\ gui' = [gui EXCEPT !.disabled = FALSE]
  /\ UNCHANGED <<store, daemon, rpc, session, agent, term, hurt, unheard, bounds>>

AgentBootstrap ==
  /\ At("agent-bootstrap")
  /\ IF Bootable(gui)
       THEN Proceed /\ gui' = [gui EXCEPT !.loaded = TRUE]
       ELSE End("failed") /\ UNCHANGED gui
  /\ UNCHANGED <<store, daemon, rpc, session, agent, term, hurt, unheard, bounds>>

AgentRemove ==
  /\ At("agent-remove")
  /\ Proceed
  /\ gui' = [gui EXCEPT !.plist = FALSE]
  /\ UNCHANGED <<store, daemon, rpc, session, agent, term, hurt, unheard, bounds>>

\* Tunnels and processes are gone, records and plists stay.
Reboot ==
  /\ Fault
  /\ Lower(Conns)
  /\ sys' = [sys EXCEPT !.loaded = sys.plist /\ ~sys.disabled]
  /\ gui' = [gui EXCEPT !.loaded = FALSE] /\ session' = FALSE
  /\ serving' = FALSE /\ booting' = "no" /\ reconciled' = FALSE
  /\ agent' = "off" /\ term' = FALSE
  /\ req' = [a \in Actors |-> None] /\ todo' = [a \in Actors |-> {}]
  /\ plan' = <<>> /\ outcome' = IF plan = <<>> THEN outcome ELSE "interrupted"
  /\ UNCHANGED <<user_disconnected, cmd, template, hurt, unheard>>

-----------------------------------------------------------------------------

DaemonStep ==
  \/ \E a \in Actors : Apply(a)
  \/ BootList \/ (\E c \in Conns : BootNext(c)) \/ BootEnd

AgentStep ==
  \/ AgentStart \/ AgentBlock \/ AgentList \/ AgentConnected \/ AgentSigterm \/ AgentDownList
  \/ AgentExit \/ \E c \in Conns : AgentConnect(c) \/ AgentDisconnect(c)

AdminStep ==
  \/ Prepare \/ WritePlist \/ Bootout \/ Enable \/ Bootstrap \/ Disable \/ RemovePlist
  \/ Kickstart \/ ListMine \/ ListAll \/ (\E c \in Conns : Sweep(c)) \/ Swept
  \/ AgentPlist \/ AgentBootout \/ AgentGone \/ AgentEnable \/ AgentBootstrap \/ AgentRemove

Next ==
  \/ DaemonStep \/ AgentStep \/ AdminStep
  \/ IdleExit \/ DaemonCrash \/ AgentKilled \/ StepFails \/ IgnoredFails \/ Interrupted \/ Reboot
  \/ Logout \/ Login \/ SwitchedOff
  \/ \E a \in Actors : ApplyFails(a) \/ Dropped(a)
  \/ \E op \in {"connect", "disconnect"}, c \in Mine : UserAsks(op, c)
  \/ \E c \in Commands, t \in Templates : Give(c, t)

Spec == Init /\ [][Next]_vars

\* The daemon's threads, the agent and a command in progress run when they can; users,
\* launchd's idle exit and faults need not.
FairSpec == Spec /\ WF_vars(DaemonStep) /\ WF_vars(AgentStep) /\ WF_vars(AdminStep)

-----------------------------------------------------------------------------
(* Properties. *)

\* An agent that was told to go leaves no tunnel that it raised, at whatever point of its
\* start the SIGTERM came: only what an error or a kill took out of its hands may stay.
AgentLeavesNothing ==
  (agent = "off" /\ ~gui.loaded) => \A c \in Conns : by[c] # "agent"

\* install, reload and agent install fail only by a fault in that very run: whatever
\* earlier commands, failures, interruptions and reboots left (disabled labels, missing
\* plists, loaded jobs) they cope with.
InstallRecovers == outcome = "failed" => hurt

\* No tunnel stays up through an uninstall whose sweeps reached the daemon.
UninstallSweeps ==
  (cmd = "uninstall" /\ outcome = "ok" /\ ~hurt /\ ~unheard) => standing = {}

\* An install with a template that cannot be rendered never touches the service that is
\* installed.
BadTemplateHarmless ==
  [][plan # <<>> /\ template # "good" /\ ~Reboot => sys' = sys]_vars

\* After a reload, every automatic connection of the user comes up again, unless the
\* user disconnected it or a connect was cut off so that its helper runs unmarked.
ReloadRestores ==
  \A c \in Mine \cap Automatic :
    (cmd = "reload" /\ outcome = "ok")
      ~> \/ tunnel[c] \in {"up", "stray"} \/ c \in declined
         \/ plan # <<>> \/ ~session \/ gui.disabled \/ faults > 0
=============================================================================
