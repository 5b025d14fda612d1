--------------------------- MODULE ServicesProofs ---------------------------
(***************************************************************************)
(* Proofs about the two launchd services, for any connections, commands    *)
(* and faults: the agent leaves no tunnel of its own behind, installs fail *)
(* only by a fault of their own, an uninstall sweeps every tunnel, and a   *)
(* template that cannot be rendered touches nothing.                       *)
(*                                                                         *)
(* A command in progress is what is left of its program, so its place is   *)
(* a position in it; what the earlier steps did to launchd's labels is     *)
(* then an invariant by position.                                          *)
(***************************************************************************)
EXTENDS Services, TLAPS

CommandNames == {"install", "uninstall", "restart", "reload", "agent-install", "agent-uninstall"}

\* The steps that programs are made of.
Steps ==
  {"prepare", "plist", "bootout", "enable", "bootstrap", "list-mine", "list-all", "sweep",
   "disable", "remove-plist", "kickstart", "agent-plist", "agent-bootout", "agent-exit",
   "agent-enable", "agent-bootstrap", "agent-remove"}

\* The length of each command's program.
Size(c) ==
  CASE c = "install" -> 5 [] c = "reload" -> 12 [] c = "uninstall" -> 7
    [] c = "restart" -> 1 [] c = "agent-install" -> 5 [] c = "agent-uninstall" -> 3

\* The position of the step that the command is at.
Pos == (Size(cmd) - Len(plan)) + 1

\* The steps left are a suffix of the command's program; a command has the user's session.
Followed ==
  /\ plan \in Seq(Steps)
  /\ plan # <<>> =>
       /\ cmd \in CommandNames /\ Len(plan) <= Size(cmd) /\ session
       /\ \A i \in 1 .. Len(plan) : plan[i] = Program(cmd)[(Size(cmd) - Len(plan)) + i]

\* What the agent raised is up and the user's, and when the agent lowers tunnels each one
\* is still on its list or in its request.
AgentInv ==
  /\ req["agent"] # None =>
       /\ agent \in {"connect", "disconnect"} /\ req["agent"].conn \in Mine
       /\ req["agent"].op = IF agent = "connect" THEN "reconcile" ELSE "teardown"
  /\ todo["agent"] \subseteq Mine
  /\ \A c \in Conns : by[c] = "agent" =>
       /\ tunnel[c] = "up" /\ c \in Mine
       /\ agent \notin {"off", "start", "list"}
       /\ agent = "disconnect" => c \in todo["agent"]
                                    \/ (req["agent"] # None /\ req["agent"].conn = c)

\* The position at which the agent's steps begin.
AgentFrom == IF cmd = "reload" THEN 7 ELSE 0

\* The labels of launchd by the position of an install that met no fault.
InstallInv ==
  /\ outcome = "failed" => hurt
  /\ plan # <<>> /\ ~hurt /\ cmd \in {"install", "reload"} =>
       /\ Pos > 2 => sys.plist
       /\ Pos \in 4 .. 5 => ~sys.loaded
       /\ Pos > 4 => ~sys.disabled
       /\ Pos > 5 => sys.loaded
  /\ plan # <<>> /\ ~hurt /\ cmd \in {"agent-install", "reload"} =>
       /\ Pos > AgentFrom + 1 => gui.plist
       /\ Pos \in (AgentFrom + 3) .. (AgentFrom + 5) => ~gui.loaded
       /\ Pos > AgentFrom + 4 => ~gui.disabled

\* The tunnels that an uninstall has to lower by its position.
SweepInv ==
  /\ standing \subseteq Connected
  /\ req["admin"] # None => req["admin"].op = "teardown"
  /\ cmd = "uninstall" /\ ~hurt /\ ~unheard =>
       /\ plan # <<>> /\ Pos = 2 =>
            \A c \in standing : c \in todo["admin"]
                                  \/ (req["admin"] # None /\ req["admin"].conn = c)
       /\ plan # <<>> /\ Pos > 2 => standing = {}
       /\ outcome = "ok" => standing = {}

\* A template that is no good is met before the first step that touches launchd.
TemplateInv == plan # <<>> /\ template # "good" => cmd = "install" /\ Pos <= 2

USE ServicesAssumption
USE DEF vars, store, daemon, rpc, agentvars, admin, bounds, Actors, Conns, Ops, Label

-----------------------------------------------------------------------------
(* The programs of the commands. *)

\* The steps of each program by position.
LEMMA Programs ==
  /\ Program("install")[1] = "prepare" /\ Program("install")[2] = "plist"
  /\ Program("install")[3] = "bootout" /\ Program("install")[4] = "enable"
  /\ Program("install")[5] = "bootstrap"
  /\ Program("restart")[1] = "kickstart"
  /\ Program("uninstall")[1] = "list-all" /\ Program("uninstall")[2] = "sweep"
  /\ Program("uninstall")[3] = "list-all" /\ Program("uninstall")[4] = "sweep"
  /\ Program("uninstall")[5] = "bootout" /\ Program("uninstall")[6] = "disable"
  /\ Program("uninstall")[7] = "remove-plist"
  /\ Program("agent-install")[1] = "agent-plist" /\ Program("agent-install")[2] = "agent-bootout"
  /\ Program("agent-install")[3] = "agent-exit" /\ Program("agent-install")[4] = "agent-enable"
  /\ Program("agent-install")[5] = "agent-bootstrap"
  /\ Program("agent-uninstall")[1] = "agent-bootout"
  /\ Program("agent-uninstall")[2] = "agent-exit" /\ Program("agent-uninstall")[3] = "agent-remove"
BY DEF Program, InstallSteps, AgentSteps

\* reload is an install, a sweep of the user's tunnels and an agent install.
LEMMA ReloadProgram ==
  /\ Program("reload")[1] = "prepare" /\ Program("reload")[2] = "plist"
  /\ Program("reload")[3] = "bootout" /\ Program("reload")[4] = "enable"
  /\ Program("reload")[5] = "bootstrap"
  /\ Program("reload")[6] = "list-mine" /\ Program("reload")[7] = "sweep"
  /\ Program("reload")[8] = "agent-plist" /\ Program("reload")[9] = "agent-bootout"
  /\ Program("reload")[10] = "agent-exit" /\ Program("reload")[11] = "agent-enable"
  /\ Program("reload")[12] = "agent-bootstrap"
BY DEF Program, InstallSteps, AgentSteps

\* Two sequences one after the other.
LEMMA Concat ==
  ASSUME NEW S, NEW s \in Seq(S), NEW t \in Seq(S)
  PROVE  s \o t \in Seq(S) /\ Len(s \o t) = Len(s) + Len(t)
OBVIOUS

\* The reload program is as long as its parts.
LEMMA ReloadSize == Program("reload") \in Seq(Steps) /\ Len(Program("reload")) = 12
<1> DEFINE mid == <<"list-mine", "sweep">>
           first == InstallSteps \o mid
           all == first \o AgentSteps
<1>1. InstallSteps \in Seq(Steps) /\ Len(InstallSteps) = 5
  BY DEF InstallSteps, Steps
<1>2. AgentSteps \in Seq(Steps) /\ Len(AgentSteps) = 5
  BY DEF AgentSteps, Steps
<1>3. mid \in Seq(Steps) /\ Len(mid) = 2
  BY DEF Steps
<1>4. Program("reload") = all
  BY DEF Program
<1> HIDE DEF mid
<1>5. first \in Seq(Steps) /\ Len(first) = Len(InstallSteps) + Len(mid)
  BY <1>1, <1>3, Concat
<1> HIDE DEF first
<1>6. all \in Seq(Steps) /\ Len(all) = Len(first) + Len(AgentSteps)
  BY <1>2, <1>5, Concat
<1> HIDE DEF all
<1>7. Len(all) = 12
  BY <1>1, <1>2, <1>3, <1>5, <1>6
<1> QED BY <1>4, <1>6, <1>7

\* A program as long as its size.
LEMMA Sizes ==
  ASSUME NEW c \in CommandNames
  PROVE  Program(c) \in Seq(Steps) /\ Len(Program(c)) = Size(c) /\ Size(c) \in Nat \ {0}
<1>1. CASE c = "install"
  BY <1>1 DEF Program, Size, InstallSteps, AgentSteps, Steps
<1>2. CASE c = "agent-install"
  BY <1>2 DEF Program, Size, InstallSteps, AgentSteps, Steps
<1>3. CASE c = "uninstall"
  BY <1>3 DEF Program, Size, InstallSteps, AgentSteps, Steps
<1>4. CASE c = "restart"
  BY <1>4 DEF Program, Size, InstallSteps, AgentSteps, Steps
<1>5. CASE c = "agent-uninstall"
  BY <1>5 DEF Program, Size, InstallSteps, AgentSteps, Steps
<1>6. CASE c = "reload"
  BY <1>6, ReloadSize DEF Size
<1> QED BY <1>1, <1>2, <1>3, <1>4, <1>5, <1>6 DEF CommandNames

\* The step that a command is at is the one at its position.
LEMMA Where ==
  ASSUME Followed, plan # <<>>
  PROVE  /\ cmd \in CommandNames /\ Pos \in 1 .. Size(cmd) /\ Head(plan) = Program(cmd)[Pos]
         /\ Len(plan) \in Nat \ {0} /\ Len(plan) = (Size(cmd) - Pos) + 1
<1>1. cmd \in CommandNames /\ Len(plan) <= Size(cmd) /\ Len(plan) \in Nat \ {0}
  BY DEF Followed
<1>2. Size(cmd) \in Nat \ {0}
  BY <1>1, Sizes
<1>3. Head(plan) = plan[1] /\ plan[1] = Program(cmd)[Pos]
  BY <1>1, <1>2 DEF Followed, Pos
<1>4. Pos \in 1 .. Size(cmd) /\ Len(plan) = (Size(cmd) - Pos) + 1
  BY <1>1, <1>2 DEF Pos
<1> QED BY <1>1, <1>3, <1>4

\* Every step of a program, by command and position.
LEMMA Locate ==
  ASSUME Followed
  PROVE  /\ At("prepare") => cmd \in {"install", "reload"} /\ Pos = 1
         /\ At("plist") => cmd \in {"install", "reload"} /\ Pos = 2
         /\ At("bootout") => (cmd \in {"install", "reload"} /\ Pos = 3)
                               \/ (cmd = "uninstall" /\ Pos = 5)
         /\ At("enable") => cmd \in {"install", "reload"} /\ Pos = 4
         /\ At("bootstrap") => cmd \in {"install", "reload"} /\ Pos = 5
         /\ At("list-mine") => cmd = "reload" /\ Pos = 6
         /\ At("list-all") => cmd = "uninstall" /\ Pos \in {1, 3}
         /\ At("sweep") => (cmd = "reload" /\ Pos = 7) \/ (cmd = "uninstall" /\ Pos \in {2, 4})
         /\ At("disable") => cmd = "uninstall" /\ Pos = 6
         /\ At("remove-plist") => cmd = "uninstall" /\ Pos = 7
         /\ At("kickstart") => cmd = "restart" /\ Pos = 1
         /\ At("agent-plist") => cmd \in {"agent-install", "reload"} /\ Pos = AgentFrom + 1
         /\ At("agent-bootout") => (cmd \in {"agent-install", "reload"} /\ Pos = AgentFrom + 2)
                                     \/ (cmd = "agent-uninstall" /\ Pos = 1)
         /\ At("agent-exit") => (cmd \in {"agent-install", "reload"} /\ Pos = AgentFrom + 3)
                                  \/ (cmd = "agent-uninstall" /\ Pos = 2)
         /\ At("agent-enable") => cmd \in {"agent-install", "reload"} /\ Pos = AgentFrom + 4
         /\ At("agent-bootstrap") => cmd \in {"agent-install", "reload"} /\ Pos = AgentFrom + 5
         /\ At("agent-remove") => cmd = "agent-uninstall" /\ Pos = 3
<1>1. ASSUME NEW s, At(s)
      PROVE  /\ cmd \in CommandNames /\ Pos \in 1 .. Size(cmd) /\ s = Program(cmd)[Pos]
  BY <1>1, Where DEF At
<1> USE Programs, ReloadProgram
<1>2. ASSUME cmd = "reload", NEW s, At(s)
      PROVE \/ (Pos = 1 /\ s = "prepare") \/ (Pos = 2 /\ s = "plist") \/ (Pos = 3 /\ s = "bootout")
            \/ (Pos = 4 /\ s = "enable") \/ (Pos = 5 /\ s = "bootstrap")
            \/ (Pos = 6 /\ s = "list-mine") \/ (Pos = 7 /\ s = "sweep")
            \/ (Pos = 8 /\ s = "agent-plist") \/ (Pos = 9 /\ s = "agent-bootout")
            \/ (Pos = 10 /\ s = "agent-exit") \/ (Pos = 11 /\ s = "agent-enable")
            \/ (Pos = 12 /\ s = "agent-bootstrap")
  <2>1. Pos \in 1 .. 12 /\ s = Program("reload")[Pos]
    BY <1>1, <1>2 DEF Size
  <2>2. Pos \in {1, 2, 3, 4, 5, 6, 7, 8, 9, 10, 11, 12}
    BY <2>1
  <2> QED BY <2>1, <2>2
<1>3. ASSUME cmd = "install", NEW s, At(s)
      PROVE \/ (Pos = 1 /\ s = "prepare") \/ (Pos = 2 /\ s = "plist") \/ (Pos = 3 /\ s = "bootout")
            \/ (Pos = 4 /\ s = "enable") \/ (Pos = 5 /\ s = "bootstrap")
  <2>1. Pos \in 1 .. 5 /\ s = Program("install")[Pos]
    BY <1>1, <1>3 DEF Size
  <2>2. Pos \in {1, 2, 3, 4, 5}
    BY <2>1
  <2> QED BY <2>1, <2>2
<1>4. ASSUME cmd = "uninstall", NEW s, At(s)
      PROVE \/ (Pos \in {1, 3} /\ s = "list-all") \/ (Pos \in {2, 4} /\ s = "sweep")
            \/ (Pos = 5 /\ s = "bootout") \/ (Pos = 6 /\ s = "disable")
            \/ (Pos = 7 /\ s = "remove-plist")
  <2>1. Pos \in 1 .. 7 /\ s = Program("uninstall")[Pos]
    BY <1>1, <1>4 DEF Size
  <2>2. Pos \in {1, 2, 3, 4, 5, 6, 7}
    BY <2>1
  <2> QED BY <2>1, <2>2
<1>5. ASSUME cmd = "restart", NEW s, At(s) PROVE Pos = 1 /\ s = "kickstart"
  BY <1>1, <1>5 DEF Size
<1>6. ASSUME cmd = "agent-install", NEW s, At(s)
      PROVE \/ (Pos = 1 /\ s = "agent-plist") \/ (Pos = 2 /\ s = "agent-bootout")
            \/ (Pos = 3 /\ s = "agent-exit") \/ (Pos = 4 /\ s = "agent-enable")
            \/ (Pos = 5 /\ s = "agent-bootstrap")
  <2>1. Pos \in 1 .. 5 /\ s = Program("agent-install")[Pos]
    BY <1>1, <1>6 DEF Size
  <2>2. Pos \in {1, 2, 3, 4, 5}
    BY <2>1
  <2> QED BY <2>1, <2>2
<1>7. ASSUME cmd = "agent-uninstall", NEW s, At(s)
      PROVE \/ (Pos = 1 /\ s = "agent-bootout") \/ (Pos = 2 /\ s = "agent-exit")
            \/ (Pos = 3 /\ s = "agent-remove")
  <2>1. Pos \in 1 .. 3 /\ s = Program("agent-uninstall")[Pos]
    BY <1>1, <1>7 DEF Size
  <2>2. Pos \in {1, 2, 3}
    BY <2>1
  <2> QED BY <2>1, <2>2
<1>8. ASSUME NEW s, At(s) PROVE cmd \in CommandNames
  BY <1>1, <1>8
<1>9. AgentFrom = IF cmd = "reload" THEN 7 ELSE 0
  BY DEF AgentFrom
<1> QED BY <1>2, <1>3, <1>4, <1>5, <1>6, <1>7, <1>8, <1>9 DEF CommandNames

-----------------------------------------------------------------------------
(* Types. *)

\* The types by the groups of variables that steps change together.
StoreT ==
  /\ tunnel \in [Conns -> {"down", "up", "stray"}] /\ user_disconnected \subseteq Conns
  /\ by \in [Conns -> {"none", "agent", "user", "boot", "lost"}] /\ standing \subseteq Conns

DaemonT ==
  /\ sys \in Label /\ serving \in BOOLEAN /\ reconciled \in BOOLEAN
  /\ booting \in {"no", "list", "run", "failed"}

RpcT ==
  /\ req \in [Actors -> {None} \cup [op : Ops, conn : Conns]]
  /\ todo \in [Actors -> SUBSET Conns]

AgentT ==
  /\ gui \in Label /\ session \in BOOLEAN /\ term \in BOOLEAN
  /\ agent \in {"off", "start", "list", "connect", "wait", "list-down", "disconnect"}

AdminT ==
  /\ outcome \in {"none", "ok", "refused", "failed", "interrupted"} /\ template \in Templates
  /\ hurt \in BOOLEAN /\ unheard \in BOOLEAN

BoundsT ==
  /\ declined \subseteq Mine
  /\ used \in 0 .. UserCommands /\ given \in 0 .. AdminCommands /\ faults \in 0 .. Faults

Grouped == StoreT /\ DaemonT /\ RpcT /\ AgentT /\ AdminT /\ BoundsT

\* The groups are the type invariant.
LEMMA Groups == TypeOK = Grouped
BY DEF TypeOK, Grouped, StoreT, DaemonT, RpcT, AgentT, AdminT, BoundsT

\* A step keeps the types of what it leaves alone.
LEMMA Untouched ==
  /\ StoreT /\ UNCHANGED store => StoreT'
  /\ DaemonT /\ UNCHANGED daemon => DaemonT'
  /\ RpcT /\ UNCHANGED rpc => RpcT'
  /\ AgentT /\ UNCHANGED agentvars => AgentT'
  /\ AdminT /\ UNCHANGED admin => AdminT'
  /\ BoundsT /\ UNCHANGED bounds => BoundsT'
BY DEF StoreT, DaemonT, RpcT, AgentT, AdminT, BoundsT

\* A fault is counted.
LEMMA FaultTyped == BoundsT /\ Fault => BoundsT'
BY DEF BoundsT, Fault

\* launchd starts the daemon.
LEMMA WakeTyped == DaemonT /\ Wake => DaemonT'
BY DEF DaemonT, Wake

\* What a request does to the record, the tunnel and its history.
LEMMA EffectTyped ==
  ASSUME TypeOK, NEW a \in Actors, req[a] # None,
         user_disconnected' = Intent(req[a]), Effect(a, req[a])
  PROVE  StoreT'
<1>1. req[a].conn \in Conns /\ req[a].op \in Ops
  BY DEF TypeOK
<1>2. user_disconnected' \subseteq Conns
  BY <1>1 DEF TypeOK, Intent
<1>3. CASE req[a].op \in {"disconnect", "teardown"}
  BY <1>1, <1>2, <1>3 DEF TypeOK, StoreT, Effect, Lower
<1>4. CASE req[a].op \notin {"disconnect", "teardown"}
  BY <1>1, <1>2, <1>4 DEF TypeOK, StoreT, Effect
<1> QED BY <1>3, <1>4

\* What the death of the daemon does.
LEMMA KilledTyped ==
  ASSUME TypeOK, Killed
  PROVE  StoreT' /\ RpcT'
<1>1. PICK left \in [Conns -> {"down", "up", "stray"}] :
        /\ tunnel' = left
        /\ by' = [c \in Conns |-> IF c \notin {req[a].conn : a \in {x \in Actors : req[x] # None}}
                                  THEN by[c] ELSE IF left[c] = "down" THEN "none" ELSE "lost"]
        /\ standing' = {c \in standing : left[c] # "down"}
  BY DEF Killed
<1>2. /\ tunnel' \in [Conns -> {"down", "up", "stray"}]
      /\ by' \in [Conns -> {"none", "agent", "user", "boot", "lost"}]
      /\ standing' \subseteq Conns
  BY <1>1 DEF TypeOK
<1>3. user_disconnected' \subseteq Conns
  <2>1. ASSUME NEW a \in Actors, req[a] # None PROVE Intent(req[a]) \subseteq Conns
    BY <2>1 DEF TypeOK, Intent
  <2>2. \/ user_disconnected' = user_disconnected
        \/ \E a \in Actors : req[a] # None /\ user_disconnected' = Intent(req[a])
    BY DEF Killed
  <2> QED BY <2>1, <2>2 DEF TypeOK
<1>4. RpcT'
  BY DEF Killed, RpcT, TypeOK
<1> QED BY <1>2, <1>3, <1>4 DEF StoreT

\* A step of the daemon, and what may go wrong in it.
LEMMA DaemonTyped ==
  ASSUME TypeOK,
         \/ DaemonStep \/ IdleExit \/ DaemonCrash
         \/ \E a \in Actors : ApplyFails(a) \/ Dropped(a)
  PROVE  TypeOK'
<1> StoreT /\ DaemonT /\ RpcT /\ AgentT /\ AdminT /\ BoundsT
  BY Groups DEF Grouped
<1> USE DEF Grouped
<1> SUFFICES Grouped'
  BY DEF TypeOK, StoreT, DaemonT, RpcT, AgentT, AdminT, BoundsT
<1>1. ASSUME NEW a \in Actors, Apply(a)
      PROVE  Grouped'
  <2>1. StoreT'
    BY <1>1, EffectTyped DEF Apply
  <2>2. DaemonT' /\ RpcT'
    BY <1>1 DEF Apply, Answered, DaemonT, RpcT
  <2> QED BY <1>1, <2>1, <2>2, Untouched DEF Apply
<1>2. CASE BootList
  <2>1. DaemonT' /\ RpcT'
    BY <1>2 DEF BootList, DaemonT, RpcT, StoreT
  <2> QED BY <1>2, <2>1, Untouched DEF BootList
<1>3. CASE BootEnd
  <2>1. DaemonT'
    BY <1>3 DEF BootEnd, DaemonT
  <2> QED BY <1>3, <2>1, Untouched DEF BootEnd
<1>4. ASSUME NEW c \in Conns, BootNext(c)
      PROVE  Grouped'
  <2>1. RpcT'
    BY <1>4 DEF BootNext, RpcT
  <2> QED BY <1>4, <2>1, Untouched DEF BootNext
<1>5. CASE IdleExit
  <2>1. DaemonT'
    BY <1>5 DEF IdleExit, DaemonT
  <2> QED BY <1>5, <2>1, Untouched DEF IdleExit
<1>6. CASE DaemonCrash
  <2>1. StoreT' /\ RpcT'
    BY <1>6, KilledTyped DEF DaemonCrash
  <2>2. DaemonT' /\ AdminT'
    BY <1>6 DEF DaemonCrash, DaemonT, AdminT
  <2> QED BY <1>6, <2>1, <2>2, Untouched, FaultTyped DEF DaemonCrash
<1>7. ASSUME NEW a \in Actors, ApplyFails(a)
      PROVE  Grouped'
  <2>1. user_disconnected' \subseteq Conns
    BY <1>7 DEF StoreT, RpcT, ApplyFails, Intent
  <2>2. by' \in [Conns -> {"none", "agent", "user", "boot", "lost"}]
    BY <1>7 DEF StoreT, ApplyFails, Lost
  <2>3. StoreT'
    BY <1>7, <2>1, <2>2 DEF StoreT, ApplyFails
  <2>4. DaemonT' /\ RpcT'
    BY <1>7 DEF ApplyFails, Answered, DaemonT, RpcT
  <2>5. AdminT'
    BY <1>7 DEF ApplyFails, AdminT
  <2> QED BY <1>7, <2>3, <2>4, <2>5, Untouched, FaultTyped DEF ApplyFails
<1>8. ASSUME NEW a \in Actors, Dropped(a)
      PROVE  Grouped'
  <2>1. by' \in [Conns -> {"none", "agent", "user", "boot", "lost"}]
    BY <1>8 DEF StoreT, Dropped, Lost
  <2>2. StoreT'
    BY <1>8, <2>1 DEF StoreT, Dropped
  <2>3. RpcT'
    BY <1>8 DEF Dropped, RpcT
  <2>4. AdminT'
    BY <1>8 DEF Dropped, AdminT
  <2> QED BY <1>8, <2>2, <2>3, <2>4, Untouched, FaultTyped DEF Dropped
<1> QED BY <1>1, <1>2, <1>3, <1>4, <1>5, <1>6, <1>7, <1>8 DEF DaemonStep

\* A step of the agent or of the user.
LEMMA AgentTyped ==
  ASSUME TypeOK,
         \/ AgentStep \/ AgentKilled \/ Logout \/ Login \/ SwitchedOff
         \/ \E op \in {"connect", "disconnect"}, c \in Mine : UserAsks(op, c)
  PROVE  TypeOK'
<1> StoreT /\ DaemonT /\ RpcT /\ AgentT /\ AdminT /\ BoundsT
  BY Groups DEF Grouped
<1> USE DEF Grouped
<1> SUFFICES Grouped'
  BY DEF TypeOK, StoreT, DaemonT, RpcT, AgentT, AdminT, BoundsT
<1>1. CASE AgentStart
  <2>1. AgentT'
    BY <1>1 DEF AgentStart, AgentT
  <2> QED BY <1>1, <2>1, Untouched DEF AgentStart
<1>2. CASE AgentBlock
  <2>1. AgentT'
    BY <1>2 DEF AgentBlock, AgentT
  <2> QED BY <1>2, <2>1, Untouched DEF AgentBlock
<1>3. CASE AgentList
  <2>1. AgentT' /\ RpcT'
    BY <1>3 DEF AgentList, AgentT, RpcT, StoreT, connect_candidates
  <2>2. DaemonT'
    BY <1>3, WakeTyped, Untouched DEF AgentList
  <2> QED BY <1>3, <2>1, <2>2, Untouched DEF AgentList
<1>4. ASSUME NEW where, NEW op \in Ops, NEW c \in Conns, AgentAsks(where, op, c) PROVE Grouped'
  <2>1. StoreT'
    BY <1>4 DEF AgentAsks, StoreT, Lost, Ask
  <2>2. RpcT'
    BY <1>4 DEF AgentAsks, RpcT, Ask
  <2>3. DaemonT'
    BY <1>4, WakeTyped, Untouched DEF AgentAsks, Ask
  <2> QED BY <1>4, <2>1, <2>2, <2>3, Untouched DEF AgentAsks
<1>5. CASE AgentConnected
  <2>1. AgentT'
    BY <1>5 DEF AgentConnected, AgentT
  <2> QED BY <1>5, <2>1, Untouched DEF AgentConnected
<1>6. CASE AgentSigterm
  <2>1. AgentT'
    BY <1>6 DEF AgentSigterm, AgentT
  <2> QED BY <1>6, <2>1, Untouched DEF AgentSigterm
<1>7. CASE AgentDownList
  <2>1. AgentT' /\ RpcT'
    BY <1>7 DEF AgentDownList, AgentT, RpcT
  <2>2. StoreT'
    BY <1>7 DEF AgentDownList, StoreT, Lost
  <2>3. DaemonT'
    BY <1>7, WakeTyped, Untouched DEF AgentDownList
  <2> QED BY <1>7, <2>1, <2>2, <2>3, Untouched DEF AgentDownList
<1>8. CASE AgentExit
  <2>1. AgentT'
    BY <1>8 DEF AgentExit, AgentT
  <2> QED BY <1>8, <2>1, Untouched DEF AgentExit
<1>9. CASE AgentKilled
  <2>1. AgentT' /\ RpcT'
    BY <1>9 DEF AgentKilled, AgentT, RpcT
  <2>2. StoreT'
    BY <1>9 DEF AgentKilled, StoreT, Lost
  <2> QED BY <1>9, <2>1, <2>2, Untouched, FaultTyped DEF AgentKilled
<1>10. CASE Logout \/ SwitchedOff
  <2>1. AgentT'
    BY <1>10 DEF Logout, SwitchedOff, UnloadAgent, AgentT
  <2>2. BoundsT'
    BY <1>10 DEF Logout, SwitchedOff, BoundsT
  <2> QED BY <1>10, <2>1, <2>2, Untouched DEF Logout, SwitchedOff
<1>11. CASE Login
  <2>1. AgentT'
    BY <1>11 DEF Login, AgentT
  <2> QED BY <1>11, <2>1, Untouched DEF Login
<1>12. ASSUME NEW op \in {"connect", "disconnect"}, NEW c \in Mine, UserAsks(op, c) PROVE Grouped'
  <2>1. RpcT'
    BY <1>12 DEF UserAsks, RpcT, Ask
  <2>2. DaemonT'
    BY <1>12, WakeTyped DEF UserAsks, Ask
  <2>3. BoundsT'
    BY <1>12 DEF UserAsks, BoundsT
  <2> QED BY <1>12, <2>1, <2>2, <2>3, Untouched DEF UserAsks
<1>13. ASSUME NEW c \in Conns, AgentConnect(c) \/ AgentDisconnect(c) PROVE Grouped'
  BY <1>4, <1>13 DEF AgentConnect, AgentDisconnect
<1> QED BY <1>1, <1>2, <1>3, <1>5, <1>6, <1>7, <1>8, <1>9, <1>10, <1>11, <1>12, <1>13
        DEF AgentStep

\* Admin steps either go on or end the command.
LEMMA MovesTyped ==
  ASSUME AdminT, UNCHANGED <<hurt, unheard>>,
         Proceed \/ \E how \in {"ok", "refused", "failed", "interrupted"} : End(how)
  PROVE  AdminT'
BY DEF AdminT, Proceed, End

\* A step of an administrative command.
LEMMA AdminTyped ==
  ASSUME TypeOK,
         \/ AdminStep \/ StepFails \/ IgnoredFails \/ Interrupted \/ Reboot
         \/ \E c \in Commands, t \in Templates : Give(c, t)
  PROVE  TypeOK'
<1> StoreT /\ DaemonT /\ RpcT /\ AgentT /\ AdminT /\ BoundsT
  BY Groups DEF Grouped
<1> USE DEF Grouped
<1> SUFFICES Grouped'
  BY DEF TypeOK, StoreT, DaemonT, RpcT, AgentT, AdminT, BoundsT
<1>1. CASE Prepare \/ Swept \/ AgentGone
  BY <1>1, MovesTyped, Untouched DEF Prepare, Swept, AgentGone
<1>2. CASE WritePlist \/ Enable \/ Bootstrap \/ Disable \/ RemovePlist
  <2>1. DaemonT'
    BY <1>2 DEF WritePlist, Enable, Bootstrap, Disable, RemovePlist, DaemonT
  <2>2. AdminT'
    BY <1>2, MovesTyped DEF WritePlist, Enable, Bootstrap, Disable, RemovePlist
  <2> QED BY <1>2, <2>1, <2>2, Untouched DEF WritePlist, Enable, Bootstrap, Disable, RemovePlist
<1>3. CASE Bootout
  <2>1. StoreT' /\ RpcT'
    BY <1>3, KilledTyped, Untouched DEF Bootout, Stop
  <2>2. DaemonT'
    BY <1>3 DEF Bootout, Stop, DaemonT
  <2> QED BY <1>3, <2>1, <2>2, MovesTyped, Untouched DEF Bootout
<1>4. CASE Kickstart
  <2>1. StoreT' /\ RpcT'
    BY <1>4, KilledTyped, Untouched DEF Kickstart
  <2>2. DaemonT'
    BY <1>4 DEF Kickstart, DaemonT
  <2> QED BY <1>4, <2>1, <2>2, MovesTyped, Untouched DEF Kickstart
<1>5. CASE ListMine
  <2>1. RpcT'
    BY <1>5 DEF ListMine, RpcT
  <2>2. DaemonT'
    BY <1>5, WakeTyped, Untouched DEF ListMine
  <2> QED BY <1>5, <2>1, <2>2, MovesTyped, Untouched DEF ListMine
<1>6. CASE ListAll
  <2>1. RpcT'
    BY <1>6 DEF ListAll, RpcT, Connected
  <2>2. DaemonT'
    BY <1>6, WakeTyped, Untouched DEF ListAll
  <2>3. AdminT'
    BY <1>6 DEF ListAll, Proceed, AdminT
  <2> QED BY <1>6, <2>1, <2>2, <2>3, Untouched DEF ListAll
<1>7. ASSUME NEW c \in Conns, Sweep(c) PROVE Grouped'
  <2>1. RpcT'
    BY <1>7 DEF Sweep, RpcT, Ask
  <2>2. DaemonT'
    BY <1>7, WakeTyped DEF Sweep, Ask
  <2> QED BY <1>7, <2>1, <2>2, Untouched DEF Sweep
<1>8. CASE AgentPlist \/ AgentEnable \/ AgentBootstrap \/ AgentRemove
  <2>1. AgentT'
    BY <1>8 DEF AgentPlist, AgentEnable, AgentBootstrap, AgentRemove, AgentT
  <2>2. AdminT'
    BY <1>8, MovesTyped DEF AgentPlist, AgentEnable, AgentBootstrap, AgentRemove
  <2> QED BY <1>8, <2>1, <2>2, Untouched DEF AgentPlist, AgentEnable, AgentBootstrap, AgentRemove
<1>9. CASE AgentBootout
  <2>1. AgentT'
    BY <1>9 DEF AgentBootout, UnloadAgent, AgentT
  <2> QED BY <1>9, <2>1, MovesTyped, Untouched DEF AgentBootout
<1>10. CASE StepFails
  <2>1. AdminT'
    BY <1>10 DEF StepFails, End, AdminT
  <2> QED BY <1>10, <2>1, Untouched, FaultTyped DEF StepFails
<1>11. CASE IgnoredFails
  <2>1. AdminT'
    BY <1>11 DEF IgnoredFails, AdminT
  <2> QED BY <1>11, <2>1, Untouched, FaultTyped DEF IgnoredFails
<1>12. CASE Interrupted
  <2>1. AdminT' /\ RpcT'
    BY <1>12 DEF Interrupted, AdminT, RpcT
  <2> QED BY <1>12, <2>1, Untouched, FaultTyped DEF Interrupted
<1>13. CASE Reboot
  <2>1. StoreT'
    BY <1>13 DEF Reboot, Lower, StoreT
  <2>2. DaemonT'
    BY <1>13 DEF Reboot, DaemonT
  <2>3. RpcT' /\ AgentT'
    BY <1>13 DEF Reboot, RpcT, AgentT
  <2>4. AdminT'
    BY <1>13 DEF Reboot, AdminT
  <2> QED BY <1>13, <2>1, <2>2, <2>3, <2>4, FaultTyped DEF Reboot
<1>14. ASSUME NEW c \in Commands, NEW t \in Templates, Give(c, t) PROVE Grouped'
  <2>1. StoreT'
    BY <1>14 DEF Give, StoreT, Connected
  <2>2. AdminT'
    BY <1>14 DEF Give, AdminT
  <2>3. BoundsT'
    BY <1>14 DEF Give, BoundsT
  <2> QED BY <1>14, <2>1, <2>2, <2>3, Untouched DEF Give
<1> QED BY <1>1, <1>2, <1>3, <1>4, <1>5, <1>6, <1>7, <1>8, <1>9, <1>10, <1>11, <1>12, <1>13,
           <1>14 DEF AdminStep

\* Before the first step.
LEMMA InitTyped == Init => TypeOK
<1> SUFFICES ASSUME Init PROVE Grouped
  BY Groups
<1>1. StoreT /\ RpcT
  BY DEF Init, StoreT, RpcT
<1>2. PICK i \in BOOLEAN : /\ sys = [loaded |-> i, disabled |-> FALSE, plist |-> i]
                           /\ gui = [loaded |-> i, disabled |-> FALSE, plist |-> i]
  BY DEF Init
<1>3. sys \in Label /\ gui \in Label
  BY <1>2
<1>4. DaemonT
  BY <1>3 DEF Init, DaemonT
<1>5. AgentT
  BY <1>3 DEF Init, AgentT
<1>6. AdminT
  BY DEF Init, AdminT, Templates
<1>7. BoundsT
  BY DEF Init, BoundsT
<1> QED BY <1>1, <1>4, <1>5, <1>6, <1>7 DEF Grouped

\* Over every step.
LEMMA StepTyped == TypeOK /\ [Next]_vars => TypeOK'
<1>1. TypeOK /\ UNCHANGED vars => TypeOK'
  BY DEF TypeOK
<1> QED BY <1>1, DaemonTyped, AgentTyped, AdminTyped DEF Next

\* The types of both services, their store and the commands.
THEOREM Types == Spec => []TypeOK
BY InitTyped, StepTyped, PTL DEF Spec

-----------------------------------------------------------------------------
(* The place of a command in its program. *)

\* Going on takes the command one position further, or to its end after the last one.
LEMMA Proceeds ==
  ASSUME Followed, plan # <<>>, Proceed, UNCHANGED session
  PROVE  /\ Followed' /\ cmd' = cmd /\ template' = template
         /\ plan' # <<>> => Pos' = Pos + 1 /\ outcome' = "none"
         /\ plan' = <<>> => Pos = Size(cmd) /\ outcome' = "ok"
<1>1. /\ cmd' = cmd /\ template' = template /\ plan' = Tail(plan) /\ plan \in Seq(Steps)
      /\ outcome' = IF Len(plan) = 1 THEN "ok" ELSE "none"
  BY DEF Proceed, Followed
<1>2. /\ cmd \in CommandNames /\ Size(cmd) \in Nat /\ Len(plan) \in 1 .. Size(cmd)
  BY Where, Sizes DEF Followed
<1>3. /\ plan' \in Seq(Steps) /\ Len(plan') = Len(plan) - 1
      /\ \A i \in 1 .. Len(plan') : plan'[i] = plan[i + 1]
  BY <1>1
<1>4. plan' = <<>> <=> Len(plan) = 1
  BY <1>3
<1>5. ASSUME NEW i \in 1 .. Len(plan')
      PROVE  plan'[i] = Program(cmd)[(Size(cmd) - Len(plan')) + i]
  <2>1. i + 1 \in 1 .. Len(plan)
        /\ (Size(cmd) - Len(plan)) + (i + 1) = (Size(cmd) - Len(plan')) + i
    BY <1>2, <1>3
  <2>2. plan[i + 1] = Program(cmd)[(Size(cmd) - Len(plan)) + (i + 1)]
    BY <2>1 DEF Followed
  <2> QED BY <1>3, <2>1, <2>2
<1>6. Followed'
  BY <1>1, <1>2, <1>3, <1>5 DEF Followed
<1>7. Pos' = Pos + 1
  BY <1>1, <1>2, <1>3 DEF Pos
<1>8. Len(plan) = 1 => Pos = Size(cmd)
  BY <1>2 DEF Pos
<1> QED BY <1>1, <1>4, <1>6, <1>7, <1>8

\* A command that is over is at no step.
LEMMA Over == plan' = <<>> => Followed'
BY DEF Followed

\* A command begins at its first step.
LEMMA Gives ==
  ASSUME NEW c \in Commands, NEW t \in Templates, Give(c, t)
  PROVE  Followed' /\ (plan' # <<>> => Pos' = 1 /\ cmd' = c)
<1>1. CASE plan' = <<>>
  BY <1>1, Over
<1>2. CASE plan' # <<>>
  <2>1. plan' = Program(c) /\ cmd' = c /\ session' /\ c \in CommandNames
    BY <1>2 DEF Give, CommandNames
  <2>2. Program(c) \in Seq(Steps) /\ Len(Program(c)) = Size(c) /\ Size(c) \in Nat
    BY <2>1, Sizes
  <2>3. Pos' = 1
    BY <2>1, <2>2 DEF Pos
  <2>4. \A i \in 1 .. Len(plan') : plan'[i] = Program(cmd')[(Size(cmd') - Len(plan')) + i]
    BY <2>1, <2>2
  <2> QED BY <2>1, <2>2, <2>3, <2>4 DEF Followed
<1> QED BY <1>1, <1>2

\* A failed bootout of the agent also skips the wait for its end.
LEMMA Skips == ASSUME Followed, IgnoredFails PROVE Followed'
<1>1. plan # <<>> /\ UNCHANGED <<cmd, session>>
  BY DEF IgnoredFails, At
<1>2. /\ cmd \in CommandNames /\ Size(cmd) \in Nat /\ Len(plan) \in 1 .. Size(cmd)
      /\ plan \in Seq(Steps) /\ session
  BY <1>1, Where, Sizes DEF Followed
<1>3. /\ Tail(plan) \in Seq(Steps) /\ Len(Tail(plan)) = Len(plan) - 1
      /\ \A i \in 1 .. Len(Tail(plan)) : Tail(plan)[i] = plan[i + 1]
  BY <1>2
<1>4. CASE plan' = Tail(plan)
  <2>1. ASSUME NEW i \in 1 .. Len(plan')
        PROVE  plan'[i] = Program(cmd)[(Size(cmd) - Len(plan')) + i]
    <3>1. i + 1 \in 1 .. Len(plan)
          /\ (Size(cmd) - Len(plan)) + (i + 1) = (Size(cmd) - Len(plan')) + i
      BY <1>2, <1>3, <1>4
    <3>2. plan[i + 1] = Program(cmd)[(Size(cmd) - Len(plan)) + (i + 1)]
      BY <1>1, <3>1 DEF Followed
    <3> QED BY <1>3, <1>4, <3>1, <3>2
  <2> QED BY <1>1, <1>2, <1>3, <1>4, <2>1 DEF Followed
<1>5. CASE At("agent-bootout") /\ plan' = Tail(Tail(plan))
  <2>1. Len(plan) >= 2
    BY <1>2, <1>5, Locate, Where DEF At, AgentFrom, Size
  <2>2. /\ plan' \in Seq(Steps) /\ Len(plan') = Len(plan) - 2
        /\ \A i \in 1 .. Len(plan') : plan'[i] = plan[i + 2]
    BY <1>3, <1>5, <2>1
  <2>3. ASSUME NEW i \in 1 .. Len(plan')
        PROVE  plan'[i] = Program(cmd)[(Size(cmd) - Len(plan')) + i]
    <3>1. i + 2 \in 1 .. Len(plan)
          /\ (Size(cmd) - Len(plan)) + (i + 2) = (Size(cmd) - Len(plan')) + i
      BY <1>2, <2>2
    <3>2. plan[i + 2] = Program(cmd)[(Size(cmd) - Len(plan)) + (i + 2)]
      BY <1>1, <3>1 DEF Followed
    <3> QED BY <2>2, <3>1, <3>2
  <2> QED BY <1>1, <1>2, <2>2, <2>3 DEF Followed
<1> QED BY <1>4, <1>5 DEF IgnoredFails

\* Steps that are not a command's own leave it where it is.
LEMMA Beside ==
  ASSUME Followed, UNCHANGED <<cmd, plan, session>> PROVE Followed'
BY DEF Followed

\* Every step keeps a command in its program.
LEMMA StepFollowed == Followed /\ [Next]_vars => Followed'
<1> SUFFICES ASSUME Followed, [Next]_vars PROVE Followed'
  OBVIOUS
<1>1. CASE DaemonStep \/ IdleExit \/ DaemonCrash \/ AgentKilled \/ UNCHANGED vars
  BY <1>1, Beside DEF DaemonStep, Apply, BootList, BootNext, BootEnd, IdleExit, DaemonCrash,
                      AgentKilled
<1>2. ASSUME NEW a \in Actors, ApplyFails(a) \/ Dropped(a) PROVE Followed'
  BY <1>2, Beside DEF ApplyFails, Dropped
<1>3. CASE AgentStep
  BY <1>3, Beside DEF AgentStep, AgentStart, AgentBlock, AgentList, AgentConnected, AgentSigterm,
                      AgentDownList, AgentExit, AgentConnect, AgentDisconnect, AgentAsks
<1>4. ASSUME NEW op \in {"connect", "disconnect"}, NEW c \in Mine, UserAsks(op, c) PROVE Followed'
  BY <1>4, Beside DEF UserAsks
<1>5. CASE Logout \/ Login \/ SwitchedOff
  <2>1. plan' = <<>> \/ UNCHANGED <<cmd, plan, session>>
    BY <1>5 DEF Logout, Login, SwitchedOff, Followed
  <2> QED BY <2>1, Over, Beside
<1>6. CASE AdminStep
  <2>1. ASSUME plan # <<>>, UNCHANGED session, Proceed \/ \E how : End(how) PROVE Followed'
    BY <2>1, Proceeds, Over DEF End
  <2>2. CASE Prepare \/ Swept \/ AgentGone \/ WritePlist \/ Enable \/ Bootstrap \/ Disable
    BY <2>1, <2>2 DEF Prepare, Swept, AgentGone, WritePlist, Enable, Bootstrap, Disable, At
  <2>3. CASE RemovePlist \/ Bootout \/ Kickstart \/ ListMine \/ ListAll
    BY <2>1, <2>3 DEF RemovePlist, Bootout, Kickstart, ListMine, ListAll, At
  <2>4. CASE AgentPlist \/ AgentEnable \/ AgentBootstrap \/ AgentRemove \/ AgentBootout
    BY <2>1, <2>4 DEF AgentPlist, AgentEnable, AgentBootstrap, AgentRemove, AgentBootout, At
  <2>5. ASSUME NEW c \in Conns, Sweep(c) PROVE Followed'
    BY <2>5, Beside DEF Sweep
  <2> QED BY <1>6, <2>2, <2>3, <2>4, <2>5 DEF AdminStep
<1>7. CASE StepFails \/ Interrupted \/ Reboot
  BY <1>7, Over DEF StepFails, End, Interrupted, Reboot
<1>8. CASE IgnoredFails
  BY <1>8, Skips
<1>9. ASSUME NEW c \in Commands, NEW t \in Templates, Give(c, t) PROVE Followed'
  BY <1>9, Gives
<1> QED BY <1>1, <1>2, <1>3, <1>4, <1>5, <1>6, <1>7, <1>8, <1>9 DEF Next

-----------------------------------------------------------------------------
(* The session agent. *)

\* What the agent has raised, and is lowering.
LEMMA AgentAside ==
  ASSUME AgentInv, UNCHANGED <<tunnel, by, agent>>, req'["agent"] = req["agent"],
         todo'["agent"] = todo["agent"]
  PROVE  AgentInv'
BY DEF AgentInv

\* The death of the daemon takes the agent's request, and its connection out of its hands.
LEMMA AgentKilledDaemon ==
  ASSUME TypeOK, AgentInv, Killed, UNCHANGED agent PROVE AgentInv'
<1>1. PICK left \in [Conns -> {"down", "up", "stray"}] :
        /\ \A c \in Conns : left[c] \in {tunnel[c]}
             \cup UNION {Cut(req[a]) : a \in {x \in {y \in Actors : req[y] # None} : req[x].conn = c}}
        /\ tunnel' = left
        /\ by' = [c \in Conns |-> IF c \notin {req[a].conn : a \in {x \in Actors : req[x] # None}}
                                  THEN by[c] ELSE IF left[c] = "down" THEN "none" ELSE "lost"]
  BY DEF Killed
<1>2. ASSUME NEW c \in Conns, by'[c] = "agent"
      PROVE  /\ by[c] = "agent" /\ \A a \in Actors : req[a] # None => req[a].conn # c
  BY <1>1, <1>2
<1>3. ASSUME NEW c \in Conns, by'[c] = "agent" PROVE tunnel'[c] = tunnel[c]
  BY <1>1, <1>2, <1>3
<1>4. req'["agent"] = None /\ todo'["agent"] = todo["agent"]
  BY DEF Killed, TypeOK
<1> QED BY <1>2, <1>3, <1>4 DEF AgentInv

\* A request is carried out.
LEMMA AgentApply ==
  ASSUME TypeOK, AgentInv, NEW a \in Actors, Apply(a) PROVE AgentInv'
<1> USE DEF TypeOK, AgentInv
<1>1. /\ req[a].conn \in Conns /\ req[a].op \in Ops /\ req' = [req EXCEPT ![a] = None]
      /\ UNCHANGED <<agent, todo>>
  BY DEF Apply, Answered
<1>2. CASE req[a].op \in {"disconnect", "teardown"}
  BY <1>1, <1>2 DEF Apply, Effect, Lower
<1>3. CASE req[a].op \notin {"disconnect", "teardown"} /\ tunnel[req[a].conn] = "down"
  BY <1>1, <1>3 DEF Apply, Effect
<1>4. CASE req[a].op \notin {"disconnect", "teardown"} /\ tunnel[req[a].conn] # "down"
  BY <1>1, <1>4 DEF Apply, Effect
<1> QED BY <1>2, <1>3, <1>4

\* A step of the agent itself.
LEMMA AgentItself ==
  ASSUME TypeOK, AgentInv, AgentStep \/ AgentKilled PROVE AgentInv'
<1> USE DEF TypeOK, AgentInv
<1>1. CASE AgentStart \/ AgentBlock \/ AgentConnected \/ AgentSigterm \/ AgentExit
  BY <1>1 DEF AgentStart, AgentBlock, AgentConnected, AgentSigterm, AgentExit
<1>2. CASE AgentList
  BY <1>2 DEF AgentList, connect_candidates
<1>3. CASE AgentDownList
  <2>1. CASE sys.loaded
    BY <1>3, <2>1 DEF AgentDownList, Connected
  <2>2. CASE ~sys.loaded
    BY <1>3, <2>2 DEF AgentDownList, Lost
  <2> QED BY <2>1, <2>2
<1>4. ASSUME NEW c \in Conns, AgentConnect(c) \/ AgentDisconnect(c) PROVE AgentInv'
  <2>1. CASE AgentConnect(c)
    BY <2>1 DEF AgentConnect, AgentAsks, Ask, Lost
  <2>2. CASE AgentDisconnect(c)
    BY <2>2 DEF AgentDisconnect, AgentAsks, Ask, Lost
  <2> QED BY <1>4, <2>1, <2>2
<1>5. CASE AgentKilled
  BY <1>5 DEF AgentKilled, Lost
<1> QED BY <1>1, <1>2, <1>3, <1>4, <1>5 DEF AgentStep

\* An unloaded agent is only sent off before it has raised anything.
LEMMA AgentUnloads ==
  ASSUME AgentInv, NEW after, UnloadAgent(after), UNCHANGED <<tunnel, by, req, todo>>
  PROVE  AgentInv'
BY DEF AgentInv, UnloadAgent

\* Every step keeps the agent's invariant.
LEMMA StepAgent == TypeOK /\ AgentInv /\ [Next]_vars => AgentInv'
<1> SUFFICES ASSUME TypeOK, AgentInv, [Next]_vars PROVE AgentInv'
  OBVIOUS
<1>1. CASE DaemonStep
  <2>1. CASE BootList \/ BootEnd \/ \E c \in Conns : BootNext(c)
    BY <2>1, AgentAside DEF BootList, BootEnd, BootNext, TypeOK
  <2> QED BY <1>1, <2>1, AgentApply DEF DaemonStep
<1>2. CASE AgentStep \/ AgentKilled
  BY <1>2, AgentItself
<1>3. CASE AdminStep
  <2>1. CASE Prepare \/ Swept \/ AgentGone \/ WritePlist \/ Enable \/ Bootstrap \/ Disable
             \/ RemovePlist
    BY <2>1, AgentAside DEF Prepare, Swept, AgentGone, WritePlist, Enable, Bootstrap, Disable,
                            RemovePlist
  <2>2. CASE Bootout
    BY <2>2, AgentAside, AgentKilledDaemon DEF Bootout, Stop
  <2>3. CASE Kickstart
    BY <2>3, AgentAside, AgentKilledDaemon DEF Kickstart
  <2>4. CASE ListMine \/ ListAll \/ \E c \in Conns : Sweep(c)
    BY <2>4, AgentAside DEF ListMine, ListAll, Sweep, Ask, TypeOK
  <2>5. CASE AgentPlist \/ AgentEnable \/ AgentBootstrap \/ AgentRemove
    BY <2>5, AgentAside DEF AgentPlist, AgentEnable, AgentBootstrap, AgentRemove
  <2>6. CASE AgentBootout
    BY <2>6, AgentAside, AgentUnloads DEF AgentBootout
  <2> QED BY <1>3, <2>1, <2>2, <2>3, <2>4, <2>5, <2>6 DEF AdminStep
<1>4. CASE IdleExit \/ StepFails \/ IgnoredFails \/ Interrupted \/ Login \/ UNCHANGED vars
  BY <1>4, AgentAside DEF IdleExit, StepFails, IgnoredFails, Interrupted, Login, TypeOK
<1>5. CASE DaemonCrash
  BY <1>5, AgentKilledDaemon DEF DaemonCrash
<1>6. CASE Reboot
  BY <1>6 DEF Reboot, Lower, AgentInv
<1>7. CASE Logout \/ SwitchedOff
  BY <1>7, AgentUnloads DEF Logout, SwitchedOff
<1>8. ASSUME NEW a \in Actors, ApplyFails(a) \/ Dropped(a) PROVE AgentInv'
  <2>1. CASE ApplyFails(a)
    BY <2>1 DEF ApplyFails, Answered, Lost, TypeOK, AgentInv
  <2>2. CASE Dropped(a)
    BY <2>2 DEF Dropped, Lost, TypeOK, AgentInv
  <2> QED BY <1>8, <2>1, <2>2
<1>9. ASSUME NEW op \in {"connect", "disconnect"}, NEW c \in Mine, UserAsks(op, c) PROVE AgentInv'
  BY <1>9, AgentAside DEF UserAsks, Ask, TypeOK
<1>10. ASSUME NEW c \in Commands, NEW t \in Templates, Give(c, t) PROVE AgentInv'
  BY <1>10, AgentAside DEF Give
<1> QED BY <1>1, <1>2, <1>3, <1>4, <1>5, <1>6, <1>7, <1>8, <1>9, <1>10 DEF Next

\* The session agent between login and logout: when it is gone, no tunnel that it raised is
\* left except what an error or a kill took out of its hands, at whatever point SIGTERM
\* came and whatever the daemon, the user and administrative commands did meanwhile.
THEOREM AgentTidies == Spec => []AgentLeavesNothing
<1>1. Init => AgentInv
  BY DEF Init, AgentInv
<1>2. Spec => [](TypeOK /\ AgentInv)
  BY InitTyped, StepTyped, <1>1, StepAgent, PTL DEF Spec
<1>3. AgentInv => AgentLeavesNothing
  BY DEF AgentInv, AgentLeavesNothing
<1> QED BY <1>2, <1>3, PTL

-----------------------------------------------------------------------------
(* Installs. *)

\* A step that leaves command and labels alone.
LEMMA InstallAside ==
  ASSUME InstallInv, UNCHANGED <<cmd, plan, outcome, sys, gui>>, hurt => hurt'
  PROVE  InstallInv'
BY DEF InstallInv, Pos, AgentFrom

\* A step that ends a command, or happens between commands.
LEMMA InstallIdle ==
  ASSUME plan' = <<>>, outcome' = "failed" => hurt'
  PROVE  InstallInv'
BY DEF InstallInv

\* A step that goes on: what it leaves to show is the labels by the position that it was at.
LEMMA InstallProceeds ==
  ASSUME Followed, plan # <<>>, Proceed, UNCHANGED <<session, hurt>>,
         ~hurt /\ cmd \in {"install", "reload"} =>
           /\ Pos > 1 => sys'.plist
           /\ Pos \in 3 .. 4 => ~sys'.loaded
           /\ Pos > 3 => ~sys'.disabled
           /\ Pos > 4 => sys'.loaded,
         ~hurt /\ cmd \in {"agent-install", "reload"} =>
           /\ Pos > AgentFrom => gui'.plist
           /\ Pos \in (AgentFrom + 2) .. (AgentFrom + 4) => ~gui'.loaded
           /\ Pos > AgentFrom + 3 => ~gui'.disabled
  PROVE  InstallInv'
<1>1. plan' = <<>> => InstallInv'
  BY Proceeds DEF InstallInv
<1>2. ASSUME plan' # <<>> PROVE InstallInv'
  <2>1. Pos' = Pos + 1 /\ outcome' = "none" /\ cmd' = cmd /\ AgentFrom' = AgentFrom
    BY <1>2, Proceeds DEF AgentFrom
  <2>2. Pos \in Nat /\ AgentFrom \in Nat
    BY Where, Sizes DEF AgentFrom
  <2> QED BY <2>1, <2>2 DEF InstallInv
<1> QED BY <1>1, <1>2

\* A step of a command.
LEMMA InstallAdmin ==
  ASSUME TypeOK, Followed, InstallInv, AdminStep PROVE InstallInv'
<1>0. sys \in Label /\ gui \in Label /\ UNCHANGED session
  BY DEF TypeOK, AdminStep, Prepare, Swept, AgentGone, WritePlist, Enable, Bootstrap, Disable,
         RemovePlist, Bootout, Kickstart, ListMine, ListAll, Sweep, AgentPlist, AgentEnable,
         AgentBootstrap, AgentRemove, AgentBootout
<1>1. plan # <<>> => Pos \in Nat /\ AgentFrom \in {0, 7}
  BY Where, Sizes DEF AgentFrom
<1> USE DEF InstallInv
<1>2. CASE Prepare
  <2>1. plan # <<>> /\ cmd \in {"install", "reload"} /\ Pos = 1
    BY <1>2, Locate DEF Prepare, At
  <2> QED BY <1>0, <1>1, <1>2, <2>1, InstallProceeds DEF Prepare, AgentFrom
<1>3. CASE WritePlist
  <2>1. plan # <<>> /\ cmd \in {"install", "reload"} /\ Pos = 2
    BY <1>3, Locate DEF WritePlist, At
  <2>2. CASE template = "good"
    BY <1>0, <1>1, <1>3, <2>1, <2>2, InstallProceeds DEF WritePlist, AgentFrom
  <2>3. CASE template # "good"
    BY <1>3, <2>3, InstallIdle DEF WritePlist, End
  <2> QED BY <2>2, <2>3
<1>4. CASE Bootout
  <2>1. /\ plan # <<>> /\ Proceed /\ UNCHANGED <<hurt, gui>> /\ sys' = [sys EXCEPT !.loaded = FALSE]
        /\ (cmd \in {"install", "reload"} /\ Pos = 3) \/ (cmd = "uninstall" /\ Pos = 5)
    BY <1>4, Locate DEF Bootout, At
  <2> QED BY <1>0, <1>1, <2>1, InstallProceeds DEF AgentFrom
<1>5. CASE Enable
  <2>1. plan # <<>> /\ cmd \in {"install", "reload"} /\ Pos = 4
    BY <1>5, Locate DEF Enable, At
  <2> QED BY <1>0, <1>1, <1>5, <2>1, InstallProceeds DEF Enable, AgentFrom
<1>6. CASE Bootstrap
  <2>1. plan # <<>> /\ cmd \in {"install", "reload"} /\ Pos = 5
    BY <1>6, Locate DEF Bootstrap, At
  <2>2. ~hurt => Bootable(sys)
    BY <2>1 DEF Bootable
  <2>3. CASE Bootable(sys)
    BY <1>0, <1>1, <1>6, <2>1, <2>3, InstallProceeds DEF Bootstrap, Bootable, AgentFrom
  <2>4. CASE ~Bootable(sys)
    BY <1>6, <2>2, <2>4, InstallIdle DEF Bootstrap, End
  <2> QED BY <2>3, <2>4
<1>7. CASE Disable \/ RemovePlist
  <2>1. plan # <<>> /\ cmd = "uninstall" /\ Proceed /\ UNCHANGED hurt
    BY <1>7, Locate DEF Disable, RemovePlist, At
  <2> QED BY <1>0, <2>1, InstallProceeds
<1>8. CASE Kickstart
  <2>1. plan # <<>> /\ cmd = "restart" /\ UNCHANGED hurt
    BY <1>8, Locate DEF Kickstart, At
  <2>2. CASE sys.loaded
    BY <1>0, <1>8, <2>1, <2>2, InstallProceeds DEF Kickstart
  <2>3. CASE ~sys.loaded
    BY <1>8, <2>3, InstallIdle DEF Kickstart, End
  <2> QED BY <2>2, <2>3
<1>9. CASE ListMine
  <2>1. plan # <<>> /\ cmd = "reload" /\ Pos = 6
    BY <1>9, Locate DEF ListMine, At
  <2>2. CASE sys.loaded
    BY <1>0, <1>1, <1>9, <2>1, <2>2, InstallProceeds DEF ListMine, Wake, AgentFrom
  <2>3. CASE ~sys.loaded
    BY <1>9, <2>1, <2>3, InstallIdle DEF ListMine, End
  <2> QED BY <2>2, <2>3
<1>10. CASE ListAll
  <2>1. plan # <<>> /\ cmd = "uninstall"
    BY <1>10, Locate DEF ListAll, At
  <2> QED BY <1>0, <1>10, <2>1, InstallProceeds DEF ListAll
<1>11. CASE Swept
  <2>1. plan # <<>> /\ ((cmd = "reload" /\ Pos = 7) \/ cmd = "uninstall")
    BY <1>11, Locate DEF Swept, At
  <2> QED BY <1>0, <1>1, <1>11, <2>1, InstallProceeds DEF Swept, AgentFrom
<1>12. ASSUME NEW c \in Conns, Sweep(c) PROVE InstallInv'
  BY <1>12, InstallAside DEF Sweep, Ask, Wake
<1>13. CASE AgentPlist
  <2>1. plan # <<>> /\ cmd \in {"agent-install", "reload"} /\ Pos = AgentFrom + 1
    BY <1>13, Locate DEF AgentPlist, At
  <2>2. CASE Proceed /\ gui' = [gui EXCEPT !.plist = TRUE]
    BY <1>0, <1>1, <1>13, <2>1, <2>2, InstallProceeds DEF AgentPlist, AgentFrom
  <2>3. CASE End("refused")
    BY <2>3, InstallIdle DEF End
  <2> QED BY <1>13, <2>2, <2>3 DEF AgentPlist
<1>14. CASE AgentBootout
  <2>1. /\ plan # <<>> /\ Proceed /\ UNCHANGED <<hurt, sys>>
        /\ gui' = IF gui.loaded THEN [gui EXCEPT !.loaded = FALSE] ELSE gui
        /\ \/ (cmd \in {"agent-install", "reload"} /\ Pos = AgentFrom + 2)
           \/ cmd = "agent-uninstall"
    BY <1>14, Locate DEF AgentBootout, UnloadAgent, At
  <2>2. ~gui'.loaded /\ gui'.plist = gui.plist
    BY <1>0, <2>1
  <2> QED BY <1>0, <1>1, <2>1, <2>2, InstallProceeds DEF AgentFrom
<1>15. CASE AgentGone
  <2>1. /\ plan # <<>>
        /\ \/ (cmd \in {"agent-install", "reload"} /\ Pos = AgentFrom + 3)
           \/ cmd = "agent-uninstall"
    BY <1>15, Locate DEF AgentGone, At
  <2> QED BY <1>0, <1>1, <1>15, <2>1, InstallProceeds DEF AgentGone, AgentFrom
<1>16. CASE AgentEnable
  <2>1. plan # <<>> /\ cmd \in {"agent-install", "reload"} /\ Pos = AgentFrom + 4
    BY <1>16, Locate DEF AgentEnable, At
  <2> QED BY <1>0, <1>1, <1>16, <2>1, InstallProceeds DEF AgentEnable, AgentFrom
<1>17. CASE AgentBootstrap
  <2>1. plan # <<>> /\ cmd \in {"agent-install", "reload"} /\ Pos = AgentFrom + 5
    BY <1>17, Locate DEF AgentBootstrap, At
  <2>2. ~hurt => Bootable(gui)
    BY <1>1, <2>1 DEF Bootable
  <2>3. CASE Bootable(gui)
    BY <1>0, <1>1, <1>17, <2>1, <2>3, InstallProceeds DEF AgentBootstrap, Bootable, AgentFrom
  <2>4. CASE ~Bootable(gui)
    BY <1>17, <2>2, <2>4, InstallIdle DEF AgentBootstrap, End
  <2> QED BY <2>3, <2>4
<1>18. CASE AgentRemove
  <2>1. plan # <<>> /\ cmd = "agent-uninstall"
    BY <1>18, Locate DEF AgentRemove, At
  <2> QED BY <1>0, <1>18, <2>1, InstallProceeds DEF AgentRemove
<1> QED BY <1>2, <1>3, <1>4, <1>5, <1>6, <1>7, <1>8, <1>9, <1>10, <1>11, <1>12, <1>13, <1>14,
           <1>15, <1>16, <1>17, <1>18 DEF AdminStep

\* Every step keeps the installs' invariant.
LEMMA StepInstall == TypeOK /\ Followed /\ InstallInv /\ [Next]_vars => InstallInv'
<1> SUFFICES ASSUME TypeOK, Followed, InstallInv, [Next]_vars PROVE InstallInv'
  OBVIOUS
<1>1. CASE AdminStep
  BY <1>1, InstallAdmin
<1>2. CASE DaemonStep \/ IdleExit \/ DaemonCrash \/ AgentKilled \/ UNCHANGED vars
  <2>1. UNCHANGED <<cmd, plan, outcome, sys, gui>>
    BY <1>2 DEF DaemonStep, Apply, BootList, BootNext, BootEnd, IdleExit, DaemonCrash, AgentKilled
  <2>2. hurt => hurt'
    BY <1>2 DEF DaemonStep, Apply, BootList, BootNext, BootEnd, IdleExit, DaemonCrash, AgentKilled
  <2> QED BY <2>1, <2>2, InstallAside
<1>3. ASSUME NEW a \in Actors, ApplyFails(a) \/ Dropped(a) PROVE InstallInv'
  BY <1>3, InstallAside DEF ApplyFails, Dropped
<1>4. CASE AgentStep
  <2>1. UNCHANGED <<admin, sys, gui>>
    BY <1>4 DEF AgentStep, AgentStart, AgentBlock, AgentList, AgentConnected, AgentSigterm,
                AgentDownList, AgentExit, AgentConnect, AgentDisconnect, AgentAsks, Ask, Wake
  <2> QED BY <2>1, InstallAside
<1>5. ASSUME NEW op \in {"connect", "disconnect"}, NEW c \in Mine, UserAsks(op, c)
      PROVE  InstallInv'
  BY <1>5, InstallAside DEF UserAsks, Ask, Wake
<1>6. CASE Logout \/ Login \/ SwitchedOff
  <2>1. plan' = <<>> /\ UNCHANGED <<outcome, hurt>>
    BY <1>6 DEF Logout, Login, SwitchedOff, Followed
  <2> QED BY <2>1, InstallIdle DEF InstallInv
<1>7. CASE StepFails \/ Interrupted \/ Reboot
  BY <1>7, InstallIdle DEF StepFails, End, Interrupted, Reboot, InstallInv
<1>8. CASE IgnoredFails
  BY <1>8 DEF IgnoredFails, InstallInv
<1>9. ASSUME NEW c \in Commands, NEW t \in Templates, Give(c, t) PROVE InstallInv'
  <2>1. outcome' # "failed"
    BY <1>9 DEF Give
  <2>2. plan' # <<>> => Pos' = 1 /\ AgentFrom' \in {0, 7}
    BY <1>9, Gives DEF AgentFrom
  <2> QED BY <2>1, <2>2 DEF InstallInv
<1> QED BY <1>1, <1>2, <1>3, <1>4, <1>5, <1>6, <1>7, <1>8, <1>9 DEF Next

\* wgd launchd install, reload and agent install after any history of commands, failures,
\* interruptions, reboots and Login Items switches: without a fault in the run itself they
\* find their labels as launchd wants them, and do not fail.
THEOREM InstallsRecover == Spec => []InstallRecovers
<1>1. Init => Followed /\ InstallInv
  BY DEF Init, Followed, InstallInv
<1>2. Spec => [](TypeOK /\ Followed /\ InstallInv)
  BY InitTyped, StepTyped, <1>1, StepFollowed, StepInstall, PTL DEF Spec
<1>3. InstallInv => InstallRecovers
  BY DEF InstallInv, InstallRecovers
<1> QED BY <1>2, <1>3, PTL

-----------------------------------------------------------------------------
(* Templates. *)

\* A command with a bad template is preparing, or about to look at it.
LEMMA BadTemplateSteps ==
  ASSUME Followed, TemplateInv, plan # <<>>, template # "good", AdminStep
  PROVE  Prepare \/ WritePlist
<1>1. cmd = "install" /\ Pos \in {1, 2}
  BY Where, Sizes DEF TemplateInv
<1>2. /\ ~At("bootout") /\ ~At("enable") /\ ~At("bootstrap") /\ ~At("disable")
      /\ ~At("remove-plist") /\ ~At("kickstart") /\ ~At("list-mine") /\ ~At("list-all")
      /\ ~At("sweep") /\ ~At("agent-plist") /\ ~At("agent-bootout") /\ ~At("agent-exit")
      /\ ~At("agent-enable") /\ ~At("agent-bootstrap") /\ ~At("agent-remove")
  BY <1>1, Locate
<1> QED BY <1>2 DEF AdminStep, Swept, AgentGone, Enable, Bootstrap, Disable, RemovePlist, Bootout,
         Kickstart, ListMine, ListAll, Sweep, AgentPlist, AgentEnable, AgentBootstrap, AgentRemove,
         AgentBootout

\* Every step keeps a command with a bad template before the point of no return.
LEMMA StepTemplate == Followed /\ TemplateInv /\ [Next]_vars => TemplateInv'
<1> SUFFICES ASSUME Followed, TemplateInv, [Next]_vars, plan' # <<>>, template' # "good"
             PROVE  cmd' = "install" /\ Pos' <= 2
  BY DEF TemplateInv
<1>1. CASE UNCHANGED <<cmd, plan, template>>
  BY <1>1 DEF TemplateInv, Pos
<1>2. CASE AdminStep
  <2>1. plan # <<>> /\ template # "good"
    BY <1>2 DEF AdminStep, Prepare, Swept, AgentGone, WritePlist, Enable, Bootstrap,
         Disable, RemovePlist, Bootout, Kickstart, ListMine, ListAll, Sweep, AgentPlist,
         AgentEnable, AgentBootstrap, AgentRemove, AgentBootout, At, Proceed, End
  <2>2. CASE Prepare
    BY <2>1, <2>2, Proceeds, Locate DEF Prepare, TemplateInv
  <2>3. CASE WritePlist
    BY <2>1, <2>3 DEF WritePlist, End
  <2> QED BY <1>2, <2>1, <2>2, <2>3, BadTemplateSteps
<1>3. CASE IgnoredFails
  <2>1. plan # <<>> /\ template # "good"
    BY <1>3 DEF IgnoredFails, At
  <2>2. cmd = "install" /\ Pos \in {1, 2}
    BY <2>1, Where, Sizes DEF TemplateInv
  <2> QED BY <1>3, <2>2, Locate DEF IgnoredFails
<1>4. CASE StepFails \/ Interrupted \/ Reboot
  BY <1>4 DEF StepFails, End, Interrupted, Reboot
<1>5. ASSUME NEW c \in Commands, NEW t \in Templates, Give(c, t)
      PROVE  cmd' = "install" /\ Pos' <= 2
  <2>1. c = "install"
    BY <1>5 DEF Give
  <2> QED BY <1>5, <2>1, Gives
<1>6. CASE AgentStep
  BY <1>1, <1>6 DEF AgentStep, AgentStart, AgentBlock, AgentList, AgentConnected, AgentSigterm,
                AgentDownList, AgentExit, AgentConnect, AgentDisconnect, AgentAsks
<1>7. CASE DaemonStep \/ IdleExit \/ DaemonCrash \/ AgentKilled \/ Logout \/ Login \/ SwitchedOff
  BY <1>1, <1>7 DEF DaemonStep, Apply, BootList, BootNext, BootEnd, IdleExit, DaemonCrash,
                    AgentKilled, Logout, Login, SwitchedOff
<1>8. ASSUME NEW a \in Actors, ApplyFails(a) \/ Dropped(a) PROVE UNCHANGED <<cmd, plan, template>>
  BY <1>8 DEF ApplyFails, Dropped
<1>9. ASSUME NEW op \in {"connect", "disconnect"}, NEW c \in Mine, UserAsks(op, c)
      PROVE  UNCHANGED <<cmd, plan, template>>
  BY <1>9 DEF UserAsks
<1> QED BY <1>1, <1>2, <1>3, <1>4, <1>5, <1>6, <1>7, <1>8, <1>9 DEF Next

\* cmd_install with a template that cannot be rendered: as long as the command runs, no
\* step of any process changes launchd's view of the service, a reboot apart.
THEOREM BadTemplateSafe == Spec => BadTemplateHarmless
<1>1. Init => Followed /\ TemplateInv
  BY DEF Init, Followed, TemplateInv
<1>2. Spec => [](Followed /\ TemplateInv)
  BY <1>1, StepFollowed, StepTemplate, PTL DEF Spec
<1>3. ASSUME Followed, TemplateInv, [Next]_vars, plan # <<>>, template # "good", ~Reboot
      PROVE  sys' = sys
  <2>1. CASE AdminStep
    <3>1. CASE Prepare
      BY <3>1 DEF Prepare
    <3>2. CASE WritePlist
      BY <1>3, <3>2 DEF WritePlist
    <3> QED BY <1>3, <2>1, <3>1, <3>2, BadTemplateSteps
  <2>2. CASE AgentStep
    BY <2>2 DEF AgentStep, AgentStart, AgentBlock, AgentList, AgentConnected, AgentSigterm,
                AgentDownList, AgentExit, AgentConnect, AgentDisconnect, AgentAsks, Ask, Wake
  <2>3. CASE DaemonStep \/ IdleExit \/ DaemonCrash \/ AgentKilled \/ Logout \/ Login \/ SwitchedOff
    BY <2>3 DEF DaemonStep, Apply, BootList, BootNext, BootEnd, IdleExit, DaemonCrash,
                AgentKilled, Logout, Login, SwitchedOff
  <2>4. CASE StepFails \/ IgnoredFails \/ Interrupted \/ UNCHANGED vars
    BY <2>4 DEF StepFails, IgnoredFails, Interrupted
  <2>5. ASSUME NEW a \in Actors, ApplyFails(a) \/ Dropped(a) PROVE sys' = sys
    BY <2>5 DEF ApplyFails, Dropped
  <2>6. ASSUME NEW op \in {"connect", "disconnect"}, NEW c \in Mine, UserAsks(op, c)
        PROVE  sys' = sys
    BY <2>6 DEF UserAsks, Ask, Wake
  <2>7. ASSUME NEW c \in Commands, NEW t \in Templates, Give(c, t) PROVE sys' = sys
    BY <2>7 DEF Give
  <2> QED BY <1>3, <2>1, <2>2, <2>3, <2>4, <2>5, <2>6, <2>7 DEF Next
<1>4. Followed /\ TemplateInv /\ [Next]_vars
        => [plan # <<>> /\ template # "good" /\ ~Reboot => sys' = sys]_vars
  BY <1>3
<1> QED BY <1>2, <1>4, PTL DEF Spec, BadTemplateHarmless

-----------------------------------------------------------------------------
(* The sweep before an uninstall. *)

\* A step that leaves alone what the sweep is about.
LEMMA SweepAside ==
  ASSUME SweepInv, UNCHANGED <<cmd, plan, outcome, standing, tunnel>>, hurt => hurt',
         unheard => unheard', req'["admin"] = req["admin"], todo'["admin"] = todo["admin"]
  PROVE  SweepInv'
BY DEF SweepInv, Pos, Connected

\* The death of the daemon: what stands is still up; the sweep's list is kept.
LEMMA SweepKilled ==
  ASSUME TypeOK, SweepInv, Killed
  PROVE  /\ standing' \subseteq standing /\ standing' \subseteq Connected'
         /\ req'["admin"] = None /\ todo'["admin"] = todo["admin"]
<1>1. PICK left \in [Conns -> {"down", "up", "stray"}] :
        /\ \A c \in Conns : left[c] \in {tunnel[c]}
             \cup UNION {Cut(req[a]) : a \in {x \in {y \in Actors : req[y] # None} : req[x].conn = c}}
        /\ tunnel' = left
        /\ standing' = {c \in standing : left[c] # "down"}
  BY DEF Killed
<1>2. ASSUME NEW c \in Conns, tunnel[c] = "up" PROVE left[c] \in {"up", "down"}
  <2>1. ASSUME NEW a \in Actors, req[a] # None, req[a].conn = c PROVE Cut(req[a]) \subseteq {"up", "down"}
    BY <1>2, <2>1 DEF Cut
  <2> QED BY <1>1, <1>2, <2>1
<1>3. req'["admin"] = None /\ todo'["admin"] = todo["admin"]
  BY DEF Killed, TypeOK
<1> QED BY <1>1, <1>2, <1>3 DEF SweepInv, Connected

\* A request is carried out: what it lowers no longer stands.
LEMMA SweepApply ==
  ASSUME TypeOK, SweepInv, NEW a \in Actors, Apply(a) PROVE SweepInv'
<1>1. /\ req[a].conn \in Conns /\ req[a].op \in Ops /\ req' = [req EXCEPT ![a] = None]
      /\ UNCHANGED <<cmd, plan, outcome, hurt, unheard, todo>> /\ Pos' = Pos
  BY DEF TypeOK, Apply, Answered, Pos
<1>2. CASE req[a].op \in {"disconnect", "teardown"}
  <2>1. standing' = standing \ {req[a].conn}
    BY <1>2 DEF Apply, Effect, Lower
  <2>2. standing' \subseteq Connected'
    BY <1>1, <1>2, <2>1 DEF SweepInv, Connected, Apply, Effect, Lower
  <2> QED BY <1>1, <2>1, <2>2 DEF SweepInv, TypeOK
<1>3. CASE req[a].op \notin {"disconnect", "teardown"}
  <2>1. standing' = standing /\ a # "admin"
    BY <1>3 DEF Apply, Effect, SweepInv
  <2>2. standing' \subseteq Connected'
    BY <1>1, <1>3, <2>1 DEF SweepInv, Connected, Apply, Effect, TypeOK
  <2> QED BY <1>1, <2>1, <2>2 DEF SweepInv, TypeOK
<1> QED BY <1>2, <1>3

\* A step that goes on.
LEMMA SweepProceeds ==
  ASSUME Followed, plan # <<>>, Proceed, UNCHANGED <<session, hurt, unheard>>,
         standing' \subseteq Connected',
         req'["admin"] # None => req'["admin"].op = "teardown",
         cmd = "uninstall" /\ ~hurt /\ ~unheard =>
           /\ Pos = 1 => \A c \in standing' : c \in todo'["admin"]
           /\ Pos > 1 => standing' = {}
  PROVE  SweepInv'
<1>1. Pos \in 1 .. Size(cmd) /\ Size("uninstall") = 7
  BY Where DEF Size
<1>2. CASE plan' = <<>>
  BY <1>1, <1>2, Proceeds DEF SweepInv
<1>3. CASE plan' # <<>>
  <2>1. Pos' = Pos + 1 /\ cmd' = cmd /\ outcome' = "none"
    BY <1>3, Proceeds
  <2> QED BY <1>1, <2>1 DEF SweepInv
<1> QED BY <1>2, <1>3

\* A step of a command.
LEMMA SweepAdmin ==
  ASSUME TypeOK, Followed, SweepInv, AdminStep PROVE SweepInv'
<1>0. UNCHANGED session
  BY DEF AdminStep, Prepare, Swept, AgentGone, WritePlist, Enable, Bootstrap, Disable,
         RemovePlist, Bootout, Kickstart, ListMine, ListAll, Sweep, AgentPlist, AgentEnable,
         AgentBootstrap, AgentRemove, AgentBootout
<1>1. ASSUME plan # <<>>, cmd # "uninstall", UNCHANGED <<hurt, unheard>>,
             Proceed \/ (\E how : End(how)),
             standing' \subseteq Connected', req'["admin"] # None => req'["admin"].op = "teardown"
      PROVE  SweepInv'
  BY <1>1 DEF SweepInv, Proceed, End
<1>2. UNCHANGED <<tunnel, standing>> => standing' \subseteq Connected'
  BY DEF SweepInv, Connected
<1>3. UNCHANGED req => (req'["admin"] # None => req'["admin"].op = "teardown")
  BY DEF SweepInv
<1>4. CASE Prepare \/ WritePlist \/ Enable \/ Bootstrap
  BY <1>1, <1>2, <1>3, <1>4, Locate DEF Prepare, WritePlist, Enable, Bootstrap, At
<1>5. CASE AgentPlist \/ AgentEnable \/ AgentBootstrap \/ AgentRemove \/ AgentBootout \/ AgentGone
  BY <1>1, <1>2, <1>3, <1>5, Locate DEF AgentPlist, AgentEnable, AgentBootstrap, AgentRemove,
     AgentBootout, AgentGone, At
<1>6. CASE Kickstart
  BY <1>1, <1>2, <1>3, <1>6, SweepKilled, Locate DEF Kickstart, At
<1>7. CASE ListMine
  BY <1>1, <1>2, <1>3, <1>7, Locate DEF ListMine, At
<1>8. CASE Bootout
  <2>1. /\ standing' \subseteq standing /\ standing' \subseteq Connected'
        /\ req'["admin"] # None => req'["admin"].op = "teardown"
    BY <1>2, <1>3, <1>8, SweepKilled DEF Bootout, Stop
  <2>2. CASE cmd # "uninstall"
    BY <1>1, <1>8, <2>1, <2>2 DEF Bootout, At
  <2>3. CASE cmd = "uninstall"
    <3>1. plan # <<>> /\ Pos = 5
      BY <1>8, <2>3, Locate DEF Bootout, At
    <3> QED BY <1>0, <1>8, <2>1, <3>1, SweepProceeds DEF Bootout, SweepInv
  <2> QED BY <2>2, <2>3
<1>9. CASE Disable \/ RemovePlist
  <2>1. plan # <<>> /\ cmd = "uninstall" /\ Pos \in {6, 7}
    BY <1>9, Locate DEF Disable, RemovePlist, At
  <2> QED BY <1>0, <1>2, <1>3, <1>9, <2>1, SweepProceeds DEF Disable, RemovePlist, SweepInv
<1>10. CASE ListAll
  <2>1. plan # <<>> /\ cmd = "uninstall" /\ Pos \in {1, 3}
    BY <1>10, Locate DEF ListAll, At
  <2>2. CASE sys.loaded
    <3>1. todo'["admin"] = Connected
      BY <1>10, <2>2 DEF ListAll, TypeOK
    <3> QED BY <1>0, <1>2, <1>3, <1>10, <2>1, <2>2, <3>1, SweepProceeds DEF ListAll, SweepInv
  <2>3. CASE ~sys.loaded
    BY <1>2, <1>3, <1>10, <2>3 DEF ListAll, SweepInv
  <2> QED BY <2>2, <2>3
<1>11. ASSUME NEW c \in Conns, Sweep(c) PROVE SweepInv'
  <2>1. /\ req["admin"] = None /\ req'["admin"] = [op |-> "teardown", conn |-> c]
        /\ todo'["admin"] = todo["admin"] \ {c} /\ UNCHANGED <<store, admin>> /\ Pos' = Pos
    BY <1>11 DEF Sweep, Ask, TypeOK, Pos
  <2> QED BY <1>2, <2>1 DEF SweepInv
<1>12. CASE Swept
  <2>1. plan # <<>> /\ (cmd = "reload" \/ (cmd = "uninstall" /\ Pos \in {2, 4}))
    BY <1>12, Locate DEF Swept, At
  <2>2. CASE cmd = "reload"
    BY <1>1, <1>2, <1>3, <1>12, <2>1, <2>2 DEF Swept
  <2>3. CASE cmd = "uninstall"
    BY <1>0, <1>2, <1>3, <1>12, <2>1, <2>3, SweepProceeds DEF Swept, SweepInv
  <2> QED BY <2>1, <2>2, <2>3
<1> QED BY <1>4, <1>5, <1>6, <1>7, <1>8, <1>9, <1>10, <1>11, <1>12 DEF AdminStep

\* Every step keeps the sweep's invariant.
LEMMA StepSweep == TypeOK /\ Followed /\ SweepInv /\ [Next]_vars => SweepInv'
<1> SUFFICES ASSUME TypeOK, Followed, SweepInv, [Next]_vars PROVE SweepInv'
  OBVIOUS
<1>0. ASSUME hurt', standing' \subseteq Connected',
             req'["admin"] # None => req'["admin"].op = "teardown"
      PROVE  SweepInv'
  BY <1>0 DEF SweepInv
<1>1. CASE AdminStep
  BY <1>1, SweepAdmin
<1>2. CASE DaemonStep
  <2>1. CASE BootList \/ BootEnd \/ \E c \in Conns : BootNext(c)
    BY <2>1, SweepAside DEF BootList, BootEnd, BootNext, TypeOK
  <2> QED BY <1>2, <2>1, SweepApply DEF DaemonStep
<1>3. CASE AgentStep
  <2>1. /\ UNCHANGED <<cmd, plan, outcome, standing, tunnel, hurt, unheard>>
        /\ req'["admin"] = req["admin"] /\ todo'["admin"] = todo["admin"]
    BY <1>3 DEF AgentStep, AgentStart, AgentBlock, AgentList, AgentConnected, AgentSigterm,
                AgentDownList, AgentExit, AgentConnect, AgentDisconnect, AgentAsks, Ask, TypeOK
  <2> QED BY <2>1, SweepAside
<1>4. CASE IdleExit \/ AgentKilled \/ Logout \/ Login \/ SwitchedOff \/ UNCHANGED vars
  BY <1>4, SweepAside DEF IdleExit, AgentKilled, Logout, Login, SwitchedOff, TypeOK
<1>5. CASE DaemonCrash
  <2>1. /\ standing' \subseteq standing /\ standing' \subseteq Connected'
        /\ req'["admin"] = None /\ todo'["admin"] = todo["admin"]
    BY <1>5, SweepKilled DEF DaemonCrash
  <2>2. CASE req["admin"] # None
    BY <1>0, <1>5, <2>1, <2>2 DEF DaemonCrash
  <2>3. CASE req["admin"] = None
    <3>1. UNCHANGED <<cmd, plan, outcome, unheard>> /\ (hurt => hurt') /\ Pos' = Pos
      BY <1>5 DEF DaemonCrash, Pos
    <3> QED BY <2>1, <2>3, <3>1 DEF SweepInv
  <2> QED BY <2>2, <2>3
<1>6. CASE StepFails \/ IgnoredFails \/ Interrupted
  BY <1>0, <1>6 DEF StepFails, IgnoredFails, Interrupted, SweepInv, Connected
<1>7. CASE Reboot
  BY <1>7 DEF Reboot, Lower, SweepInv, TypeOK
<1>8. ASSUME NEW a \in Actors, ApplyFails(a) PROVE SweepInv'
  <2>1. CASE a = "admin"
    BY <1>0, <1>8, <2>1 DEF ApplyFails, Answered, SweepInv, Connected, TypeOK
  <2>2. CASE a # "admin"
    BY <1>8, <2>2, SweepAside DEF ApplyFails, Answered, TypeOK
  <2> QED BY <2>1, <2>2
<1>9. ASSUME NEW a \in Actors, Dropped(a) PROVE SweepInv'
  <2>1. CASE a = "admin"
    BY <1>0, <1>9, <2>1 DEF Dropped, SweepInv, Connected, TypeOK
  <2>2. CASE a # "admin"
    BY <1>9, <2>2, SweepAside DEF Dropped, TypeOK
  <2> QED BY <2>1, <2>2
<1>10. ASSUME NEW op \in {"connect", "disconnect"}, NEW c \in Mine, UserAsks(op, c)
       PROVE  SweepInv'
  BY <1>10, SweepAside DEF UserAsks, Ask, TypeOK
<1>11. ASSUME NEW c \in Commands, NEW t \in Templates, Give(c, t) PROVE SweepInv'
  <2>1. /\ standing' \subseteq Connected' /\ UNCHANGED req /\ cmd' = c
        /\ c = "uninstall" => outcome' = "none"
    BY <1>11 DEF Give, Connected
  <2>2. plan' # <<>> => Pos' = 1
    BY <1>11, Gives
  <2> QED BY <2>1, <2>2 DEF SweepInv
<1> QED BY <1>1, <1>2, <1>3, <1>4, <1>5, <1>6, <1>7, <1>8, <1>9, <1>10, <1>11 DEF Next

\* wgd launchd uninstall: of the tunnels that were up when it began none has stayed up
\* through it, if its listings reached the service and no step failed, whoever else
\* connects, disconnects or is killed between its two sweeps.
THEOREM UninstallSweepsAll == Spec => []UninstallSweeps
<1>1. Init => Followed /\ SweepInv
  BY DEF Init, Followed, SweepInv, Connected
<1>2. Spec => [](TypeOK /\ Followed /\ SweepInv)
  BY InitTyped, StepTyped, <1>1, StepFollowed, StepSweep, PTL DEF Spec
<1>3. SweepInv => UninstallSweeps
  BY DEF SweepInv, UninstallSweeps
<1> QED BY <1>2, <1>3, PTL
=============================================================================
