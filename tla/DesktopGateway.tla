---------------------------- MODULE DesktopGateway ----------------------------
(***************************************************************************)
(* The router behind Claude Desktop: `raydock claude-desktop [start | stop *)
(* | install-service | uninstall-service | uninstall | serve]`             *)
(* (crates/rayline-cli/src/claude_app.rs).  It runs detached, recorded in  *)
(* a pid file, or as a login service of launchd, which runs `serve` (the   *)
(* agent) and restarts it when it ends.  The instance file says with which *)
(* settings the router was started.                                        *)
(*                                                                         *)
(* Commands hold a lease, so one runs at a time; it may be killed at every *)
(* step.  The agent takes no lease.  Settings are the agent's arguments    *)
(* (environment, ids, binary) and the Rayline key, which another command   *)
(* may replace.  launchd and processes are external.                       *)
(***************************************************************************)
EXTENDS Naturals, FiniteSets

CONSTANTS
  Arguments, Keys,
  MaxRouters,      \* bound: how many routers are spawned
  NoSetting

VARIABLES
  router,     \* the processes: [state, settings, of]
  recorded,   \* the pid file: a router, 0 for none, Unrelated for a reused pid
  instance,   \* the settings in the instance file
  plist,      \* the arguments in the file of the login service
  loaded,     \* the arguments launchd has loaded
  agent,      \* where launchd's `serve` is
  key,        \* the key in Rayline's credentials
  step, ask,  \* where the command is, and what it was asked: [op, settings]
  current,    \* the start has found the wanted settings in the instance file
  broken,     \* history: a command was killed or gave up in the middle
  lost        \* history: the routers whose parent died before recording them

fileVars == <<recorded, instance, plist>>
serviceVars == <<loaded, agent, key>>
commandVars == <<step, ask, current>>
historyVars == <<broken, lost>>
vars == <<router, fileVars, serviceVars, commandVars, historyVars>>

Unrelated == MaxRouters + 1
Routers  == 1 .. MaxRouters
AllSettings == [args : Arguments, key : Keys]
Unborn == [state |-> "unborn", settings |-> NoSetting, of |-> "nobody"]
Dead   == [Unborn EXCEPT !.state = "dead"]
NoAsk  == [op |-> "stop", settings |-> NoSetting]
GatewayOps == {"start", "stop", "install", "uninstall service", "uninstall"}
Steps == {"idle", "files", "service", "rebootstrap", "bootstrap", "wait service", "give up",
          "detached", "stop", "stopping", "ports", "record", "wait", "undo", "undoing",
          "instance", "bootout", "unlink", "clear"}

Alive(i) == router[i].state \in {"shell", "starting", "serving", "stopping"}
Serving  == {i \in Routers : router[i].state = "serving"}
Holders  == {i \in Routers : router[i].state \in {"serving", "stopping"}}

(* stop_target: the recorded process is alive and its command line is that *)
(* of a router.                                                            *)
Ours    == recorded \in Routers /\ Alive(recorded) /\ router[recorded].state # "shell"
Foreign == recorded = Unrelated \/ (recorded \in Routers /\ router[recorded].state = "shell")

(* A router answers, and all routers have the one token.                   *)
Guarded == Serving # {}

Init ==
  /\ router = [i \in Routers |-> Unborn]
  /\ recorded \in {0, Unrelated} /\ instance = NoSetting
  /\ plist = NoSetting /\ loaded = NoSetting /\ agent = "off"
  /\ key \in Keys
  /\ step = "idle" /\ ask = NoAsk /\ current = FALSE
  /\ broken = FALSE /\ lost = {}

Goto(l) == step' = l /\ UNCHANGED <<ask, current>>
Free    == {i \in Routers : router[i] = Unborn}
SetState(i, s) == router' = [router EXCEPT ![i] = IF s = "dead" THEN Dead ELSE [@ EXCEPT !.state = s]]
EndsHere == step' = "idle" /\ ask' = NoAsk /\ current' = FALSE

(* SIGTERM by launchd to the agent's process, which may take its time.     *)
Terminated ==
  [i \in Routers |-> IF router[i].of # "launchd" THEN router[i]
                     ELSE CASE router[i].state \in {"shell", "starting"} -> Dead
                            [] router[i].state = "serving" ->
                                 [router[i] EXCEPT !.state = "stopping"]
                            [] OTHER -> router[i]]

-----------------------------------------------------------------------------
(* The commands.  The router's configuration file is rewritten in every    *)
(* start; a running router has read it already.                            *)
(* Variant: the comparison leaves the key out.                             *)
BeginForgettingKey(op, a) ==
  /\ step = "idle"
  /\ ask' = [op |-> op, settings |-> [args |-> a, key |-> key]]
  /\ current' = (instance # NoSetting /\ instance.args = a)
  /\ step' = CASE op = "start" -> "service" [] op = "install" -> "stop" [] OTHER -> "bootout"
  /\ UNCHANGED <<router, fileVars, serviceVars, historyVars>>

Begin(op, a) ==
  /\ step = "idle"
  /\ ask' = [op |-> op, settings |-> [args |-> a, key |-> key]]
  /\ current' = (instance = [args |-> a, key |-> key])
  /\ step' = CASE op = "start" -> "service" [] op = "install" -> "stop" [] OTHER -> "bootout"
  /\ UNCHANGED <<router, fileVars, serviceVars, historyVars>>

Args == ask.settings.args

(* start with the service loaded: a change of its arguments reloads it, a  *)
(* change of the key, or a router that does not answer, restarts it.       *)
Reload ==
  /\ step = "service" /\ loaded # NoSetting /\ plist # Args
  /\ loaded' = NoSetting /\ agent' = "off" /\ router' = Terminated
  /\ Goto("rebootstrap")
  /\ UNCHANGED <<fileVars, key, historyVars>>

Kickstart ==
  /\ step = "service" /\ loaded # NoSetting /\ plist = Args
  /\ ~current \/ ~Guarded
  /\ agent' = "begin" /\ router' = Terminated
  /\ Goto("wait service")
  /\ UNCHANGED <<fileVars, loaded, key, historyVars>>

KeepService ==
  /\ step = "service" /\ loaded # NoSetting /\ plist = Args
  /\ current /\ Guarded
  /\ Goto("wait service")
  /\ UNCHANGED <<router, fileVars, serviceVars, historyVars>>

Bootstrap ==
  /\ step = "rebootstrap"
  /\ plist' = Args
  /\ Goto("bootstrap")
  /\ UNCHANGED <<router, recorded, instance, serviceVars, historyVars>>

LoadService ==
  /\ step = "bootstrap"
  /\ loaded' = Args /\ agent' = "begin"
  /\ Goto("wait service")
  /\ UNCHANGED <<router, fileVars, key, historyVars>>

WaitService ==
  /\ step = "wait service" /\ Guarded
  /\ EndsHere
  /\ UNCHANGED <<router, fileVars, serviceVars, historyVars>>

(* The deadline: the service is unloaded.                                  *)
GiveUp ==
  /\ step = "wait service"
  /\ loaded' = NoSetting /\ agent' = "off" /\ router' = Terminated
  /\ EndsHere
  /\ UNCHANGED <<fileVars, key, historyVars>>

(* start without the service: a file left for the next login is kept on    *)
(* the wanted arguments.                                                   *)
KeepPlist ==
  /\ step = "service" /\ loaded = NoSetting
  /\ plist' = IF plist = NoSetting THEN plist ELSE Args
  /\ Goto("detached")
  /\ UNCHANGED <<router, recorded, instance, serviceVars, historyVars>>

Reuse ==
  /\ step = "detached" /\ Ours /\ current /\ Guarded
  /\ EndsHere
  /\ UNCHANGED <<router, fileVars, serviceVars, historyVars>>

Replace ==
  /\ step = "detached" /\ ~(Ours /\ current /\ Guarded)
  /\ Goto(IF Ours THEN "stop" ELSE "ports")
  /\ UNCHANGED <<router, fileVars, serviceVars, historyVars>>

(* stop_instance.  A process that is not ours is left alone.               *)
AfterStop == CASE ask.op = "start"   -> "ports"
               [] ask.op = "install" -> "bootout"
               [] ask.op = "stop"    -> "idle"
               [] OTHER              -> "clear"
Terminate ==
  /\ step = "stop" /\ Ours
  /\ SetState(recorded, IF router[recorded].state = "starting" THEN "dead" ELSE "stopping")
  /\ Goto("stopping")
  /\ UNCHANGED <<fileVars, serviceVars, historyVars>>

StopForeign ==
  /\ step = "stop" /\ Foreign
  /\ EndsHere
  /\ UNCHANGED <<router, fileVars, serviceVars, historyVars>>

Unrecord ==
  /\ \/ step = "stop" /\ ~Ours /\ ~Foreign
     \/ step = "stopping" /\ ~Alive(recorded)
  /\ recorded' = 0
  /\ IF AfterStop = "idle" THEN EndsHere ELSE Goto(AfterStop)
  /\ UNCHANGED <<router, instance, plist, serviceVars, historyVars>>

(* It has not gone in time.                                                *)
StopFails ==
  /\ step = "stopping" /\ Alive(recorded)
  /\ EndsHere
  /\ UNCHANGED <<router, fileVars, serviceVars, historyVars>>

PortsBusy ==
  /\ step = "ports" /\ Holders # {}
  /\ EndsHere
  /\ UNCHANGED <<router, fileVars, serviceVars, historyVars>>

Spawn ==
  /\ step = "ports" /\ Holders = {} /\ Free # {}
  /\ LET i == CHOOSE i \in Free : \A j \in Free : i <= j
     IN router' = [router EXCEPT ![i] = [state |-> "starting", settings |-> ask.settings,
                                         of |-> "command"]]
  /\ Goto("record")
  /\ UNCHANGED <<fileVars, serviceVars, historyVars>>

Spawned == CHOOSE i \in Routers : router[i] # Unborn /\ \A j \in Routers : j > i => router[j] = Unborn

Record ==
  /\ step = "record"
  /\ recorded' = Spawned
  /\ Goto("wait")
  /\ UNCHANGED <<router, instance, plist, serviceVars, historyVars>>

Wait ==
  /\ step = "wait" /\ Guarded
  /\ Goto("instance")
  /\ UNCHANGED <<router, fileVars, serviceVars, historyVars>>

(* The router died, or has not answered in time: it is stopped, and        *)
(* whether it could be is ignored.                                         *)
WaitFails ==
  /\ step = "wait"
  /\ Goto("undo")
  /\ UNCHANGED <<router, fileVars, serviceVars, historyVars>>

Undo ==
  /\ step = "undo"
  /\ IF Ours
     THEN /\ SetState(recorded, IF router[recorded].state = "starting" THEN "dead"
                                ELSE "stopping")
          /\ UNCHANGED recorded
          /\ Goto("undoing")
     ELSE recorded' = 0 /\ UNCHANGED router /\ EndsHere
  /\ UNCHANGED <<instance, plist, serviceVars, historyVars>>

(* Variant: the record goes whether or not the router has gone.            *)
UndoForgets ==
  /\ step = "undoing"
  /\ recorded' = 0
  /\ EndsHere
  /\ UNCHANGED <<router, instance, plist, serviceVars, historyVars>>

UndoEnds ==
  /\ step = "undoing"
  /\ \/ ~Alive(recorded) /\ recorded' = 0 /\ UNCHANGED broken
     \/ Alive(recorded) /\ UNCHANGED recorded /\ broken' = TRUE
  /\ EndsHere
  /\ UNCHANGED <<router, instance, plist, serviceVars, lost>>

WriteInstance ==
  /\ step = "instance"
  /\ instance' = ask.settings
  /\ EndsHere
  /\ UNCHANGED <<router, recorded, plist, serviceVars, historyVars>>

(* bootout_service, at the start of stop, uninstall-service and uninstall, *)
(* and in install-service once the detached router is gone.                *)
Bootout ==
  /\ step = "bootout"
  /\ loaded' = NoSetting /\ agent' = "off" /\ router' = Terminated
  /\ Goto(CASE ask.op = "stop"    -> "stop"
            [] ask.op = "install" -> "rebootstrap"
            [] OTHER              -> "unlink")
  /\ UNCHANGED <<fileVars, key, historyVars>>

Unlink ==
  /\ step = "unlink"
  /\ plist' = NoSetting
  /\ IF ask.op = "uninstall" THEN Goto("stop") ELSE EndsHere
  /\ UNCHANGED <<router, recorded, instance, serviceVars, historyVars>>

(* uninstall removes the state directory.                                  *)
Clear ==
  /\ step = "clear"
  /\ recorded' = 0 /\ instance' = NoSetting
  /\ EndsHere
  /\ UNCHANGED <<router, plist, serviceVars, historyVars>>

Kill ==
  /\ step # "idle"
  /\ lost' = IF step = "record" THEN lost \cup {Spawned} ELSE lost
  /\ broken' = TRUE
  /\ EndsHere
  /\ UNCHANGED <<router, fileVars, serviceVars>>

-----------------------------------------------------------------------------
(* launchd's agent: `serve` writes the instance file and the pid file and  *)
(* becomes the router.                                                     *)
AgentWrites ==
  /\ agent = "begin" /\ Free # {}
  /\ instance' = [args |-> loaded, key |-> key]
  /\ agent' = "instance"
  /\ UNCHANGED <<router, recorded, plist, loaded, key, commandVars, historyVars>>

AgentRecords ==
  /\ agent = "instance" /\ Free # {}
  /\ LET i == CHOOSE i \in Free : \A j \in Free : i <= j
     IN /\ router' = [router EXCEPT ![i] = [state |-> "shell", settings |-> instance,
                                            of |-> "launchd"]]
        /\ recorded' = i
  /\ agent' = "exec"
  /\ UNCHANGED <<instance, plist, loaded, key, commandVars, historyVars>>

Exec ==
  /\ agent = "exec"
  /\ \E i \in Routers : router[i].state = "shell" /\ SetState(i, "starting")
  /\ agent' = "runs"
  /\ UNCHANGED <<fileVars, loaded, key, commandVars, historyVars>>

(* KeepAlive: when its process has ended it is started again.              *)
Restart ==
  /\ agent = "runs" /\ \A i \in Routers : router[i].of = "launchd" => ~Alive(i)
  /\ agent' = "begin"
  /\ UNCHANGED <<router, fileVars, loaded, key, commandVars, historyVars>>

(* A router has the ports, or ends because it cannot; a signalled one goes.*)
Serve(i) ==
  /\ router[i].state = "starting"
  /\ SetState(i, IF Holders = {} THEN "serving" ELSE "dead")
  /\ UNCHANGED <<fileVars, serviceVars, commandVars, historyVars>>

Die(i) ==
  /\ router[i].state \in {"starting", "serving", "stopping"}
  /\ SetState(i, "dead")
  /\ UNCHANGED <<fileVars, serviceVars, commandVars, historyVars>>

(* `raydock auth login` replaces the key.                                  *)
NewKey ==
  /\ step = "idle" /\ key' \in Keys \ {key}
  /\ UNCHANGED <<router, fileVars, loaded, agent, commandVars, historyVars>>

(* After a reboot launchd loads the file, and the old pid may be anyone's. *)
Reboot ==
  /\ step = "idle" /\ \E i \in Routers : Alive(i)
  /\ router' = [i \in Routers |-> IF Alive(i) THEN Dead ELSE router[i]]
  /\ recorded' \in {recorded, Unrelated}
  /\ loaded' = plist /\ agent' = IF plist = NoSetting THEN "off" ELSE "begin"
  /\ UNCHANGED <<instance, plist, key, commandVars, historyVars>>

Command ==
  \/ \E op \in GatewayOps, a \in Arguments : Begin(op, a)
  \/ Reload \/ Kickstart \/ KeepService \/ Bootstrap \/ LoadService \/ WaitService
  \/ GiveUp \/ KeepPlist \/ Reuse \/ Replace \/ Terminate \/ StopForeign \/ Unrecord
  \/ StopFails \/ PortsBusy \/ Spawn \/ Record \/ Wait \/ WaitFails \/ Undo
  \/ UndoEnds \/ WriteInstance \/ Bootout \/ Unlink \/ Clear \/ Kill

Environment ==
  \/ AgentWrites \/ AgentRecords \/ Exec \/ Restart \/ NewKey \/ Reboot
  \/ \E i \in Routers : Serve(i) \/ Die(i)

Next == Command \/ Environment
Spec == Init /\ [][Next]_vars

-----------------------------------------------------------------------------
TypeOK ==
  /\ router \in [Routers -> [state : {"unborn", "shell", "starting", "serving",
                                      "stopping", "dead"},
                             settings : AllSettings \cup {NoSetting},
                             of : {"nobody", "command", "launchd"}]]
  /\ recorded \in 0 .. Unrelated
  /\ instance \in AllSettings \cup {NoSetting}
  /\ plist \in Arguments \cup {NoSetting} /\ loaded \in Arguments \cup {NoSetting}
  /\ agent \in {"off", "begin", "instance", "exec", "runs"}
  /\ key \in Keys /\ step \in Steps /\ ask.op \in GatewayOps
  /\ lost \subseteq Routers

(* A detached start that reports a running router (lines 1309-1311) is     *)
(* right about its settings, when no command was cut off.                  *)
ReusedIsCurrent ==
  step = "detached" /\ Ours /\ current /\ Guarded /\ ~broken
    => \A i \in Serving : router[i].settings = ask.settings

(* Whatever serves can be stopped: it is recorded, or launchd has it, or   *)
(* its command was killed before it recorded it.                           *)
NoneForgotten ==
  \A i \in Routers :
    Alive(i) => \/ recorded = i \/ i \in lost
                \/ router[i].of = "launchd" /\ (loaded # NoSetting \/ router[i].state = "stopping")
                \/ step = "record" /\ i = Spawned
=============================================================================
