--------------------------- MODULE ServeLifecycle ---------------------------
(***************************************************************************)
(* The life of the `rld serve` daemon as the CLI manages it                *)
(* (crates/rayline-cli/src/router.rs): several `rayline` commands run at   *)
(* the same time and share one state directory that holds a pid file, a    *)
(* meta file and an advisory lock file.  `start` holds the lock from       *)
(* reading the pid file to recording the daemon it spawned and then waits  *)
(* for it without the lock; `stop` and the launch that supersedes a serve  *)
(* daemon never take the lock.                                             *)
(*                                                                         *)
(* Every command runs one operation.  A launcher spawns at most one        *)
(* daemon, so the daemon it spawns carries the launcher's name.            *)
(***************************************************************************)
EXTENDS Naturals, FiniteSets

CONSTANTS
  Launchers,    \* CLI processes, each running one operation
  Prior,        \* a daemon that an earlier command left behind
  Stranger,     \* a process that is no daemon and reuses a recorded pid
  None,         \* no file, no answer, nobody
  Configs,      \* the launch configurations
  PriorConfig,  \* the configuration Prior was launched with
  Port,         \* Port[c]: the injector port of configuration c
  View,         \* View[c]: what c's daemon says of itself on /healthz
  Facts,        \* Facts[c]: the lines of c's meta that a restart compares
  ProxyOn,      \* the configurations that embed the proxy on the shared port
  Ops,          \* the operations the commands run
  Faults        \* what may go wrong, see AllFaults

AllOps == {"start", "stop", "supersede"}

\* "deadline"  the readiness wait of a start may run out
\* "interrupt" a command may be killed, except between spawn and record
\* "record"    the spawn, or writing the meta or the pid file, may fail, or the
\*             command may be killed there: the child it spawned stays
\* "crash"     a daemon may exit on its own
\* "probe"     a daemon that serves may miss a /healthz probe
AllFaults == {"deadline", "interrupt", "record", "crash", "probe"}

Procs   == Launchers \cup {Prior, Stranger}
Daemons == Launchers \cup {Prior}
Views   == {View[c] : c \in Configs}
Metas   == [owner : Procs, cfg : Configs, metrics : BOOLEAN]

ASSUME ServeAssumption ==
  /\ Prior \notin Launchers
  /\ Stranger \notin Launchers
  /\ Prior # Stranger
  /\ None \notin Procs
  /\ None \notin Views
  /\ None \notin Metas
  /\ PriorConfig \in Configs
  /\ DOMAIN Port = Configs
  /\ DOMAIN View = Configs
  /\ DOMAIN Facts = Configs
  /\ ProxyOn \subseteq Configs
  /\ Ops \subseteq AllOps
  /\ Faults \subseteq AllFaults

VARIABLES
  pc,        \* where each command is
  op,        \* the operation it runs
  want,      \* the configuration it was asked for
  seenPid,   \* the pid it examines (reset once it is out of scope, as below)
  seenMeta,  \* the meta it read, or the meta it wrote
  seenHealth,\* the answer to its /healthz probe
  lock,      \* who holds the advisory lock
  pidFile,   \* the process the pid file names
  metaFile,  \* the content of the meta file
  proc,      \* the state of each process
  signalled  \* the processes that were sent SIGTERM

localVars == <<op, want, seenPid, seenMeta, seenHealth>>
fileVars  == <<pidFile, metaFile>>
procVars  == <<proc, signalled>>
vars == <<pc, op, want, seenPid, seenMeta, seenHealth,
          lock, pidFile, metaFile, proc, signalled>>

LockedPcs   == {"check", "probe", "judge", "spawn", "writeMeta", "writePid",
                "dropRead", "dropWrite"}
StopPcs     == {"stopRead", "stopVerify", "stopSignal", "stopWait",
                "clearPid", "clearMeta"}
WaitPcs     == {"poll", "health", "owner", "relock"}
TerminalPcs == {"reused", "ready", "stopped", "failed", "gone"}
Pcs == {"idle", "lock", "gate"} \cup LockedPcs \cup StopPcs
       \cup WaitPcs \cup TerminalPcs

ProcStates == {"unborn", "boot", "serve", "dead"}

-----------------------------------------------------------------------------
(* What a command can observe.                                             *)

CfgOf(p) == IF p \in Launchers THEN want[p] ELSE PriorConfig

Alive(p) == proc[p] \in {"boot", "serve"}

Answering(port) == {d \in Daemons : proc[d] = "serve" /\ Port[CfgOf(d)] = port}

(* The answers a probe of a port may get: the view of the daemon bound     *)
(* there, or nothing.                                                      *)
Health(port) ==
  {View[CfgOf(d)] : d \in Answering(port)}
    \cup (IF Answering(port) = {} \/ "probe" \in Faults THEN {None} ELSE {})

(* Variant: only a process whose port answers is taken for a daemon.       *)
IsRldAnswering(p, m, h) ==
  p # Stranger /\ m # None /\ h # None /\ h = View[m.cfg]

(* is_rld_process on a pid, a meta and the answer of the meta's port.  A   *)
(* process that left no argv is judged by the answer alone.                *)
IsRld(p, m, h) ==
  IF Alive(p)
  THEN p # Stranger /\ (m = None \/ h = None \/ h = View[m.cfg])
  ELSE m # None /\ h # None /\ h = View[m.cfg]

MetaPort(m, default) == IF m = None THEN default ELSE Port[m.cfg]

MetadataMatches(m, c) == m # None /\ Facts[c] \subseteq Facts[m.cfg]

-----------------------------------------------------------------------------
Goto(l, label) == pc' = [pc EXCEPT ![l] = label]

(* A stop clears the record when the daemon is gone.  Inside a start the   *)
(* code goes on to spawn; after a deadline it reports the failure.         *)
AfterStop(l) == IF op[l] # "start" THEN "stopped"
                ELSE IF lock = l THEN "spawn" ELSE "failed"

(* The states a command can find: nothing recorded, a daemon recorded that *)
(* still runs or has crashed, or a stale record whose pid was reused.      *)
Init ==
  /\ pc = [l \in Launchers |-> "idle"]
  /\ op \in [Launchers -> Ops]
  /\ want \in [Launchers -> Configs]
  /\ seenPid = [l \in Launchers |-> None]
  /\ seenMeta = [l \in Launchers |-> None]
  /\ seenHealth = [l \in Launchers |-> None]
  /\ lock = None
  /\ signalled = {}
  /\ \/ /\ pidFile = None
        /\ metaFile = None
        /\ proc = [p \in Procs |->
                     IF p = Stranger THEN "boot" ELSE "unborn"]
     \/ \E s \in {"serve", "dead"} :
          /\ pidFile = Prior
          /\ metaFile = [owner |-> Prior, cfg |-> PriorConfig, metrics |-> TRUE]
          /\ proc = [p \in Procs |-> IF p = Stranger THEN "boot"
                                     ELSE IF p = Prior THEN s ELSE "unborn"]
     \/ /\ pidFile = Stranger
        /\ metaFile = [owner |-> Stranger, cfg |-> PriorConfig, metrics |-> TRUE]
        /\ proc = [p \in Procs |->
                     IF p = Stranger THEN "boot" ELSE "unborn"]

Begin(l) ==
  /\ pc[l] = "idle"
  /\ Goto(l, CASE op[l] = "start"     -> "lock"
               [] op[l] = "stop"      -> "stopRead"
               [] op[l] = "supersede" -> "gate")
  /\ UNCHANGED <<localVars, lock, fileVars, procVars>>

-----------------------------------------------------------------------------
(* start: the locked window.                                               *)

(* Variant: a lock that does not exclude, as on platforms without flock.   *)
AcquireShared(l) ==
  /\ pc[l] = "lock"
  /\ lock' = l
  /\ Goto(l, "check")
  /\ UNCHANGED <<localVars, fileVars, procVars>>

Acquire(l) ==
  /\ pc[l] = "lock"
  /\ lock = None
  /\ lock' = l
  /\ Goto(l, "check")
  /\ UNCHANGED <<localVars, fileVars, procVars>>

(* Variant: a dead pid is passed over without clearing its files.          *)
CheckKeepingStale(l) ==
  /\ pc[l] = "check"
  /\ seenPid' = [seenPid EXCEPT ![l] = pidFile]
  /\ Goto(l, IF pidFile # None /\ Alive(pidFile) THEN "probe" ELSE "spawn")
  /\ UNCHANGED <<op, want, seenMeta, seenHealth, lock, fileVars, procVars>>

(* Read the pid file; a dead pid is cleared, a live one is examined.       *)
Check(l) ==
  /\ pc[l] = "check"
  /\ seenPid' = [seenPid EXCEPT ![l] = pidFile]
  /\ Goto(l, IF pidFile = None THEN "spawn"
             ELSE IF Alive(pidFile) THEN "probe" ELSE "clearPid")
  /\ UNCHANGED <<op, want, seenMeta, seenHealth, lock, fileVars, procVars>>

Probe(l) ==
  /\ pc[l] = "probe"
  /\ seenMeta' = [seenMeta EXCEPT ![l] = metaFile]
  /\ \E h \in Health(MetaPort(metaFile, Port[want[l]])) :
       seenHealth' = [seenHealth EXCEPT ![l] = h]
  /\ Goto(l, "judge")
  /\ UNCHANGED <<op, want, seenPid, lock, fileVars, procVars>>

(* Variant: a daemon that answers as expected is reused without comparing  *)
(* its meta.                                                               *)
JudgeByHealth(l, isRld, requested) ==
  IF seenHealth[l] = View[want[l]] /\ isRld THEN "reused"
  ELSE IF ~isRld THEN IF requested # None THEN "failed" ELSE "clearPid"
  ELSE "stopRead"

(* The decision over the recorded process: reuse it, refuse, forget it, or *)
(* stop it.  Only forgetting and stopping keep the lock.                   *)
JudgeOutcome(l, isRld, requested) ==
  LET m == seenMeta[l]
      h == seenHealth[l]
      c == want[l]
  IN IF h = View[c] /\ isRld /\ MetadataMatches(m, c) THEN "reused"
     ELSE IF ~isRld THEN IF requested # None THEN "failed" ELSE "clearPid"
     ELSE IF ~MetadataMatches(m, c) \/ h # None THEN "stopRead"
     ELSE "failed"

Judge(l) ==
  /\ pc[l] = "judge"
  /\ LET port == MetaPort(seenMeta[l], Port[want[l]])
     IN \E h \in Health(port) :
        \E requested \in IF port = Port[want[l]] THEN {seenHealth[l]}
                         ELSE Health(Port[want[l]]) :
          LET next == JudgeOutcome(l, IsRld(seenPid[l], seenMeta[l], h), requested)
          IN /\ Goto(l, next)
             /\ lock' = IF next \in {"reused", "failed"} THEN None ELSE lock
  /\ seenMeta' = [seenMeta EXCEPT ![l] = None]
  /\ seenHealth' = [seenHealth EXCEPT ![l] = None]
  /\ UNCHANGED <<op, want, seenPid, fileVars, procVars>>

Spawn(l) ==
  /\ pc[l] = "spawn"
  /\ proc' = [proc EXCEPT ![l] = "boot"]
  /\ \E metrics \in BOOLEAN :
       seenMeta' = [seenMeta EXCEPT ![l] =
                      [owner |-> l, cfg |-> want[l], metrics |-> metrics]]
  /\ Goto(l, "writeMeta")
  /\ UNCHANGED <<op, want, seenPid, seenHealth, lock, fileVars, signalled>>

(* Variant: the lock covers the spawn and not the record.                  *)
WriteMetaUnlocked(l) ==
  /\ pc[l] = "writeMeta"
  /\ metaFile' = seenMeta[l]
  /\ lock' = None
  /\ Goto(l, "writePid")
  /\ UNCHANGED <<localVars, pidFile, procVars>>

(* The meta is renamed into place first, the pid last.                     *)
WriteMeta(l) ==
  /\ pc[l] = "writeMeta"
  /\ metaFile' = seenMeta[l]
  /\ Goto(l, "writePid")
  /\ UNCHANGED <<localVars, lock, pidFile, procVars>>

WritePid(l) ==
  /\ pc[l] = "writePid"
  /\ pidFile' = l
  /\ lock' = None
  /\ Goto(l, "poll")
  /\ UNCHANGED <<localVars, metaFile, procVars>>

(* A failed spawn or write returns the error: the lock is dropped, and a    *)
(* child that was already spawned stays.                                   *)
RecordFails(l) ==
  /\ "record" \in Faults
  /\ pc[l] \in {"spawn", "writeMeta", "writePid"}
  /\ lock' = None
  /\ Goto(l, "failed")
  /\ UNCHANGED <<localVars, fileVars, procVars>>

-----------------------------------------------------------------------------
(* start: waiting for readiness, without the lock.                         *)

Poll(l) ==
  /\ pc[l] = "poll"
  /\ Goto(l, IF Alive(l) THEN "health" ELSE "failed")
  /\ UNCHANGED <<localVars, lock, fileVars, procVars>>

(* The answer is compared with the requested meta, not with the pid.       *)
AwaitHealth(l) ==
  /\ pc[l] = "health"
  /\ \E h \in Health(Port[want[l]]) :
       Goto(l, IF h = View[want[l]] THEN "owner" ELSE "poll")
  /\ UNCHANGED <<localVars, lock, fileVars, procVars>>

(* The deadline: the child is told to stop and the record is cleared,      *)
(* whatever the record names by now and whoever holds the lock.            *)
Expire(l) ==
  /\ "deadline" \in Faults
  /\ pc[l] = "poll"
  /\ signalled' = IF Alive(l) THEN signalled \cup {l} ELSE signalled
  /\ Goto(l, "clearPid")
  /\ UNCHANGED <<localVars, lock, fileVars, proc>>

(* Who answers on the metrics port is outside this module: either the own  *)
(* daemon, and nothing is left to do, or not.                              *)
Owner(l) ==
  /\ pc[l] = "owner"
  /\ \/ Goto(l, "ready")
     \/ seenMeta[l].metrics /\ Goto(l, "relock")
  /\ UNCHANGED <<localVars, lock, fileVars, procVars>>

Relock(l) ==
  /\ pc[l] = "relock"
  /\ lock = None
  /\ lock' = l
  /\ Goto(l, "dropRead")
  /\ UNCHANGED <<localVars, fileVars, procVars>>

(* Variant: the pid file is not read again under the lock.                 *)
DropReadAny(l) ==
  /\ pc[l] = "dropRead"
  /\ IF metaFile # None /\ metaFile.metrics
     THEN /\ seenMeta' = [seenMeta EXCEPT ![l] = metaFile]
          /\ Goto(l, "dropWrite")
          /\ UNCHANGED lock
     ELSE /\ lock' = None
          /\ Goto(l, "ready")
          /\ UNCHANGED seenMeta
  /\ UNCHANGED <<op, want, seenPid, seenHealth, fileVars, procVars>>

(* Only while the pid file names the own daemon and the meta advertises    *)
(* the port is the meta read for editing.                                  *)
DropRead(l) ==
  /\ pc[l] = "dropRead"
  /\ IF pidFile = l /\ metaFile # None /\ metaFile.metrics
     THEN /\ seenMeta' = [seenMeta EXCEPT ![l] = metaFile]
          /\ Goto(l, "dropWrite")
          /\ UNCHANGED lock
     ELSE /\ lock' = None
          /\ Goto(l, "ready")
          /\ UNCHANGED seenMeta
  /\ UNCHANGED <<op, want, seenPid, seenHealth, fileVars, procVars>>

DropWrite(l) ==
  /\ pc[l] = "dropWrite"
  /\ metaFile' = [seenMeta[l] EXCEPT !.metrics = FALSE]
  /\ lock' = None
  /\ Goto(l, "ready")
  /\ UNCHANGED <<localVars, pidFile, procVars>>

-----------------------------------------------------------------------------
(* stop_router, run by `stop`, by a superseding launch and inside `start`. *)

(* A launch that will bind the proxy port itself stops a serve daemon only *)
(* when the meta says that daemon's embedded proxy has that port.          *)
Gate(l) ==
  /\ pc[l] = "gate"
  /\ Goto(l, IF pidFile # None /\ metaFile # None /\ metaFile.cfg \in ProxyOn
             THEN "stopRead" ELSE "stopped")
  /\ UNCHANGED <<localVars, lock, fileVars, procVars>>

StopRead(l) ==
  /\ pc[l] = "stopRead"
  /\ seenPid' = [seenPid EXCEPT ![l] = pidFile]
  /\ Goto(l, IF pidFile = None THEN AfterStop(l)
             ELSE IF Alive(pidFile) THEN "stopVerify" ELSE "clearPid")
  /\ UNCHANGED <<op, want, seenMeta, seenHealth, lock, fileVars, procVars>>

StopVerify(l) ==
  /\ pc[l] = "stopVerify"
  /\ \E h \in IF metaFile = None THEN {None} ELSE Health(Port[metaFile.cfg]) :
       Goto(l, IF IsRld(seenPid[l], metaFile, h) THEN "stopSignal" ELSE "clearPid")
  /\ UNCHANGED <<localVars, lock, fileVars, procVars>>

(* Variant: the pid file is read again to send the signal.                 *)
StopSignalReread(l) ==
  /\ pc[l] = "stopSignal"
  /\ signalled' = signalled \cup {pidFile}
  /\ Goto(l, "stopWait")
  /\ UNCHANGED <<localVars, lock, fileVars, proc>>

(* Variant: the record is cleared without waiting for the process to end.  *)
StopSignalOnly(l) ==
  /\ pc[l] = "stopSignal"
  /\ signalled' = signalled \cup {seenPid[l]}
  /\ Goto(l, "clearPid")
  /\ UNCHANGED <<localVars, lock, fileVars, proc>>

StopSignal(l) ==
  /\ pc[l] = "stopSignal"
  /\ IF Alive(seenPid[l])
     THEN signalled' = signalled \cup {seenPid[l]} /\ Goto(l, "stopWait")
     ELSE Goto(l, "clearPid") /\ UNCHANGED signalled
  /\ UNCHANGED <<localVars, lock, fileVars, proc>>

StopWait(l) ==
  /\ pc[l] = "stopWait"
  /\ ~Alive(seenPid[l])
  /\ Goto(l, "clearPid")
  /\ UNCHANGED <<localVars, lock, fileVars, procVars>>

(* Variant: the last poll only sends SIGTERM once more.                    *)
ForceTerm(l) ==
  /\ pc[l] = "stopWait"
  /\ Alive(seenPid[l])
  /\ UNCHANGED vars

(* Fifty polls later the process group is killed.                          *)
ForceKill(l) ==
  /\ pc[l] = "stopWait"
  /\ Alive(seenPid[l])
  /\ proc' = [proc EXCEPT ![seenPid[l]] = "dead"]
  /\ Goto(l, "clearPid")
  /\ UNCHANGED <<localVars, lock, fileVars, signalled>>

(* clear_router_state: two removals, the pid file first.                   *)
ClearPid(l) ==
  /\ pc[l] = "clearPid"
  /\ pidFile' = None
  /\ seenPid' = [seenPid EXCEPT ![l] = None]
  /\ Goto(l, "clearMeta")
  /\ UNCHANGED <<op, want, seenMeta, seenHealth, lock, metaFile, procVars>>

ClearMeta(l) ==
  /\ pc[l] = "clearMeta"
  /\ metaFile' = None
  /\ Goto(l, AfterStop(l))
  /\ UNCHANGED <<localVars, lock, pidFile, procVars>>

-----------------------------------------------------------------------------
(* The command is killed: the kernel drops its lock, its child lives on.   *)
Interrupt(l) ==
  /\ "interrupt" \in Faults
  /\ pc[l] \notin TerminalPcs \cup {"idle", "writeMeta", "writePid"}
  /\ lock' = IF lock = l THEN None ELSE lock
  /\ Goto(l, "gone")
  /\ UNCHANGED <<localVars, fileVars, procVars>>

(* The daemon.  It binds its port once its model is loaded and exits when  *)
(* the port is taken.                                                      *)
DaemonBind(d) ==
  /\ proc[d] = "boot"
  /\ d \notin signalled
  /\ proc' = [proc EXCEPT ![d] =
                IF Answering(Port[CfgOf(d)]) = {} THEN "serve" ELSE "dead"]
  /\ UNCHANGED <<pc, localVars, lock, fileVars, signalled>>

DaemonExit(d) ==
  /\ Alive(d)
  /\ d \in signalled \/ "crash" \in Faults
  /\ proc' = [proc EXCEPT ![d] = "dead"]
  /\ UNCHANGED <<pc, localVars, lock, fileVars, signalled>>

Step(l) ==
  \/ Begin(l) \/ Acquire(l) \/ Check(l) \/ Probe(l) \/ Judge(l)
  \/ Spawn(l) \/ WriteMeta(l) \/ WritePid(l)
  \/ Poll(l) \/ AwaitHealth(l)
  \/ Owner(l) \/ Relock(l) \/ DropRead(l) \/ DropWrite(l)
  \/ Gate(l) \/ StopRead(l) \/ StopVerify(l) \/ StopSignal(l)
  \/ StopWait(l) \/ ForceKill(l) \/ ClearPid(l) \/ ClearMeta(l)

Next ==
  \/ \E l \in Launchers : Step(l)
  \/ \E l \in Launchers : Expire(l)
  \/ \E l \in Launchers : RecordFails(l)
  \/ \E l \in Launchers : Interrupt(l)
  \/ \E d \in Daemons : DaemonBind(d)
  \/ \E d \in Daemons : DaemonExit(d)

Spec == Init /\ [][Next]_vars

(* Every command keeps running, the clock reaches its deadline while it    *)
(* polls, and a daemon that is told to stop stops.  A command that waits   *)
(* for the lock or for a dying daemon needs no more than weak fairness:    *)
(* each holder of the lock lets go of it, and each command runs once.      *)
Fairness ==
  /\ \A l \in Launchers : WF_vars(Step(l))
  /\ \A l \in Launchers : SF_vars(Expire(l))

FairSpec == Spec /\ Fairness

-----------------------------------------------------------------------------
TypeOK ==
  /\ pc \in [Launchers -> Pcs]
  /\ op \in [Launchers -> AllOps]
  /\ want \in [Launchers -> Configs]
  /\ seenPid \in [Launchers -> Procs \cup {None}]
  /\ seenMeta \in [Launchers -> Metas \cup {None}]
  /\ seenHealth \in [Launchers -> Views \cup {None}]
  /\ lock \in Launchers \cup {None}
  /\ pidFile \in Procs \cup {None}
  /\ metaFile \in Metas \cup {None}
  /\ proc \in [Procs -> ProcStates]
  /\ signalled \subseteq Procs

(* A daemon is only spawned while no daemon is recorded, whatever commands *)
(* without the lock do to the record meanwhile (spawn_router runs at the   *)
(* end of the locked window).                                              *)
SpawnWhenVacant ==
  \A l \in Launchers :
    pc[l] \in {"spawn", "writeMeta", "writePid"} => lock = l /\ pidFile = None

(* The pid file never names one daemon beside the meta of another one,     *)
(* although the two files are written and removed one after the other.     *)
MetaDescribesPid ==
  pidFile # None /\ metaFile # None => metaFile.owner = pidFile

(* Reconciling the metrics port never overwrites the meta of another       *)
(* launcher's daemon (reconcile_serve_metrics_meta).                       *)
EditsOwnMeta ==
  \A l \in Launchers :
    pc[l] = "dropWrite" => /\ seenMeta[l].owner = l
                           /\ metaFile # None => metaFile.owner = l

(* A start that reports "already running" found a daemon launched with     *)
(* every setting it asked for.                                             *)
ReuseMatchesRequest ==
  \A l \in Launchers :
    pc[l] = "reused" => /\ seenPid[l] \in Daemons
                        /\ Facts[want[l]] \subseteq Facts[CfgOf(seenPid[l])]

(* Every command ends, also while others hold the lock, replace the daemon *)
(* it waits for, or are killed.                                            *)
CommandsEnd ==
  \A l \in Launchers : (pc[l] # "idle") ~> (pc[l] \in TerminalPcs)

(* "only one daemon is ever started": no two daemons are alive together.   *)
OneDaemon == \A d, e \in Daemons : Alive(d) /\ Alive(e) => d = e

(* The same of the daemons nobody told to stop: two of them stay.          *)
OneWantedDaemon ==
  \A d, e \in Daemons \ signalled : Alive(d) /\ Alive(e) => d = e

(* A living daemon whose launcher has left the locked window is recorded,  *)
(* with its own meta, until it dies: `stop`, `status` and the next start   *)
(* can find it.                                                            *)
LiveDaemonRecorded ==
  \A d \in Daemons :
    Alive(d) /\ (d \in Launchers => pc[d] \notin {"writeMeta", "writePid"})
      => /\ pidFile = d
         /\ metaFile # None /\ metaFile.owner = d

=============================================================================
