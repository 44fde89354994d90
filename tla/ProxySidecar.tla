---------------------------- MODULE ProxySidecar ----------------------------
(***************************************************************************)
(* The standalone proxy `rld proxy` (start_proxy_from_home_with_client,    *)
(* stop_proxy in crates/rayline-cli/src/router.rs).  Its commands follow   *)
(* those of the serve daemon over files and a lock of their own, so the    *)
(* state and the steps that agree are those of ServeLifecycle, read with   *)
(* proxies for daemons and the proxy port for the injector port.  This     *)
(* module has the steps that differ.                                       *)
(*                                                                         *)
(* "supersede" is `start` with force_restart: it stops the recorded proxy  *)
(* before it takes the lock.  "stop" is also what the start of a serve     *)
(* daemon does to a proxy that has its port.                               *)
(***************************************************************************)
EXTENDS ServeLifecycle

SidecarBegin(l) ==
  /\ pc[l] = "idle"
  /\ Goto(l, IF op[l] = "start" THEN "lock" ELSE "stopRead")
  /\ UNCHANGED <<localVars, lock, fileVars, procVars>>

(* Where a command goes after it cleared the record: `stop` is done, in    *)
(* the locked window the new proxy is spawned, after the deadline (the     *)
(* command has the meta of its proxy) it fails, and a forced restart has   *)
(* yet to take the lock.                                                   *)
SidecarAfterStop(l) == CASE op[l] = "stop"      -> "stopped"
                         [] lock = l            -> "gate"
                         [] seenMeta[l] # None  -> "failed"
                         [] OTHER               -> "lock"

(* Variant: a dead proxy's record is left for the spawn to overwrite.      *)
SidecarCheckKeeping(l) ==
  /\ pc[l] = "check"
  /\ seenPid' = [seenPid EXCEPT ![l] = pidFile]
  /\ Goto(l, IF pidFile # None /\ Alive(pidFile) THEN "probe" ELSE "gate")
  /\ UNCHANGED <<op, want, seenMeta, seenHealth, lock, fileVars, procVars>>

SidecarCheck(l) ==
  /\ pc[l] = "check"
  /\ seenPid' = [seenPid EXCEPT ![l] = pidFile]
  /\ Goto(l, IF pidFile = None THEN "gate"
             ELSE IF Alive(pidFile) THEN "probe" ELSE "clearPid")
  /\ UNCHANGED <<op, want, seenMeta, seenHealth, lock, fileVars, procVars>>

(* An unrecorded proxy that answers on the port is refused when it is not  *)
(* the requested one; when it is, another one is spawned all the same.     *)
SidecarGate(l) ==
  /\ pc[l] = "gate"
  /\ \E h \in Health(Port[want[l]]) :
       IF h \in {None, View[want[l]]}
       THEN Goto(l, "spawn") /\ UNCHANGED lock
       ELSE Goto(l, "failed") /\ lock' = None
  /\ UNCHANGED <<localVars, fileVars, procVars>>

(* The advertised metrics port is dropped when nothing answers there:      *)
(* without the lock and without another look at the pid file.              *)
SidecarOwner(l) ==
  /\ pc[l] = "owner"
  /\ \/ Goto(l, "ready")
     \/ seenMeta[l].metrics /\ Goto(l, "dropRead")
  /\ UNCHANGED <<localVars, lock, fileVars, procVars>>

SidecarDropRead(l) ==
  /\ pc[l] = "dropRead"
  /\ IF metaFile # None /\ metaFile.metrics
     THEN /\ seenMeta' = [seenMeta EXCEPT ![l] = metaFile]
          /\ Goto(l, "dropWrite")
     ELSE /\ Goto(l, "ready")
          /\ UNCHANGED seenMeta
  /\ UNCHANGED <<op, want, seenPid, seenHealth, lock, fileVars, procVars>>

SidecarDropWrite(l) ==
  /\ pc[l] = "dropWrite"
  /\ metaFile' = [seenMeta[l] EXCEPT !.metrics = FALSE]
  /\ Goto(l, "ready")
  /\ UNCHANGED <<localVars, lock, pidFile, procVars>>

(* Without a pid file, too, both files are removed.                        *)
SidecarStopRead(l) ==
  /\ pc[l] = "stopRead"
  /\ seenPid' = [seenPid EXCEPT ![l] = pidFile]
  /\ Goto(l, IF pidFile # None /\ Alive(pidFile) THEN "stopVerify" ELSE "clearPid")
  /\ UNCHANGED <<op, want, seenMeta, seenHealth, lock, fileVars, procVars>>

SidecarClearMeta(l) ==
  /\ pc[l] = "clearMeta"
  /\ metaFile' = None
  /\ Goto(l, SidecarAfterStop(l))
  /\ UNCHANGED <<localVars, lock, pidFile, procVars>>

(* The steps that agree with those of the serve daemon.                    *)
SidecarAcquire(l)     == Acquire(l)
SidecarProbe(l)       == Probe(l)
SidecarJudge(l)       == Judge(l)
SidecarSpawn(l)       == Spawn(l)
SidecarWriteMeta(l)   == WriteMeta(l)
SidecarWritePid(l)    == WritePid(l)
SidecarRecordFails(l) == RecordFails(l)
SidecarPoll(l)        == Poll(l)
SidecarAwaitHealth(l) == AwaitHealth(l)
SidecarExpire(l)      == Expire(l)
SidecarStopVerify(l)  == StopVerify(l)
SidecarStopSignal(l)  == StopSignal(l)
SidecarStopWait(l)    == StopWait(l)
SidecarForceKill(l)   == ForceKill(l)
SidecarClearPid(l)    == ClearPid(l)
ProxyBind(d)          == DaemonBind(d)
ProxyExit(d)          == DaemonExit(d)

SidecarStep(l) ==
  \/ SidecarBegin(l) \/ SidecarAcquire(l) \/ SidecarCheck(l) \/ SidecarProbe(l)
  \/ SidecarJudge(l) \/ SidecarGate(l) \/ SidecarSpawn(l) \/ SidecarWriteMeta(l)
  \/ SidecarWritePid(l) \/ SidecarPoll(l) \/ SidecarAwaitHealth(l)
  \/ SidecarOwner(l) \/ SidecarDropRead(l) \/ SidecarDropWrite(l)
  \/ SidecarStopRead(l) \/ SidecarStopVerify(l) \/ SidecarStopSignal(l)
  \/ SidecarStopWait(l) \/ SidecarForceKill(l) \/ SidecarClearPid(l)
  \/ SidecarClearMeta(l)

SidecarNext ==
  \/ \E l \in Launchers : SidecarStep(l)
  \/ \E l \in Launchers : SidecarExpire(l)
  \/ \E l \in Launchers : SidecarRecordFails(l)
  \/ \E l \in Launchers : Interrupt(l)
  \/ \E d \in Daemons : ProxyBind(d)
  \/ \E d \in Daemons : ProxyExit(d)

SidecarSpec == Init /\ [][SidecarNext]_vars
=============================================================================
