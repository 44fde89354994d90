------------------------ MODULE ServeRegistry_proofs ------------------------
(***************************************************************************)
(* What holds of ServeLifecycle for any number of commands, any            *)
(* configurations, operations and faults: the invariants that run          *)
(* serve_all checks on two commands.  And with starts alone, for any       *)
(* number of them: one daemon at most is alive, it stays recorded, and the *)
(* locked window implements SingleDaemon.                                  *)
(***************************************************************************)
EXTENDS ServeRegistry, TLAPS

-----------------------------------------------------------------------------
(* The inductive invariant.  The files only gain content under the lock,   *)
(* so what a command saw under the lock can only have been cleared since.  *)

LockHeld == \A l \in Launchers : pc[l] \in LockedPcs => lock = l

(* Nothing is recorded from the end of the clearing to the record.         *)
NothingRecorded ==
  \A l \in Launchers :
    \/ pc[l] \in {"spawn", "writeMeta", "writePid"}
    \/ pc[l] = "clearMeta" /\ lock = l
    => pidFile = None

(* A meta is the one its owner was launched with.                          *)
OwnCfg(m) == m # None => m.cfg = CfgOf(m.owner)

MetaIsOwn ==
  /\ OwnCfg(metaFile)
  /\ \A l \in Launchers : OwnCfg(seenMeta[l])

(* A command about to record its daemon holds that daemon's meta.          *)
RecordsOwn ==
  \A l \in Launchers :
    /\ pc[l] \in {"writeMeta", "writePid"} =>
         seenMeta[l] # None /\ seenMeta[l].owner = l
    /\ pc[l] = "writePid" => (metaFile # None => metaFile.owner = l)

DropsOwn ==
  \A l \in Launchers :
    pc[l] = "dropWrite" => /\ pidFile \in {None, l}
                           /\ seenMeta[l] # None
                           /\ seenMeta[l].owner = l
                           /\ metaFile # None => metaFile.owner = l

(* The process a start examines and the meta it judges belong together.    *)
ExaminesRecorded ==
  \A l \in Launchers :
    /\ pc[l] \in {"probe", "judge", "stopVerify"} => seenPid[l] \in Procs
    /\ pc[l] \in {"stopSignal", "stopWait", "reused"} => seenPid[l] \in Daemons
    /\ pc[l] = "probe" => (metaFile # None => metaFile.owner = seenPid[l])
    /\ pc[l] = "judge" => (seenMeta[l] # None => seenMeta[l].owner = seenPid[l])

(* Nobody signals the stranger.                                            *)
StrangerUntouched == proc[Stranger] = "boot"

IInv ==
  /\ TypeOK
  /\ LockHeld
  /\ NothingRecorded
  /\ MetaDescribesPid
  /\ MetaIsOwn
  /\ RecordsOwn
  /\ DropsOwn
  /\ ExaminesRecorded
  /\ StrangerUntouched
  /\ ReuseMatchesRequest

-----------------------------------------------------------------------------
USE DEF Procs, Daemons, LockedPcs, StopPcs, WaitPcs, TerminalPcs, Pcs, ProcStates

(* A probe is answered by a view of some configuration, or not at all.     *)
LEMMA HealthType ==
  ASSUME TypeOK, NEW port
  PROVE  Health(port) \subseteq Views \cup {None}
BY ServeAssumption DEF Health, Answering, Views, TypeOK, CfgOf

LEMMA InitInv == Init => IInv
<1> SUFFICES ASSUME Init PROVE IInv
  OBVIOUS
<1> USE ServeAssumption
<1>1. /\ metaFile \in Metas \cup {None}
      /\ pidFile \in Procs \cup {None}
  <2>1. \A p \in Procs :
          [owner |-> p, cfg |-> PriorConfig, metrics |-> TRUE] \in Metas
    BY DEF Metas
  <2>2. QED
    BY <2>1 DEF Init
<1>2. proc \in [Procs -> ProcStates] /\ StrangerUntouched
  BY DEF Init, StrangerUntouched
<1>3. op \in [Launchers -> AllOps]
  BY DEF Init
<1>4. TypeOK
  BY <1>1, <1>2, <1>3 DEF Init, TypeOK
<1>5. MetaDescribesPid /\ MetaIsOwn
  BY DEF Init, MetaDescribesPid, MetaIsOwn, OwnCfg, CfgOf
<1>6. LockHeld /\ NothingRecorded /\ RecordsOwn /\ DropsOwn /\ ExaminesRecorded
        /\ ReuseMatchesRequest
  BY DEF Init, LockHeld, NothingRecorded, RecordsOwn, DropsOwn,
         ExaminesRecorded, ReuseMatchesRequest
<1>7. QED
  BY <1>2, <1>4, <1>5, <1>6 DEF IInv

(* A step of one command.                                                  *)
LEMMA CommandInv ==
  ASSUME IInv, NEW l \in Launchers,
         Step(l) \/ Expire(l) \/ RecordFails(l) \/ Interrupt(l)
  PROVE  IInv'
<1> USE ServeAssumption
    DEF IInv, TypeOK, LockHeld, NothingRecorded, MetaDescribesPid, MetaIsOwn,
        OwnCfg, RecordsOwn, DropsOwn, ExaminesRecorded, StrangerUntouched,
        ReuseMatchesRequest, CfgOf, Goto, localVars, fileVars, procVars
<1>1. CASE Begin(l)
  BY <1>1 DEF Begin, AllOps
<1>2. CASE Acquire(l)
  BY <1>2 DEF Acquire
<1>3. CASE Check(l)
  BY <1>3 DEF Check, Alive
<1>4. CASE Probe(l)
  <2>1. PICK h \in Health(MetaPort(metaFile, Port[want[l]])) :
          seenHealth' = [seenHealth EXCEPT ![l] = h]
    BY <1>4 DEF Probe
  <2>2. h \in Views \cup {None}
    BY <2>1, HealthType
  <2>3. QED
    BY <1>4, <2>1, <2>2 DEF Probe
<1>5. CASE Judge(l)
  <2>1. PICK h, requested :
          LET next == JudgeOutcome(l, IsRld(seenPid[l], seenMeta[l], h), requested)
          IN /\ pc' = [pc EXCEPT ![l] = next]
             /\ lock' = IF next \in {"reused", "failed"} THEN None ELSE lock
    BY <1>5 DEF Judge
  <2> DEFINE isRld == IsRld(seenPid[l], seenMeta[l], h)
             next  == JudgeOutcome(l, isRld, requested)
  <2>2. next \in {"reused", "failed", "clearPid", "stopRead"}
    BY DEF JudgeOutcome
  <2>3. next = "reused" => isRld /\ MetadataMatches(seenMeta[l], want[l])
    BY DEF JudgeOutcome
  <2>4. isRld => seenPid[l] # Stranger
    BY <1>5 DEF IsRld, Alive, Judge
  <2>5. next = "reused" => /\ seenPid[l] \in Daemons
                           /\ Facts[want[l]] \subseteq Facts[CfgOf(seenPid[l])]
    BY <1>5, <2>3, <2>4 DEF MetadataMatches, Judge
  <2> HIDE DEF next
  <2>6. /\ pc' = [pc EXCEPT ![l] = next]
        /\ lock' = IF next \in {"reused", "failed"} THEN None ELSE lock
    BY <2>1 DEF next
  <2>7. QED
    BY <1>5, <2>2, <2>5, <2>6 DEF Judge
<1>6. CASE Spawn(l)
  BY <1>6 DEF Spawn, Metas
<1>7. CASE WriteMeta(l)
  BY <1>7 DEF WriteMeta
<1>8. CASE WritePid(l)
  BY <1>8 DEF WritePid
<1>9. CASE Poll(l)
  BY <1>9 DEF Poll, Alive
<1>10. CASE AwaitHealth(l)
  BY <1>10 DEF AwaitHealth
<1>11. CASE Owner(l)
  BY <1>11 DEF Owner
<1>12. CASE Relock(l)
  BY <1>12 DEF Relock
<1>13. CASE DropRead(l)
  <2>1. CASE pidFile = l /\ metaFile # None /\ metaFile.metrics
    BY <1>13, <2>1 DEF DropRead
  <2>2. CASE ~(pidFile = l /\ metaFile # None /\ metaFile.metrics)
    BY <1>13, <2>2 DEF DropRead
  <2>3. QED
    BY <2>1, <2>2
<1>14. CASE DropWrite(l)
  <2>1. seenMeta[l] \in Metas /\ seenMeta[l].owner = l /\ seenMeta[l].cfg = want[l]
    BY <1>14 DEF DropWrite
  <2>2. metaFile' \in Metas /\ metaFile'.owner = l /\ metaFile'.cfg = want[l]
    BY <1>14, <2>1 DEF DropWrite, Metas
  <2>3. QED
    BY <1>14, <2>2 DEF DropWrite
<1>15. CASE Gate(l)
  BY <1>15 DEF Gate
<1>16. CASE StopRead(l)
  BY <1>16 DEF StopRead, AfterStop, Alive
<1>17. CASE StopVerify(l)
  <2>1. seenPid[l] = Stranger => pc'[l] = "clearPid"
    BY <1>17 DEF StopVerify, IsRld, Alive
  <2>2. pc' = [pc EXCEPT ![l] = "stopSignal"] \/ pc' = [pc EXCEPT ![l] = "clearPid"]
    BY <1>17 DEF StopVerify
  <2>3. QED
    BY <1>17, <2>1, <2>2 DEF StopVerify
<1>18. CASE StopSignal(l)
  BY <1>18 DEF StopSignal, Alive
<1>19. CASE StopWait(l)
  BY <1>19 DEF StopWait, Alive
<1>20. CASE ForceKill(l)
  BY <1>20 DEF ForceKill, Alive
<1>21. CASE ClearPid(l)
  BY <1>21 DEF ClearPid
<1>22. CASE ClearMeta(l)
  BY <1>22 DEF ClearMeta, AfterStop
<1>23. CASE Expire(l)
  BY <1>23 DEF Expire, Alive
<1>24. CASE RecordFails(l)
  BY <1>24 DEF RecordFails
<1>25. CASE Interrupt(l)
  BY <1>25 DEF Interrupt
<1>26. QED
  BY <1>1, <1>2, <1>3, <1>4, <1>5, <1>6, <1>7, <1>8, <1>9, <1>10, <1>11, <1>12, <1>13, <1>14, <1>15, <1>16, <1>17, <1>18, <1>19, <1>20, <1>21, <1>22, <1>23, <1>24, <1>25 DEF Step

(* A step of a daemon changes proc alone.                                  *)
LEMMA DaemonInv ==
  ASSUME IInv, NEW d \in Daemons, DaemonBind(d) \/ DaemonExit(d)
  PROVE  IInv'
BY ServeAssumption
   DEF DaemonBind, DaemonExit, IInv, TypeOK, LockHeld, NothingRecorded,
       MetaDescribesPid, MetaIsOwn, OwnCfg, RecordsOwn, DropsOwn,
       ExaminesRecorded, StrangerUntouched, ReuseMatchesRequest, CfgOf,
       localVars, fileVars

LEMMA StutterInv == IInv /\ UNCHANGED vars => IInv'
BY DEF vars, IInv, TypeOK, LockHeld, NothingRecorded, MetaDescribesPid,
       MetaIsOwn, OwnCfg, RecordsOwn, DropsOwn, ExaminesRecorded,
       StrangerUntouched, ReuseMatchesRequest, CfgOf

(* The inductive invariant holds of every behaviour.                       *)
THEOREM Inductive == Spec => []IInv
<1>1. Init => IInv
  BY InitInv
<1>2. IInv /\ [Next]_vars => IInv'
  BY CommandInv, DaemonInv, StutterInv DEF Next
<1>3. QED
  BY <1>1, <1>2, PTL DEF Spec

-----------------------------------------------------------------------------
(* The state keeps its type.                                               *)
THEOREM ServeTypeCorrect == Spec => []TypeOK
<1>1. IInv => TypeOK
  BY DEF IInv
<1>2. QED
  BY <1>1, Inductive, PTL

(* A daemon is spawned only while none is recorded.                        *)
THEOREM SpawnsWhenVacant == Spec => []SpawnWhenVacant
<1>1. IInv => SpawnWhenVacant
  BY DEF IInv, SpawnWhenVacant, LockHeld, NothingRecorded
<1>2. QED
  BY <1>1, Inductive, PTL

(* The pid file and the meta file never belong to two daemons.             *)
THEOREM RecordIsConsistent == Spec => []MetaDescribesPid
<1>1. IInv => MetaDescribesPid
  BY DEF IInv
<1>2. QED
  BY <1>1, Inductive, PTL

(* Reconciling the metrics port edits the own daemon's meta only.          *)
THEOREM ReconcileEditsOwn == Spec => []EditsOwnMeta
<1>1. IInv => EditsOwnMeta
  BY DEF IInv, EditsOwnMeta, DropsOwn
<1>2. QED
  BY <1>1, Inductive, PTL

(* "Already running" is said of a daemon with the requested settings.      *)
THEOREM ReuseIsRight == Spec => []ReuseMatchesRequest
<1>1. IInv => ReuseMatchesRequest
  BY DEF IInv
<1>2. QED
  BY <1>1, Inductive, PTL

-----------------------------------------------------------------------------
(* The strengthening: with starts alone every removal happens under the    *)
(* lock too, so what a command saw under the lock is still there.          *)

StopsUnderLock ==
  \A l \in Launchers :
    /\ op[l] = "start"
    /\ pc[l] # "gate"
    /\ pc[l] \in StopPcs => lock = l

SawPid ==
  \A l \in Launchers :
    /\ pc[l] \in {"probe", "judge", "stopVerify", "stopSignal", "stopWait"}
         => pidFile = seenPid[l]
    /\ pc[l] = "judge" => seenMeta[l] = metaFile
    /\ pc[l] = "writePid" => metaFile # None
    /\ pc[l] = "dropWrite" => metaFile # None

(* A command that clears or spawns has seen every daemon dead.             *)
ClearsDead ==
  (\E l \in Launchers : pc[l] \in {"clearPid", "clearMeta", "spawn"})
    => \A d \in Daemons : ~Alive(d)

RInv ==
  /\ IInv
  /\ StopsUnderLock
  /\ SawPid
  /\ ClearsDead
  /\ LiveDaemonRecorded

USE DEF Procs, Daemons, LockedPcs, StopPcs, WaitPcs, TerminalPcs, Pcs, ProcStates

(* Two commands are never in the locked window together.                   *)
LEMMA OnePending ==
  ASSUME IInv, NEW l \in Pending PROVE Pending = {l}
<1>1. \A k \in Pending : lock = k
  BY DEF IInv, LockHeld, Pending
<1>2. QED
  BY <1>1

LEMMA OneLiving == RInv => OneDaemon
<1> SUFFICES ASSUME RInv, NEW d \in Daemons, NEW e \in Daemons, Alive(d), Alive(e)
             PROVE  d = e
  BY DEF OneDaemon
<1>1. \A p \in Pending : pidFile = None
  BY DEF RInv, IInv, NothingRecorded, Pending
<1>2. \A p \in Daemons \ Pending : Alive(p) => pidFile = p
  BY DEF RInv, LiveDaemonRecorded, Pending
<1>3. CASE d \in Pending /\ e \in Pending
  BY <1>3, OnePending DEF RInv
<1>4. CASE d \notin Pending \/ e \notin Pending
  BY <1>1, <1>2, <1>4, ServeAssumption
<1>5. QED
  BY <1>3, <1>4

LEMMA RegistryInit == ASSUME StartsOnly PROVE Init => RInv
<1> SUFFICES ASSUME Init PROVE RInv
  OBVIOUS
<1>1. IInv
  BY InitInv
<1>2. StopsUnderLock /\ SawPid /\ ClearsDead
  BY DEF Init, StartsOnly, StopsUnderLock, SawPid, ClearsDead
<1>3. LiveDaemonRecorded
  <2>1. [owner |-> Prior, cfg |-> PriorConfig, metrics |-> TRUE] \in Metas
    BY ServeAssumption DEF Metas
  <2>2. [owner |-> Prior, cfg |-> PriorConfig, metrics |-> TRUE] # None
    BY <2>1, ServeAssumption
  <2>3. \A d \in Daemons : Alive(d) =>
           /\ d = Prior
           /\ pidFile = Prior
           /\ metaFile = [owner |-> Prior, cfg |-> PriorConfig, metrics |-> TRUE]
    BY ServeAssumption DEF Init, Alive
  <2>4. QED
    BY <2>2, <2>3 DEF LiveDaemonRecorded
<1>4. QED
  BY <1>1, <1>2, <1>3 DEF RInv

(* The answer of the port that the record names comes from the recorded    *)
(* daemon, so a recorded daemon that lives is recognised.                  *)
LEMMA Recognised ==
  ASSUME RInv, NEW p \in Daemons, Alive(p), pidFile = p,
         NEW h \in Health(Port[metaFile.cfg])
  PROVE  metaFile # None /\ IsRld(p, metaFile, h)
<1>1. p \notin Pending
  BY ServeAssumption DEF RInv, IInv, NothingRecorded, Pending
<1>2. metaFile # None /\ metaFile.owner = p
  BY <1>1 DEF RInv, LiveDaemonRecorded, Pending
<1>3. metaFile.cfg = CfgOf(p)
  BY <1>2 DEF RInv, IInv, MetaIsOwn, OwnCfg
<1>4. \A d \in Daemons : Alive(d) => d = p
  BY OneLiving DEF OneDaemon
<1>5. Answering(Port[metaFile.cfg]) \subseteq {p}
  BY <1>4 DEF Answering, Alive
<1>6. h = None \/ h = View[CfgOf(p)]
  BY <1>5 DEF Health
<1>7. QED
  BY <1>2, <1>3, <1>6, ServeAssumption DEF IsRld

LEMMA RegistryCommand ==
  ASSUME StartsOnly, RInv, NEW l \in Launchers,
         Step(l) \/ Expire(l) \/ RecordFails(l) \/ Interrupt(l)
  PROVE  RInv'
<1>1. IInv'
  BY CommandInv DEF RInv
<1>2. SUFFICES (StopsUnderLock /\ SawPid /\ ClearsDead /\ LiveDaemonRecorded)'
  BY <1>1 DEF RInv
<1>3. ~Expire(l) /\ ~RecordFails(l)
  BY DEF StartsOnly, Expire, RecordFails
<1> USE ServeAssumption
    DEF RInv, IInv, TypeOK, LockHeld, NothingRecorded, RecordsOwn, DropsOwn,
        ExaminesRecorded, StopsUnderLock, SawPid, ClearsDead, LiveDaemonRecorded,
        Alive, Goto, localVars, fileVars, procVars
<1>4. CASE Begin(l)
  BY <1>4 DEF Begin, AllOps
<1>5. CASE Acquire(l)
  BY <1>5 DEF Acquire
<1>6. CASE Check(l)
  BY <1>6 DEF Check
<1>7. CASE Probe(l)
  BY <1>7 DEF Probe
<1>8. CASE Judge(l)
  <2>1. PICK h, requested :
          /\ h \in Health(MetaPort(seenMeta[l], Port[want[l]]))
          /\ LET next == JudgeOutcome(l, IsRld(seenPid[l], seenMeta[l], h), requested)
             IN /\ pc' = [pc EXCEPT ![l] = next]
                /\ lock' = IF next \in {"reused", "failed"} THEN None ELSE lock
    BY <1>8 DEF Judge
  <2> DEFINE isRld == IsRld(seenPid[l], seenMeta[l], h)
             next  == JudgeOutcome(l, isRld, requested)
  <2>2. next \in {"reused", "failed", "clearPid", "stopRead"}
    BY DEF JudgeOutcome
  <2>3. next = "clearPid" => ~isRld
    BY DEF JudgeOutcome
  <2>4. pidFile = seenPid[l] /\ seenMeta[l] = metaFile /\ lock = l
    BY <1>8 DEF Judge
  <2>5. \A d \in Daemons : Alive(d) => pidFile = d /\ metaFile # None
    BY <1>8, <2>4 DEF Judge
  <2>6. \A d \in Daemons : Alive(d) => isRld
    BY <2>1, <2>4, <2>5, Recognised DEF MetaPort
  <2> HIDE DEF next
  <2>7. /\ pc' = [pc EXCEPT ![l] = next]
        /\ lock' = IF next \in {"reused", "failed"} THEN None ELSE lock
    BY <2>1 DEF next
  <2>8. next = "clearPid" => \A d \in Daemons : ~Alive(d)
    BY <2>3, <2>6
  <2> HIDE DEF isRld
  <2>9. QED
    BY <1>8, <2>2, <2>7, <2>8 DEF Judge
<1>9. CASE Spawn(l)
  BY <1>9 DEF Spawn, Metas
<1>10. CASE WriteMeta(l)
  BY <1>10 DEF WriteMeta
<1>11. CASE WritePid(l)
  BY <1>11 DEF WritePid
<1>12. CASE Poll(l)
  BY <1>12 DEF Poll
<1>13. CASE AwaitHealth(l)
  BY <1>13 DEF AwaitHealth
<1>14. CASE Owner(l)
  BY <1>14 DEF Owner
<1>15. CASE Relock(l)
  BY <1>15 DEF Relock
<1>16. CASE DropRead(l)
  <2>1. CASE pidFile = l /\ metaFile # None /\ metaFile.metrics
    BY <1>16, <2>1 DEF DropRead
  <2>2. CASE ~(pidFile = l /\ metaFile # None /\ metaFile.metrics)
    BY <1>16, <2>2 DEF DropRead
  <2>3. QED
    BY <2>1, <2>2
<1>17. CASE DropWrite(l)
  <2>1. seenMeta[l] \in Metas /\ seenMeta[l].owner = l
    BY <1>17 DEF DropWrite
  <2>2. metaFile' \in Metas /\ metaFile'.owner = l
    BY <1>17, <2>1 DEF DropWrite, Metas
  <2>3. metaFile' # None /\ metaFile'.owner = l
    BY <2>2
  <2>4. \A d \in Daemons : Alive(d) => pidFile = l /\ d = l
    BY <1>17 DEF DropWrite
  <2>5. QED
    BY <1>17, <2>3, <2>4 DEF DropWrite
<1>18. CASE Gate(l)
  BY <1>18 DEF Gate
<1>19. CASE StopRead(l)
  BY <1>19 DEF StopRead, AfterStop
<1>20. CASE StopVerify(l)
  <2>1. \A d \in Daemons : Alive(d) => pidFile = d /\ metaFile # None
    BY <1>20 DEF StopVerify
  <2>2. pc'[l] = "clearPid" => \A d \in Daemons : ~Alive(d)
    BY <1>20, <2>1, Recognised DEF StopVerify
  <2>3. pc' = [pc EXCEPT ![l] = "stopSignal"] \/ pc' = [pc EXCEPT ![l] = "clearPid"]
    BY <1>20 DEF StopVerify
  <2>4. QED
    BY <1>20, <2>2, <2>3 DEF StopVerify
<1>21. CASE StopSignal(l)
  BY <1>21 DEF StopSignal
<1>22. CASE StopWait(l)
  BY <1>22 DEF StopWait
<1>23. CASE ForceKill(l)
  BY <1>23 DEF ForceKill
<1>24. CASE ClearPid(l)
  BY <1>24 DEF ClearPid
<1>25. CASE ClearMeta(l)
  BY <1>25 DEF ClearMeta, AfterStop
<1>26. CASE Interrupt(l)
  BY <1>26 DEF Interrupt
<1>27. QED
  BY <1>3, <1>4, <1>5, <1>6, <1>7, <1>8, <1>9, <1>10, <1>11, <1>12, <1>13, <1>14, <1>15, <1>16, <1>17, <1>18, <1>19, <1>20, <1>21, <1>22, <1>23, <1>24, <1>25, <1>26 DEF Step

LEMMA RegistryDaemon ==
  ASSUME RInv, NEW d \in Daemons, DaemonBind(d) \/ DaemonExit(d)
  PROVE  RInv'
<1>1. IInv'
  BY DaemonInv DEF RInv
<1>2. \A e \in Daemons : Alive(e)' => Alive(e)
  BY DEF RInv, IInv, TypeOK, DaemonBind, DaemonExit, Alive
<1>3. QED
  BY <1>1, <1>2
     DEF DaemonBind, DaemonExit, RInv, StopsUnderLock, SawPid, ClearsDead,
         LiveDaemonRecorded, localVars, fileVars

LEMMA RegistryStutter == RInv /\ UNCHANGED vars => RInv'
<1> SUFFICES ASSUME RInv, UNCHANGED vars PROVE RInv'
  OBVIOUS
<1>1. IInv'
  BY StutterInv DEF RInv
<1>2. QED
  BY <1>1 DEF vars, RInv, StopsUnderLock, SawPid, ClearsDead,
              LiveDaemonRecorded, Alive

THEOREM RegistryInductive == ASSUME StartsOnly PROVE Spec => []RInv
<1>1. Init => RInv
  BY RegistryInit
<1>2. RInv /\ [Next]_vars => RInv'
  BY RegistryCommand, RegistryDaemon, RegistryStutter DEF Next
<1>3. QED
  BY <1>1, <1>2, PTL DEF Spec

(* "Only one daemon is ever started": two are never alive together.        *)
THEOREM StartsKeepOneDaemon == ASSUME StartsOnly PROVE Spec => []OneDaemon
<1>1. RInv => OneDaemon
  BY OneLiving
<1>2. QED
  BY <1>1, RegistryInductive, PTL

(* A daemon that lives is in the record, with its own meta.                *)
THEOREM StartsKeepTheRecord ==
  ASSUME StartsOnly PROVE Spec => []LiveDaemonRecorded
<1>1. RInv => LiveDaemonRecorded
  BY DEF RInv
<1>2. QED
  BY <1>1, RegistryInductive, PTL

-----------------------------------------------------------------------------
(* The refinement.                                                         *)

LEMMA OneOfOne == OneOf({}) = None /\ \A x : OneOf({x}) = x
BY DEF OneOf

(* A step that neither spawns, records, clears nor kills is a stutter.     *)
LEMMA QuietStep ==
  ASSUME TypeOK, NEW l \in Launchers, NEW label,
         pc' = [pc EXCEPT ![l] = label],
         label \in {"writeMeta", "writePid"} <=> pc[l] \in {"writeMeta", "writePid"}
  PROVE  Pending' = Pending
BY DEF TypeOK, Pending

LEMMA LivingSame == UNCHANGED proc => Living' = Living
BY DEF Living, Alive

(* Exactly the living daemon, when there is one.                           *)
LEMMA LivingOne == ASSUME RInv, NEW d \in Living PROVE Living = {d}
BY OneLiving DEF OneDaemon, Living

LEMMA RefineInit == ASSUME StartsOnly PROVE Init => Single!Init
<1> SUFFICES ASSUME Init PROVE Single!Init
  OBVIOUS
<1>1. RInv
  BY RegistryInit
<1>2. Pending = {}
  BY DEF Init, Pending
<1>3. pidFile \in Procs \cup {None}
  BY <1>1 DEF RInv, IInv, TypeOK
<1>4. CASE Living = {}
  BY <1>2, <1>3, <1>4, OneOfOne DEF Single!Init
<1>5. CASE Living # {}
  <2>1. PICK d : d \in Living
    BY <1>5
  <2>2. Living = {d} /\ pidFile = d
    BY <1>1, <1>2, <2>1, LivingOne DEF RInv, LiveDaemonRecorded, Living, Pending
  <2>3. QED
    BY <1>2, <2>1, <2>2, OneOfOne DEF Single!Init, Living
<1>6. QED
  BY <1>4, <1>5

LEMMA RefineSpawn ==
  ASSUME RInv, NEW l \in Launchers, Spawn(l) PROVE Single!Launch
<1>1. Living = {} /\ pidFile = None /\ pidFile' = None
  BY DEF RInv, IInv, NothingRecorded, ClearsDead, Living, Spawn, fileVars
<1>2. Pending = {}
  BY OnePending DEF RInv, IInv, LockHeld, Pending, Spawn
<1>3. Living' = {l}
  BY <1>1 DEF Spawn, Living, Alive, RInv, IInv, TypeOK
<1>4. Pending' = {l}
  BY <1>2 DEF Spawn, Goto, Pending, RInv, IInv, TypeOK
<1>5. QED
  BY <1>1, <1>2, <1>3, <1>4, OneOfOne DEF Single!Launch, Single!Vacant

LEMMA RefineRecord ==
  ASSUME RInv, NEW l \in Launchers, WritePid(l) PROVE Single!Record
<1>1. Pending = {l}
  BY OnePending DEF RInv, WritePid, Pending
<1>2. Pending' = {}
  BY <1>1 DEF Pending, WritePid, Goto, RInv, IInv, TypeOK
<1>3. Living' = Living /\ pidFile' = l
  BY LivingSame DEF WritePid, procVars
<1>4. QED
  BY <1>1, <1>2, <1>3, OneOfOne, ServeAssumption DEF Single!Record

LEMMA RefineForget ==
  ASSUME RInv, NEW l \in Launchers, ClearPid(l)
  PROVE  Single!Forget \/ UNCHANGED Single!svars
<1>1. Living = {} /\ Living' = {}
  BY LivingSame DEF ClearPid, procVars, RInv, ClearsDead, Living
<1>2. Pending' = Pending
  BY QuietStep DEF ClearPid, Goto, RInv, IInv
<1>3. pidFile' = None
  BY DEF ClearPid
<1>4. QED
  BY <1>1, <1>2, <1>3, OneOfOne DEF Single!Forget, Single!svars

(* A daemon that dies, by itself or killed, leaves the record alone.       *)
LEMMA RefineExit ==
  ASSUME RInv, NEW d \in Daemons, Alive(d),
         proc' = [proc EXCEPT ![d] = "dead"], pidFile' = pidFile, Pending' = Pending
  PROVE  Single!Exit
<1>1. Living = {d}
  BY LivingOne DEF Living
<1>2. Living' = {}
  BY <1>1 DEF Living, Alive, RInv, IInv, TypeOK
<1>3. QED
  BY <1>1, <1>2, OneOfOne, ServeAssumption DEF Single!Exit

LEMMA RefineCommand ==
  ASSUME StartsOnly, RInv, NEW l \in Launchers,
         Step(l) \/ Expire(l) \/ RecordFails(l) \/ Interrupt(l)
  PROVE  [Single!Next]_(Single!svars)
<1>1. ~Expire(l) /\ ~RecordFails(l)
  BY DEF StartsOnly, Expire, RecordFails
<1>2. CASE Spawn(l)
  BY <1>2, RefineSpawn DEF Single!Next
<1>3. CASE WritePid(l)
  BY <1>3, RefineRecord DEF Single!Next
<1>4. CASE ClearPid(l)
  BY <1>4, RefineForget DEF Single!Next
<1>5. CASE ForceKill(l)
  <2>1. seenPid[l] \in Daemons
    BY <1>5 DEF ForceKill, RInv, IInv, ExaminesRecorded
  <2>2. Pending' = Pending
    BY <1>5, QuietStep DEF ForceKill, Goto, RInv, IInv
  <2>3. QED
    BY <1>5, <2>1, <2>2, RefineExit DEF ForceKill, fileVars, Single!Next
<1>6. ASSUME UNCHANGED <<proc, pidFile>>, Pending' = Pending
      PROVE  UNCHANGED Single!svars
  BY <1>6, LivingSame DEF Single!svars
<1> USE DEF Goto, RInv, IInv, TypeOK, fileVars, procVars, Pending
<1>7. CASE Begin(l)
  BY <1>7, <1>6 DEF Begin, AllOps
<1>8. CASE Acquire(l)
  BY <1>8, <1>6 DEF Acquire
<1>9. CASE Check(l)
  BY <1>9, <1>6 DEF Check
<1>10. CASE Probe(l)
  BY <1>10, <1>6 DEF Probe
<1>11. CASE WriteMeta(l)
  BY <1>11, <1>6 DEF WriteMeta
<1>12. CASE Poll(l)
  BY <1>12, <1>6 DEF Poll
<1>13. CASE AwaitHealth(l)
  BY <1>13, <1>6 DEF AwaitHealth
<1>14. CASE Owner(l)
  BY <1>14, <1>6 DEF Owner
<1>15. CASE Relock(l)
  BY <1>15, <1>6 DEF Relock
<1>16. CASE DropRead(l)
  <2>1. pc' = [pc EXCEPT ![l] = "dropWrite"] \/ pc' = [pc EXCEPT ![l] = "ready"]
    BY <1>16 DEF DropRead
  <2>2. QED
    BY <1>16, <1>6, <2>1 DEF DropRead
<1>17. CASE DropWrite(l)
  BY <1>17, <1>6 DEF DropWrite
<1>18. CASE Gate(l)
  BY <1>18, <1>6 DEF Gate
<1>19. CASE StopRead(l)
  BY <1>19, <1>6 DEF StopRead, AfterStop
<1>20. CASE StopVerify(l)
  BY <1>20, <1>6 DEF StopVerify
<1>21. CASE StopSignal(l)
  BY <1>21, <1>6 DEF StopSignal
<1>22. CASE StopWait(l)
  BY <1>22, <1>6 DEF StopWait
<1>23. CASE ClearMeta(l)
  BY <1>23, <1>6 DEF ClearMeta, AfterStop
<1>24. CASE Interrupt(l)
  BY <1>24, <1>6 DEF Interrupt, TerminalPcs
<1>25. CASE Judge(l)
  <2>1. \E label \in {"reused", "failed", "clearPid", "stopRead"} :
          pc' = [pc EXCEPT ![l] = label]
    BY <1>25 DEF Judge, JudgeOutcome
  <2>2. QED
    BY <1>25, <1>6, <2>1 DEF Judge
<1>26. QED
  BY <1>1, <1>2, <1>3, <1>4, <1>5, <1>7, <1>8, <1>9, <1>10, <1>11, <1>12, <1>13, <1>14, <1>15, <1>16, <1>17, <1>18, <1>19, <1>20, <1>21, <1>22, <1>23, <1>24, <1>25 DEF Step

LEMMA RefineDaemon ==
  ASSUME RInv, NEW d \in Daemons, DaemonBind(d) \/ DaemonExit(d)
  PROVE  [Single!Next]_(Single!svars)
<1>1. Alive(d) /\ pidFile' = pidFile /\ Pending' = Pending
  BY DEF DaemonBind, DaemonExit, Alive, fileVars, Pending
<1>2. CASE proc' = [proc EXCEPT ![d] = "dead"]
  BY <1>1, <1>2, RefineExit DEF Single!Next
<1>3. CASE proc' = [proc EXCEPT ![d] = "serve"]
  <2>1. Living' = Living
    BY <1>1, <1>3 DEF Living, Alive, RInv, IInv, TypeOK
  <2>2. QED
    BY <1>1, <2>1 DEF Single!svars
<1>4. QED
  BY <1>2, <1>3 DEF DaemonBind, DaemonExit

(* The locked window of `start` implements the single-daemon registry.     *)
THEOREM StartsImplementRegistry ==
  ASSUME StartsOnly PROVE Spec => RegistryImplemented
<1>1. Init => Single!Init
  BY RefineInit
<1>2. RInv /\ [Next]_vars => [Single!Next]_(Single!svars)
  <2>1. UNCHANGED vars => UNCHANGED Single!svars
    BY LivingSame DEF vars, Single!svars, Pending
  <2>2. QED
    BY <2>1, RefineCommand, RefineDaemon DEF Next
<1>3. QED
  BY <1>1, <1>2, RegistryInductive, PTL DEF Spec, RegistryImplemented, Single!Spec

=============================================================================
