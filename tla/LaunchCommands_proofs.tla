------------------------ MODULE LaunchCommands_proofs ------------------------
(***************************************************************************)
(* What commands over shared files keep, for any number of users, commands,*)
(* agents and models, and any settings the machine may start from.         *)
(*                                                                         *)
(* A launch has the runtime of HybridRuntime as a part, and what is proved *)
(* of that one first holds of the whole.  There the argument is about the  *)
(* lock: its holder alone spawns a supervisor and writes supervisor.json,  *)
(* and only when no supervisor lives.  One that lives is therefore         *)
(* recorded, or about to be by the command that spawned it, or on its way  *)
(* out with its token still there, and then every command refuses (Inv).   *)
(*                                                                         *)
(* The settings are shared by commands that read the file, decide, read it *)
(* again and write it without a lock.  The argument follows one job of one *)
(* command from its first read to its write:                               *)
(*                                                                         *)
(*   KeptInv  each command is in a place that belongs to its job, and what *)
(*            it has read is what the file still holds, save the sections  *)
(*            it left open and unless some write crossed it;               *)
(*   MapInv   what a picker shows and the user touches are of its mapping; *)
(*   ModeInv  the entry that a command edits carries on what is kept of    *)
(*            the mode that it does not write.                             *)
(*                                                                         *)
(* The machine and the plans have an invariant of their own, PlanInv: what *)
(* each branch of Resolved yields, and what a daemon may run for.          *)
(*                                                                         *)
(* AbsentIsNoRecord tells the model values that stand for an absent and an *)
(* unreadable file from the records that stand for the others.             *)
(***************************************************************************)
EXTENDS LaunchCommands, Sequences, TLAPS

-----------------------------------------------------------------------------
(* The hybrid runtime by itself.                                           *)
Busy(l) == pc[l] \notin {"idle"} \cup TerminalPcs

ClearingPcs == {"clearReady", "clearToken", "clearSup"}
OwningPcs   == {"record", "poll", "verify", "abort", "reap"}
TokenStates == {"token", "core", "ready", "closing", "aborting", "unready"}
ReadyStates == {"ready", "closing"}

(* What holds whatever is killed.                                          *)

(* The commands exclude each other.                                        *)
OneHolder == \A l, m \in Launchers : Busy(l) /\ Busy(m) => l = m

(* What the holder has done to supervisor.json.                            *)
RecordByHolder ==
  \A l \in Launchers :
    /\ pc[l] \in {"compose", "spawn", "record"} => supFile = None
    /\ pc[l] \in {"poll", "verify"} => supFile = l
    /\ pc[l] \in {"abort", "reap"} => supFile \in {l, None}
    /\ pc[l] \in StopPcs => supFile # None /\ op[l] = "stop"
    /\ pc[l] \in {"post", "await", "dropSup"} => seen[l] # None

(* A start has a supervisor from the moment it spawns it.                  *)
SpawnedByStart ==
  \A l \in Launchers :
    /\ sup[l] # "reused"
    /\ pc[l] \in {"idle", "compose", "spawn"} => sup[l] = "unborn"
    /\ pc[l] \in OwningPcs => sup[l] # "unborn"
    /\ pc[l] \in ClearPcs => sup[l] \in {"unborn", "dead"}

(* When a supervisor may have a file, and that a failing start finds what  *)
(* its own has left.                                                       *)
OwnFiles ==
  \A l \in Launchers :
    /\ supFile = l => sup[l] # "unborn"
    /\ tokenFile = l => sup[l] \in TokenStates \cup {"dead"}
    /\ readyFile = l => sup[l] \in ReadyStates \cup {"dead"}
    /\ sup[l] = "dead" /\ pc[l] \in OwningPcs \cup ClearPcs =>
         /\ tokenFile = l => supFile = l \/ l \in unclean
         /\ readyFile = l => supFile = l \/ l \in unclean
         /\ readyFile = l => pc[l] \notin {"clearToken", "clearSup"}
         /\ tokenFile = l => pc[l] # "clearSup"

CoreOwned ==
  \A s \in Sups :
    /\ sup[s] \in {"unborn", "born", "armed", "token"} => core[s] = "none"
    /\ core[s] = "running" => sup[s] \in {"core", "ready", "closing", "aborting", "dead"}

AlwaysInv ==
  /\ TypeOK
  /\ OneHolder /\ RecordByHolder /\ SpawnedByStart /\ OwnFiles /\ CoreOwned
  /\ FailedStartLeavesNothing

(* What holds as long as no start left an orphan.                          *)

(* A command that clears or is about to spawn has no living supervisor     *)
(* around it, and one that has spawned, none but its own.                  *)
NoneAround ==
  \A l \in Launchers, s \in Sups :
    /\ pc[l] \in ClearingPcs \cup {"compose", "spawn"} => ~Live(s)
    /\ pc[l] \in OwningPcs /\ s # l => ~Live(s)

(* The files in the order in which they are cleared.                       *)
ClearedInOrder ==
  \A l \in Launchers :
    /\ pc[l] \in ClearingPcs /\ supFile = None => readyFile = None /\ tokenFile = None
    /\ pc[l] \in {"clearToken", "clearSup", "compose", "spawn"} => readyFile = None
    /\ pc[l] \in {"clearSup", "compose", "spawn"} => tokenFile = None

(* Where a living supervisor is known.                                     *)
LivingKnown ==
  \A s \in Sups :
    Live(s) => \/ supFile = s
               \/ s \in Launchers /\ pc[s] \in {"record", "abort", "reap"} /\ supFile = None
               \/ sup[s] = "unready" /\ supFile = None

(* Whose the files are, and who has them.                                  *)
FilesOwned ==
  \A s \in Sups :
    /\ supFile = s => sup[s] # "unborn"
    /\ tokenFile = s => sup[s] \in TokenStates \/ supFile = s \/ s \in unclean
    /\ readyFile = s => sup[s] \in ReadyStates \/ supFile = s \/ s \in unclean
    /\ sup[s] \in TokenStates => tokenFile = s
    /\ sup[s] \in ReadyStates => readyFile = s

(* A start spawned over no file, and ready.json is of who is recorded.     *)
ReadyIsRecorded ==
  /\ \A l \in Launchers : pc[l] \in OwningPcs => readyFile \in {None, l}
  /\ supFile # None => readyFile \in {None, supFile}

(* What an accepted stop waits for: the supervisor has left by itself, and *)
(* took its files along, or was killed when only its token was left.       *)
Left(s) ==
  /\ sup[s] \in {"unready", "dead"} /\ core[s] = "dead"
  /\ readyFile # s
  /\ sup[s] = "dead" => tokenFile # s \/ s \in unclean

StopAwaits ==
  \A l \in Launchers :
    /\ pc[l] \in {"post", "await", "dropSup"} => seen[l] = supFile
    /\ pc[l] = "await" => readyFile = seen[l] \/ Left(seen[l])
    /\ pc[l] = "dropSup" => Left(seen[l])

KnownInv ==
  /\ NoneAround /\ ClearedInOrder /\ LivingKnown /\ FilesOwned /\ ReadyIsRecorded
  /\ StopAwaits /\ StopMeansStopped

Inv == AlwaysInv /\ (orphans = {} => KnownInv)

-----------------------------------------------------------------------------
(* Nothing there, a runtime that serves, or the files of one that was      *)
(* killed.                                                                 *)
LEMMA InitInv == Init => Inv
<1> SUFFICES ASSUME Init PROVE Inv
  OBVIOUS
<1>1. PICK state \in {"unborn", "ready", "dead", "reused"} :
        LET owner == IF state = "unborn" THEN None ELSE Prior
        IN /\ sup = [s \in Sups |-> IF s = Prior THEN state ELSE "unborn"]
           /\ core = [s \in Sups |-> IF s = Prior /\ state = "ready"
                                     THEN "running" ELSE "none"]
           /\ supFile = owner /\ tokenFile = owner /\ readyFile = owner
  BY DEF Init
<1> USE HybridAssumption
  DEF Inv, AlwaysInv, KnownInv, TypeOK, OneHolder, NoneAround, RecordByHolder,
      ClearedInOrder, SpawnedByStart, OwnFiles, LivingKnown, FilesOwned, CoreOwned,
      ReadyIsRecorded, StopAwaits, Left, StopMeansStopped, FailedStartLeavesNothing, Busy, Live,
      ClearingPcs, OwningPcs, StopPcs, ClearPcs, TerminalPcs, TokenStates, ReadyStates,
      Pcs, StartPcs, SupStates, Sups, AllOps
<1>2. CASE state = "unborn" BY <1>1, <1>2 DEF Init
<1>3. CASE state = "ready"  BY <1>1, <1>3 DEF Init
<1>4. CASE state = "dead"   BY <1>1, <1>4 DEF Init
<1>5. CASE state = "reused" BY <1>1, <1>5 DEF Init
<1>6. QED BY <1>1, <1>2, <1>3, <1>4, <1>5

(* The lock, and what its holder clears.                                   *)
LEMMA LockAlways ==
  ASSUME AlwaysInv, NEW l \in Launchers,
         Acquire(l) \/ Check(l) \/ ClearReady(l) \/ ClearToken(l)
           \/ ClearSup(l) \/ Interrupt(l)
  PROVE  AlwaysInv'
<1> USE HybridAssumption
  DEF AlwaysInv, TypeOK, OneHolder, RecordByHolder, SpawnedByStart, OwnFiles, CoreOwned,
      FailedStartLeavesNothing, Busy, Live, ClearingPcs, OwningPcs, StopPcs, ClearPcs,
      TerminalPcs, TokenStates, ReadyStates, Pcs, StartPcs, SupStates, Sups, AllOps,
      files, history, Goto, SupGoto
<1>1. CASE Acquire(l) BY <1>1 DEF Acquire, LockFree
<1>2. CASE Check(l) BY <1>2 DEF Check, ProcessExists
<1>3. CASE ClearReady(l) BY <1>3 DEF ClearReady
<1>4. CASE ClearToken(l) BY <1>4 DEF ClearToken
<1>5. CASE ClearSup(l) BY <1>5 DEF ClearSup
<1>6. CASE Interrupt(l) BY <1>6 DEF Interrupt, Unrecorded
<1>7. QED BY <1>1, <1>2, <1>3, <1>4, <1>5, <1>6

(* A start, until it serves or has stopped what it spawned.                *)
LEMMA StartAlways ==
  ASSUME AlwaysInv, NEW l \in Launchers,
         Compose(l) \/ Spawn(l) \/ Record(l) \/ RecordFails(l)
           \/ Poll(l) \/ Verify(l) \/ StartDeadline(l) \/ Abort(l)
           \/ Reap(l) \/ ForceReap(l)
  PROVE  AlwaysInv'
<1> USE HybridAssumption
  DEF AlwaysInv, TypeOK, OneHolder, RecordByHolder, SpawnedByStart, OwnFiles, CoreOwned,
      FailedStartLeavesNothing, Busy, Live, ClearingPcs, OwningPcs, StopPcs, ClearPcs,
      TerminalPcs, TokenStates, ReadyStates, Pcs, StartPcs, SupStates, Sups, AllOps,
      files, history, Goto, SupGoto
<1>1. CASE Compose(l) BY <1>1 DEF Compose
<1>2. CASE Spawn(l) BY <1>2 DEF Spawn
<1>3. CASE Record(l) BY <1>3 DEF Record
<1>4. CASE RecordFails(l) BY <1>4 DEF RecordFails
<1>5. CASE Poll(l) BY <1>5 DEF Poll
<1>6. CASE Verify(l) BY <1>6 DEF Verify, Healthy
<1>7. CASE StartDeadline(l) BY <1>7 DEF StartDeadline
<1>8. CASE Abort(l) BY <1>8 DEF Abort
<1>9. CASE Reap(l) BY <1>9 DEF Reap
<1>10. CASE ForceReap(l) BY <1>10 DEF ForceReap, Killed
<1>11. QED BY <1>1, <1>2, <1>3, <1>4, <1>5, <1>6, <1>7, <1>8, <1>9, <1>10

(* A stop: the gateway it asks is the recorded one, and is seen to leave.  *)
LEMMA StopAlways ==
  ASSUME AlwaysInv, NEW l \in Launchers,
         ReadReady(l) \/ Post(l) \/ Await(l) \/ StopDeadline(l)
           \/ DropSup(l)
  PROVE  AlwaysInv'
<1> USE HybridAssumption
  DEF AlwaysInv, TypeOK, OneHolder, RecordByHolder, SpawnedByStart, OwnFiles, CoreOwned,
      FailedStartLeavesNothing, Busy, Live, ClearingPcs, OwningPcs, StopPcs, ClearPcs,
      TerminalPcs, TokenStates, ReadyStates, Pcs, StartPcs, SupStates, Sups, AllOps,
      files, history, Goto, SupGoto
<1>1. CASE ReadReady(l) BY <1>1 DEF ReadReady
<1>2. CASE Post(l) BY <1>2 DEF Post
<1>3. CASE Await(l) BY <1>3 DEF Await
<1>4. CASE StopDeadline(l) BY <1>4 DEF StopDeadline
<1>5. CASE DropSup(l) BY <1>5 DEF DropSup
<1>6. QED BY <1>1, <1>2, <1>3, <1>4, <1>5

(* The supervisor: each file appears where there was none, and goes while  *)
(* it is the owner's.                                                      *)
LEMMA SupervisorAlways ==
  ASSUME AlwaysInv, NEW s \in Sups,
         Arm(s) \/ OpenToken(s) \/ SpawnCore(s) \/ Publish(s)
           \/ GiveUp(s) \/ Close(s) \/ RemoveReady(s) \/ Aborted(s)
           \/ RemoveToken(s)
  PROVE  AlwaysInv'
<1> USE HybridAssumption
  DEF AlwaysInv, TypeOK, OneHolder, RecordByHolder, SpawnedByStart, OwnFiles, CoreOwned,
      FailedStartLeavesNothing, Busy, Live, ClearingPcs, OwningPcs, StopPcs, ClearPcs,
      TerminalPcs, TokenStates, ReadyStates, Pcs, StartPcs, SupStates, Sups, AllOps,
      files, history, Goto, SupGoto
<1>1. CASE Arm(s) BY <1>1 DEF Arm
<1>2. CASE OpenToken(s) BY <1>2 DEF OpenToken
<1>3. CASE SpawnCore(s) BY <1>3 DEF SpawnCore
<1>4. CASE Publish(s) BY <1>4 DEF Publish
<1>5. CASE GiveUp(s) BY <1>5 DEF GiveUp
<1>6. CASE Close(s) BY <1>6 DEF Close
<1>7. CASE RemoveReady(s) BY <1>7 DEF RemoveReady
<1>8. CASE Aborted(s) BY <1>8 DEF Aborted
<1>9. CASE RemoveToken(s) BY <1>9 DEF RemoveToken
<1>10. QED BY <1>1, <1>2, <1>3, <1>4, <1>5, <1>6, <1>7, <1>8, <1>9

(* The core ends, and the supervisor may be killed.                        *)
LEMMA EndingAlways ==
  ASSUME AlwaysInv, NEW s \in Sups,
         CoreEnds(s) \/ CoreCrash(s) \/ Kill(s)
  PROVE  AlwaysInv'
<1> USE HybridAssumption
  DEF AlwaysInv, TypeOK, OneHolder, RecordByHolder, SpawnedByStart, OwnFiles, CoreOwned,
      FailedStartLeavesNothing, Busy, Live, ClearingPcs, OwningPcs, StopPcs, ClearPcs,
      TerminalPcs, TokenStates, ReadyStates, Pcs, StartPcs, SupStates, Sups, AllOps,
      files, history, Goto, SupGoto
<1>1. CASE CoreEnds(s) BY <1>1 DEF CoreEnds
<1>2. CASE CoreCrash(s) BY <1>2 DEF CoreCrash
<1>3. CASE Kill(s) BY <1>3 DEF Kill, Killed
<1>4. QED BY <1>1, <1>2, <1>3

LEMMA LockKnown ==
  ASSUME AlwaysInv, KnownInv, orphans' = {}, NEW l \in Launchers,
         Acquire(l) \/ Check(l) \/ ClearReady(l) \/ ClearToken(l)
           \/ ClearSup(l) \/ Interrupt(l)
  PROVE  KnownInv'
<1> USE HybridAssumption
  DEF AlwaysInv, KnownInv, TypeOK, OneHolder, NoneAround, RecordByHolder,
      ClearedInOrder, SpawnedByStart, OwnFiles, LivingKnown, FilesOwned, CoreOwned,
      ReadyIsRecorded, StopAwaits, Left, StopMeansStopped, Busy, Live, ClearingPcs, OwningPcs, StopPcs,
      ClearPcs, TerminalPcs, TokenStates, ReadyStates, Pcs, StartPcs, SupStates, Sups,
      AllOps, files, history, Goto, SupGoto
<1>1. CASE Acquire(l) BY <1>1 DEF Acquire, LockFree
<1>2. CASE Check(l) BY <1>2 DEF Check, ProcessExists
<1>3. CASE ClearReady(l) BY <1>3 DEF ClearReady
<1>4. CASE ClearToken(l) BY <1>4 DEF ClearToken
<1>5. CASE ClearSup(l) BY <1>5 DEF ClearSup
<1>6. CASE Interrupt(l) BY <1>6 DEF Interrupt, Unrecorded
<1>7. QED BY <1>1, <1>2, <1>3, <1>4, <1>5, <1>6

LEMMA StartKnown ==
  ASSUME AlwaysInv, KnownInv, orphans' = {}, NEW l \in Launchers,
         Compose(l) \/ Spawn(l) \/ Record(l) \/ RecordFails(l)
           \/ Poll(l) \/ Verify(l) \/ StartDeadline(l) \/ Abort(l)
           \/ Reap(l) \/ ForceReap(l)
  PROVE  KnownInv'
<1> USE HybridAssumption
  DEF AlwaysInv, KnownInv, TypeOK, OneHolder, NoneAround, RecordByHolder,
      ClearedInOrder, SpawnedByStart, OwnFiles, LivingKnown, FilesOwned, CoreOwned,
      ReadyIsRecorded, StopAwaits, Left, StopMeansStopped, Busy, Live, ClearingPcs, OwningPcs, StopPcs,
      ClearPcs, TerminalPcs, TokenStates, ReadyStates, Pcs, StartPcs, SupStates, Sups,
      AllOps, files, history, Goto, SupGoto
<1>1. CASE Compose(l) BY <1>1 DEF Compose
<1>2. CASE Spawn(l) BY <1>2 DEF Spawn
<1>3. CASE Record(l) BY <1>3 DEF Record
<1>4. CASE RecordFails(l) BY <1>4 DEF RecordFails
<1>5. CASE Poll(l) BY <1>5 DEF Poll
<1>6. CASE Verify(l) BY <1>6 DEF Verify, Healthy
<1>7. CASE StartDeadline(l) BY <1>7 DEF StartDeadline
<1>8. CASE Abort(l) BY <1>8 DEF Abort
<1>9. CASE Reap(l) BY <1>9 DEF Reap
<1>10. CASE ForceReap(l) BY <1>10 DEF ForceReap, Killed
<1>11. QED BY <1>1, <1>2, <1>3, <1>4, <1>5, <1>6, <1>7, <1>8, <1>9, <1>10

LEMMA StopKnown ==
  ASSUME AlwaysInv, KnownInv, orphans' = {}, NEW l \in Launchers,
         ReadReady(l) \/ Post(l) \/ Await(l) \/ StopDeadline(l)
           \/ DropSup(l)
  PROVE  KnownInv'
<1> USE HybridAssumption
  DEF AlwaysInv, KnownInv, TypeOK, OneHolder, NoneAround, RecordByHolder,
      ClearedInOrder, SpawnedByStart, OwnFiles, LivingKnown, FilesOwned, CoreOwned,
      ReadyIsRecorded, StopAwaits, Left, StopMeansStopped, Busy, Live, ClearingPcs, OwningPcs, StopPcs,
      ClearPcs, TerminalPcs, TokenStates, ReadyStates, Pcs, StartPcs, SupStates, Sups,
      AllOps, files, history, Goto, SupGoto
<1>1. CASE ReadReady(l) BY <1>1 DEF ReadReady
<1>2. CASE Post(l) BY <1>2 DEF Post
<1>3. CASE Await(l) BY <1>3 DEF Await
<1>4. CASE StopDeadline(l) BY <1>4 DEF StopDeadline
<1>5. CASE DropSup(l) BY <1>5 DEF DropSup
<1>6. QED BY <1>1, <1>2, <1>3, <1>4, <1>5

LEMMA SupervisorKnown ==
  ASSUME AlwaysInv, KnownInv, orphans' = {}, NEW s \in Sups,
         Arm(s) \/ OpenToken(s) \/ SpawnCore(s) \/ Publish(s)
           \/ GiveUp(s) \/ Close(s) \/ RemoveReady(s) \/ Aborted(s)
           \/ RemoveToken(s)
  PROVE  KnownInv'
<1> USE HybridAssumption
  DEF AlwaysInv, KnownInv, TypeOK, OneHolder, NoneAround, RecordByHolder,
      ClearedInOrder, SpawnedByStart, OwnFiles, LivingKnown, FilesOwned, CoreOwned,
      ReadyIsRecorded, StopAwaits, Left, StopMeansStopped, Busy, Live, ClearingPcs, OwningPcs, StopPcs,
      ClearPcs, TerminalPcs, TokenStates, ReadyStates, Pcs, StartPcs, SupStates, Sups,
      AllOps, files, history, Goto, SupGoto
<1>1. CASE Arm(s) BY <1>1 DEF Arm
<1>2. CASE OpenToken(s) BY <1>2 DEF OpenToken
<1>3. CASE SpawnCore(s) BY <1>3 DEF SpawnCore
<1>4. CASE Publish(s) BY <1>4 DEF Publish
<1>5. CASE GiveUp(s) BY <1>5 DEF GiveUp
<1>6. CASE Close(s) BY <1>6 DEF Close
<1>7. CASE RemoveReady(s) BY <1>7 DEF RemoveReady
<1>8. CASE Aborted(s) BY <1>8 DEF Aborted
<1>9. CASE RemoveToken(s) BY <1>9 DEF RemoveToken
<1>10. QED BY <1>1, <1>2, <1>3, <1>4, <1>5, <1>6, <1>7, <1>8, <1>9

LEMMA EndingKnown ==
  ASSUME AlwaysInv, KnownInv, orphans' = {}, NEW s \in Sups,
         CoreEnds(s) \/ CoreCrash(s) \/ Kill(s)
  PROVE  KnownInv'
<1> USE HybridAssumption
  DEF AlwaysInv, KnownInv, TypeOK, OneHolder, NoneAround, RecordByHolder,
      ClearedInOrder, SpawnedByStart, OwnFiles, LivingKnown, FilesOwned, CoreOwned,
      ReadyIsRecorded, StopAwaits, Left, StopMeansStopped, Busy, Live, ClearingPcs, OwningPcs, StopPcs,
      ClearPcs, TerminalPcs, TokenStates, ReadyStates, Pcs, StartPcs, SupStates, Sups,
      AllOps, files, history, Goto, SupGoto
<1>1. CASE CoreEnds(s) BY <1>1 DEF CoreEnds
<1>2. CASE CoreCrash(s) BY <1>2 DEF CoreCrash
<1>3. CASE Kill(s) BY <1>3 DEF Kill, Killed
<1>4. QED BY <1>1, <1>2, <1>3

LEMMA StutterInv == Inv /\ UNCHANGED vars => Inv'
  BY DEF vars, files, history, Inv, AlwaysInv, KnownInv, TypeOK, OneHolder, NoneAround,
         RecordByHolder, ClearedInOrder, SpawnedByStart, OwnFiles, LivingKnown, FilesOwned,
         CoreOwned, ReadyIsRecorded, StopAwaits, Left, StopMeansStopped,
         FailedStartLeavesNothing, Busy, Live

(* Nothing ever takes an orphan out of the history.                        *)
LEMMA OrphansGrow == [Next]_vars => orphans \subseteq orphans'
  BY DEF Next, vars, history, Command, Supervisor, Fault, Acquire, Check, ClearReady,
         ClearToken, ClearSup, Compose, Spawn, Record, Poll, Verify, StartDeadline, Abort,
         Reap, ReadReady, Post, Await, StopDeadline, DropSup, Arm, OpenToken, SpawnCore,
         Publish, GiveUp, Close, RemoveReady, Aborted, RemoveToken, CoreEnds, RecordFails,
         ForceReap, Interrupt, CoreCrash, Kill, Killed

LEMMA StepInv == Inv /\ [Next]_vars => Inv'
<1> SUFFICES ASSUME Inv, [Next]_vars PROVE Inv'
  OBVIOUS
<1>1. CASE UNCHANGED vars
  BY <1>1, StutterInv
<1>2. CASE Next
  <2>1. AlwaysInv'
    BY <1>2, LockAlways, StartAlways, StopAlways, SupervisorAlways, EndingAlways
    DEF Inv, Next, Command, Supervisor, Fault
  <2>2. ASSUME orphans' = {} PROVE KnownInv'
    <3>1. AlwaysInv /\ KnownInv
      BY <2>2, OrphansGrow DEF Inv
    <3>2. QED
      BY <1>2, <2>2, <3>1, LockKnown, StartKnown, StopKnown, SupervisorKnown, EndingKnown
      DEF Next, Command, Supervisor, Fault
  <2>3. QED BY <2>1, <2>2 DEF Inv
<1>3. QED BY <1>1, <1>2

(* The inductive invariant: who holds the lock, what is recorded, whose    *)
(* the files are, for any number of commands and supervisors.              *)
THEOREM HybridInvariant == Spec => []Inv
  BY InitInv, StepInv, PTL DEF Spec

-----------------------------------------------------------------------------
(* The state of commands, files and supervisors has its type.              *)
THEOREM HybridTypes == Spec => []TypeOK
  BY HybridInvariant, PTL DEF Inv, AlwaysInv

(* Of two that live, the lock's holder has one around it or none, the file *)
(* names one, and the token is of one.                                     *)
LEMMA InvOneSupervisor == Inv => OneSupervisor
  BY HybridAssumption
  DEF Inv, AlwaysInv, KnownInv, TypeOK, NoneAround, RecordByHolder, LivingKnown, FilesOwned,
      TokenStates, OwningPcs, OneSupervisor

(* Two supervisors never live in one state directory, for any number of    *)
(* starts and stops, unless a start was killed between its spawn and its   *)
(* supervisor.json.                                                        *)
THEOREM SupervisorsExclude == Spec => []OneSupervisor
  BY HybridInvariant, InvOneSupervisor, PTL

LEMMA InvFilesTruthful == Inv => FilesTruthful
  BY HybridAssumption
  DEF Inv, AlwaysInv, KnownInv, TypeOK, RecordByHolder, LivingKnown, FilesOwned,
      TokenStates, ReadyStates, Sups, FilesTruthful, ServingHasFiles, NothingStranded,
      Unrecorded, Live

(* The three files tell the truth, without such an orphan: a gateway that  *)
(* serves has them, and none is left without an owner for start and stop   *)
(* to refuse for ever, except by a supervisor that was killed unrecorded   *)
(* or in its last clean-up.                                                *)
THEOREM FilesAreTruthful == Spec => []FilesTruthful
  BY HybridInvariant, InvFilesTruthful, PTL

LEMMA InvOutcomes == Inv => OutcomesAreTrue
  BY DEF Inv, AlwaysInv, KnownInv, OutcomesAreTrue

(* A stop that reports success left neither gateway nor core, without such *)
(* an orphan, and a start that failed, in whatever step, nothing of its    *)
(* own.                                                                    *)
THEOREM OutcomesHold == Spec => []OutcomesAreTrue
  BY HybridInvariant, InvOutcomes, PTL

-----------------------------------------------------------------------------
(* The hybrid runtime, beside the plans and the settings.                  *)
LEMMA HybridPart ==
  /\ LaunchInit => Init
  /\ [LaunchNext]_launchVars => [Next]_vars
  BY DEF LaunchInit, LaunchNext, launchVars

LEMMA LaunchHybrid == LaunchSpec => []Inv
  BY HybridPart, InitInv, StepInv, PTL DEF LaunchSpec

(* At most one supervisor lives, whatever a launch or a local command      *)
(* does, unless a start left an orphan (hybrid.rs:368).                    *)
THEOREM LaunchHasOneSupervisor == LaunchSpec => []OneSupervisor
  BY LaunchHybrid, InvOneSupervisor, PTL

(* Without an orphan, the files of the runtime name the supervisor that    *)
(* lives, and files without supervisor.json have an owner that removes     *)
(* them or was killed (hybrid.rs: start, stop).                            *)
THEOREM LaunchFilesTruthful == LaunchSpec => []FilesTruthful
  BY LaunchHybrid, InvFilesTruthful, PTL

(* What `hybrid start` and `hybrid stop` report is so.                     *)
THEOREM LaunchOutcomesTrue == LaunchSpec => []OutcomesAreTrue
  BY LaunchHybrid, InvOutcomes, PTL

-----------------------------------------------------------------------------
(* The settings.  What is not there, and what cannot be read, is no record.*)
AbsentIsNoRecord ==
  /\ \A e, m, r, o :
       [entry |-> e, marker |-> m, routes |-> r, other |-> o] \notin {None, Broken}
  /\ \A c, saved : LS!Entry(c, saved) # None

Legible(f) == f = None \/ LS!IsFile(f)

LEMMA ReadIsLegible ==
  ASSUME settings = Broken \/ Legible(settings), legacy = Broken \/ Legible(legacy)
  PROVE  Legible(LS!Read)
  BY DEF Legible, LS!Read

LEMMA BaseIsFile ==
  ASSUME NEW f, Legible(f)
  PROVE  LS!IsFile(LS!Base(f))
<1>1. CASE f = None  BY <1>1 DEF LS!Base, LS!Empty, LS!IsFile
<1>2. CASE f # None  BY <1>2 DEF LS!Base, Legible
<1>3. QED BY <1>1, <1>2

(* A job replaces its own section, and what it makes is a file.            *)
Writers == LS!ConfigJobs \cup {"clear", "marker", "routes"}

LEMMA AppliedToBase ==
  ASSUME NEW f, Legible(f), NEW job, job.do \in Writers, NEW new,
         job.do = "clear" => f # None, AbsentIsNoRecord
  PROVE  /\ LS!IsFile(LS!Applied(f, job, new))
         /\ LS!Applied(f, job, new) \notin {None, Broken}
         /\ LS!Applied(f, job, new).other = LS!Base(f).other
         /\ LS!Applied(f, job, new) = LS!Applied(LS!Base(f), job, new)
<1> DEFINE e == IF job.do \in LS!ConfigJobs
                THEN LS!Entry(new, IF LS!Base(f).entry = None THEN {} ELSE LS!Base(f).entry.saved)
                ELSE IF job.do = "clear" THEN None ELSE LS!Base(f).entry
           m == IF job.do = "marker" THEN job.model ELSE LS!Base(f).marker
           r == IF job.do = "routes" THEN new ELSE LS!Base(f).routes
           o == LS!Base(f).other
<1>1. LS!IsFile(LS!Base(f))  BY BaseIsFile
<1>2. LS!Base(LS!Base(f)) = LS!Base(f)  BY DEF LS!Base
<1>3. job.do = "clear" => f = LS!Base(f)  BY DEF LS!Base
<1>4. LS!Applied(f, job, new) = LS!Applied(LS!Base(f), job, new)
  <2>1. CASE job.do \in LS!ConfigJobs  BY <2>1, <1>2 DEF LS!Applied, LS!ConfigJobs
  <2>2. CASE job.do = "clear"  BY <2>2, <1>3
  <2>3. CASE job.do = "marker" BY <2>3, <1>2 DEF LS!Applied, LS!ConfigJobs
  <2>4. CASE job.do = "routes" BY <2>4, <1>2 DEF LS!Applied, LS!ConfigJobs
  <2>5. QED BY <2>1, <2>2, <2>3, <2>4 DEF Writers
<1>5. LS!Applied(f, job, new) = [entry |-> e, marker |-> m, routes |-> r, other |-> o]
  <2>1. PICK b : b = LS!Base(f)  OBVIOUS
  <2>2. b = [entry |-> b.entry, marker |-> b.marker, routes |-> b.routes, other |-> b.other]
    BY <1>1, <2>1 DEF LS!IsFile
  <2>3. CASE job.do \in LS!ConfigJobs
    <3>1. LS!Applied(f, job, new) = [b EXCEPT !.entry = e]
      BY <2>1, <2>3 DEF LS!Applied, LS!ConfigJobs
    <3>2. m = b.marker /\ r = b.routes /\ o = b.other
      BY <2>1, <2>3 DEF LS!ConfigJobs
    <3>3. QED BY <2>2, <3>1, <3>2
  <2>4. CASE job.do = "clear"
    <3>1. LS!Applied(f, job, new) = [b EXCEPT !.entry = e]
      BY <2>1, <2>4, <1>3 DEF LS!Applied, LS!ConfigJobs
    <3>2. m = b.marker /\ r = b.routes /\ o = b.other
      BY <2>1, <2>4
    <3>3. QED BY <2>2, <3>1, <3>2
  <2>5. CASE job.do = "marker"
    <3>1. LS!Applied(f, job, new) = [b EXCEPT !.marker = m]
      BY <2>1, <2>5 DEF LS!Applied, LS!ConfigJobs
    <3>2. e = b.entry /\ r = b.routes /\ o = b.other
      BY <2>1, <2>5 DEF LS!ConfigJobs
    <3>3. QED BY <2>2, <3>1, <3>2
  <2>6. CASE job.do = "routes"
    <3>1. LS!Applied(f, job, new) = [b EXCEPT !.routes = r]
      BY <2>1, <2>6 DEF LS!Applied, LS!ConfigJobs
    <3>2. e = b.entry /\ m = b.marker /\ o = b.other
      BY <2>1, <2>6 DEF LS!ConfigJobs
    <3>3. QED BY <2>2, <3>1, <3>2
  <2>7. QED BY <2>3, <2>4, <2>5, <2>6 DEF Writers
<1> HIDE DEF e, m, r, o
<1>6. PICK a : a = [entry |-> e, marker |-> m, routes |-> r, other |-> o]  OBVIOUS
<1>7. a = [entry |-> a.entry, marker |-> a.marker, routes |-> a.routes, other |-> a.other] /\ a.other = o
  BY <1>6
<1>8. a \notin {None, Broken}  BY <1>6 DEF AbsentIsNoRecord
<1>9. QED BY <1>4, <1>5, <1>6, <1>7, <1>8 DEF LS!IsFile, o

(* The commands.  A command between two jobs has started the next one.     *)
Cmd(todo, at, new, snapshot, open, edit) ==
  [todo |-> todo, at |-> at, new |-> new, snapshot |-> snapshot, open |-> open, edit |-> edit]
IsCommand(c) == c = Cmd(c.todo, c.at, c.new, c.snapshot, c.open, c.edit)
(* What is still to do: a list of jobs, whose downloads are catalog models.*)
Jobs(s) ==
  /\ \E S : s \in Seq(S)
  /\ \A i \in 1..Len(s) : s[i].do = "download" => s[i].model \in LS!Models
Stages == {"start", "scan", "rows", "merge", "write"}
AreCommands ==
  /\ command = [u \in Users |-> command[u]]
  /\ \A u \in Users : command[u] # None =>
       LET c == command[u]
       IN /\ IsCommand(c) /\ Jobs(c.todo) /\ c.todo # <<>>
          /\ c.at \in Stages /\ c.open \subseteq LS!Sections

LEMMA JobsJoin ==
  ASSUME NEW s, NEW t, Jobs(s), Jobs(t)
  PROVE  Jobs(s \o t)
<1>1. PICK A : s \in Seq(A)  BY DEF Jobs
<1>2. PICK B : t \in Seq(B)  BY DEF Jobs
<1>3. s \in Seq(A \cup B) /\ t \in Seq(A \cup B)
  BY <1>1, <1>2
<1>4. s \o t \in Seq(A \cup B) /\ Len(s \o t) = Len(s) + Len(t)
  BY <1>3
<1>5. ASSUME NEW i \in 1..Len(s \o t)
      PROVE  (s \o t)[i].do = "download" => (s \o t)[i].model \in LS!Models
  <2>1. CASE i <= Len(s)
    <3>1. (s \o t)[i] = s[i] /\ i \in 1..Len(s)  BY <1>3, <1>4, <1>5, <2>1
    <3>2. QED BY <3>1 DEF Jobs
  <2>2. CASE i > Len(s)
    <3>1. (s \o t)[i] = t[i - Len(s)] /\ i - Len(s) \in 1..Len(t)  BY <1>3, <1>4, <1>5, <2>2
    <3>2. QED BY <3>1 DEF Jobs
  <2>3. QED BY <1>3, <1>4, <1>5, <2>1, <2>2
<1>6. QED BY <1>4, <1>5 DEF Jobs

LEMMA JobsTail ==
  ASSUME NEW s, Jobs(s), s # <<>>
  PROVE  Jobs(Tail(s))
<1>1. PICK A : s \in Seq(A)  BY DEF Jobs
<1>2. Tail(s) \in Seq(A) /\ Len(Tail(s)) = Len(s) - 1 /\ Len(s) \in Nat /\ Len(s) # 0
  BY <1>1
<1>3. ASSUME NEW i \in 1..Len(Tail(s))
      PROVE  Tail(s)[i].do = "download" => Tail(s)[i].model \in LS!Models
  <2>1. Tail(s)[i] = s[i + 1] /\ i + 1 \in 1..Len(s)  BY <1>1, <1>2, <1>3
  <2>2. QED BY <2>1 DEF Jobs
<1>4. QED BY <1>2, <1>3 DEF Jobs

LEMMA NoJobs == Jobs(<<>>)
<1>1. <<>> \in Seq({}) /\ Len(<<>>) = 0  OBVIOUS
<1>2. QED BY <1>1 DEF Jobs

LEMMA OneJob ==
  ASSUME NEW j, j.do = "download" => j.model \in LS!Models
  PROVE  Jobs(<<j>>) /\ <<j>> # <<>>
<1>1. PICK s : s = <<j>>  OBVIOUS
<1>2. s \in Seq({j}) /\ Len(s) = 1 /\ s[1] = j /\ s # <<>>  BY <1>1
<1>3. \A i \in 1..Len(s) : s[i] = j  BY <1>2
<1>4. QED BY <1>1, <1>2, <1>3 DEF Jobs

LEMMA TwoJobs ==
  ASSUME NEW j, j.do = "download" => j.model \in LS!Models,
         NEW k, k.do = "download" => k.model \in LS!Models
  PROVE  Jobs(<<j, k>>) /\ <<j, k>> # <<>>
<1>1. PICK s : s = <<j, k>>  OBVIOUS
<1>2. s \in Seq({j, k}) /\ Len(s) = 2 /\ s[1] = j /\ s[2] = k /\ s # <<>>  BY <1>1
<1>3. \A i \in 1..Len(s) : s[i] = j \/ s[i] = k  BY <1>2
<1>4. QED BY <1>1, <1>2, <1>3 DEF Jobs

LEMMA ThreeJobs ==
  ASSUME NEW j, j.do # "download", NEW k, k.do # "download", NEW l, l.do # "download"
  PROVE  Jobs(<<j, k, l>>) /\ <<j, k, l>> # <<>>
<1>1. PICK s : s = <<j, k, l>>  OBVIOUS
<1>2. /\ s \in Seq({j, k, l}) /\ Len(s) = 3
      /\ s[1] = j /\ s[2] = k /\ s[3] = l /\ s # <<>>
  BY <1>1
<1>3. \A i \in 1..Len(s) : s[i] = j \/ s[i] = k \/ s[i] = l  BY <1>2
<1>4. QED BY <1>1, <1>2, <1>3 DEF Jobs

LEMMA JobFields ==
  /\ \A what : LS!Do(what).do = what
  /\ \A what, m : LS!With(what, m).do = what /\ LS!With(what, m).model = m
  /\ \A m : LS!Select(m).do = "select"
  /\ \A t : LS!Custom(t).do = "custom"
  /\ \A e : LS!Activate(e).do = "activate"
  /\ \A p : LS!Provider(p).do = "provider"
  /\ \A m : LS!ByItself(LS!Select(m)).do = "select"
  /\ \A e : LS!ByItself(LS!Activate(e)).do = "activate"
  BY DEF LS!Do, LS!With, LS!Select, LS!Custom, LS!Activate, LS!Provider, LS!ByItself

LEMMA CmdFields ==
  ASSUME NEW t, NEW a, NEW n, NEW s, NEW o, NEW e
  PROVE  LET c == Cmd(t, a, n, s, o, e)
         IN /\ IsCommand(c) /\ c.todo = t /\ c.at = a /\ c.new = n
            /\ c.snapshot = s /\ c.open = o /\ c.edit = e
  BY DEF Cmd, IsCommand

LEMMA CmdChanges ==
  ASSUME NEW c, IsCommand(c), NEW x
  PROVE  /\ [c EXCEPT !.at = x] = Cmd(c.todo, x, c.new, c.snapshot, c.open, c.edit)
         /\ [c EXCEPT !.new = x] = Cmd(c.todo, c.at, x, c.snapshot, c.open, c.edit)
         /\ [c EXCEPT !.snapshot = x] = Cmd(c.todo, c.at, c.new, x, c.open, c.edit)
         /\ [c EXCEPT !.open = x] = Cmd(c.todo, c.at, c.new, c.snapshot, x, c.edit)
         /\ [c EXCEPT !.edit = x] = Cmd(c.todo, c.at, c.new, c.snapshot, c.open, x)
  BY DEF Cmd, IsCommand

(* What a step of one user makes of the command.                           *)
Becomes(u, c) == command' = [command EXCEPT ![u] = c]
Starting(c) ==
  c = None \/ \E todo, open : /\ c = Cmd(todo, "start", None, None, open, None)
                              /\ Jobs(todo) /\ todo # <<>> /\ open \subseteq LS!Sections

LEMMA RunningIsStarting ==
  ASSUME NEW todo, NEW open, Jobs(todo), open \subseteq LS!Sections
  PROVE  Starting(LS!Running(todo, open))
  BY DEF LS!Running, Starting, Cmd

LEMMA UseJobs ==
  ASSUME NEW m \in LS!Models
  PROVE  Jobs(LS!Use(m)) /\ LS!Use(m) # <<>>
  BY TwoJobs, JobFields DEF LS!Use

LEMMA CommandJobs ==
  ASSUME NEW c \in LS!AllCommands
  PROVE  Jobs(c)
<1>1. CASE \E m \in LS!Models : c = LS!Use(m)
  BY <1>1, UseJobs
<1>2. CASE \E p \in Providers : c = <<LS!Provider(p)>>
  BY <1>2, OneJob, JobFields
<1>3. CASE \E t \in Typed : c = <<LS!Custom(t)>>
  BY <1>3, OneJob, JobFields
<1>4. CASE \E m \in LS!Models : c = <<LS!With("download", m), LS!With("sole download", m)>>
  <2>1. \A m : /\ LS!With("download", m).model = m
               /\ LS!With("sole download", m).do = "sole download"
    BY JobFields
  <2>2. QED BY <1>4, <2>1, TwoJobs
<1>5. CASE \E m \in LS!Models :
             c = <<LS!With("delete", m), LS!With("unselect", m), LS!With("sole", m)>>
  BY <1>5, ThreeJobs, JobFields
<1>6. CASE c \in {<<LS!Do("clear")>>, <<LS!Do("wizard")>>, <<LS!Do("map")>>}
  BY <1>6, OneJob, JobFields
<1>7. CASE c = <<LS!Do("clear"), LS!Do("wizard")>>
  BY <1>7, TwoJobs, JobFields
<1>8. CASE \E launch \in {"adopt", "built-in", "ensure", "ensure alone"} : c = <<LS!Do(launch)>>
  BY <1>8, OneJob, JobFields
<1>9. QED
  BY <1>1, <1>2, <1>3, <1>4, <1>5, <1>6, <1>7, <1>8 DEF LS!AllCommands

LEMMA WizardJobs ==
  ASSUME NEW c \in LS!WizardChoices
  PROVE  Jobs(c)
<1>0. \A outcome : Jobs(LS!Ended(outcome))
  <2>1. \A outcome : LS!With("marker", outcome).do = "marker" /\ LS!Do("offer").do = "offer"
    BY JobFields
  <2>2. QED BY <2>1, TwoJobs DEF LS!Ended
<1>1. CASE \E m \in LS!Models : c = LS!Use(m) \o LS!Ended("local_model")
  BY <1>0, <1>1, UseJobs, JobsJoin
<1>2. CASE \E p \in Providers : c = <<LS!Provider(p)>> \o LS!Ended("local_model")
  <2>1. \A p : Jobs(<<LS!Provider(p)>>)  BY OneJob, JobFields
  <2>2. QED BY <1>0, <1>2, <2>1, JobsJoin
<1>3. CASE \E t \in Typed : c = <<LS!Custom(t)>> \o LS!Ended("custom_endpoint")
  <2>1. \A t : Jobs(<<LS!Custom(t)>>)  BY OneJob, JobFields
  <2>2. QED BY <1>0, <1>3, <2>1, JobsJoin
<1>4. CASE c = <<LS!With("marker", "skipped")>>
  BY <1>4, OneJob, JobFields
<1>5. QED BY <1>1, <1>2, <1>3, <1>4 DEF LS!WizardChoices

LEMMA LoneJobs ==
  ASSUME NEW models, NEW endpoints
  PROVE  Jobs(LS!Lone(models, endpoints))
<1>1. \A m : Jobs(<<LS!ByItself(LS!Select(m))>>)  BY OneJob, JobFields
<1>2. \A e : Jobs(<<LS!ByItself(LS!Activate(e))>>)  BY OneJob, JobFields
<1>3. QED BY <1>1, <1>2, NoJobs DEF LS!Lone

LEMMA DecisionJobs ==
  ASSUME NEW job, NEW f, job.do \in LS!Deciding
  PROVE  Jobs(LS!Decision(job, f))
<1>1. /\ \A m : Jobs(<<LS!ByItself(LS!Select(m))>>)
      /\ \A m : Jobs(<<LS!Select(m)>>)
      /\ \A what \in {"unpick", "derive"} : Jobs(<<LS!Do(what)>>)
      /\ Jobs(<<LS!Do("wizard"), LS!Do("ready")>>)
  BY OneJob, TwoJobs, JobFields
<1>2. CASE job.do = "sole download"
  BY <1>1, <1>2, NoJobs DEF LS!Decision
<1>3. CASE job.do = "unselect"
  BY <1>1, <1>3, NoJobs DEF LS!Decision
<1>4. CASE job.do = "sole"
  BY <1>4, LoneJobs, NoJobs DEF LS!Decision
<1>5. CASE job.do = "adopt"
  BY <1>1, <1>5, LoneJobs, NoJobs DEF LS!Decision
<1>6. CASE job.do = "built-in"
  BY <1>1, <1>6, NoJobs DEF LS!Decision
<1>7. CASE job.do \in {"ensure", "ensure alone", "ready"}
  BY <1>1, <1>7, NoJobs DEF LS!Decision
<1>8. QED BY <1>2, <1>3, <1>4, <1>5, <1>6, <1>7 DEF LS!Deciding

LEMMA GoesOn ==
  ASSUME AreCommands, NEW u \in Users, command[u] # None, NEW jobs, Jobs(jobs),
         NEW open, open \subseteq LS!Sections, LS!GoOn(u, jobs, open)
  PROVE  \E c : Starting(c) /\ Becomes(u, c)
<1>1. Jobs(jobs \o Tail(command[u].todo))
  BY JobsTail, JobsJoin DEF AreCommands
<1>2. Becomes(u, LS!Running(jobs \o Tail(command[u].todo), open))
  BY DEF LS!GoOn, Becomes, AreCommands
<1>3. QED BY <1>1, <1>2, RunningIsStarting

Plain(u) ==
  LS!Begin(u) \/ LS!Download(u) \/ LS!Delete(u) \/ LS!Wizard(u) \/ LS!Offer(u) \/ LS!Decide(u)
    \/ LS!Derive(u) \/ LS!Quit(u)

LEMMA PlainStarts ==
  ASSUME AreCommands, NEW u \in Users, Plain(u)
  PROVE  /\ \E c : Starting(c) /\ Becomes(u, c)
         /\ UNCHANGED <<settings, legacy, expected>>
         /\ crossed => crossed'
<1>0. Starting(None) /\ {} \subseteq LS!Sections /\ {"entry"} \subseteq LS!Sections
  BY DEF Starting, LS!Sections
<1>1. LS!End(u) => Becomes(u, None)
  BY DEF LS!End, Becomes
<1>2. CASE LS!Begin(u)
  <2>1. PICK c \in LS!AllCommands : Becomes(u, LS!Running(c, {}))
    BY <1>2 DEF LS!Begin, Becomes
  <2>2. QED BY <1>0, <1>2, <2>1, CommandJobs, RunningIsStarting DEF LS!Begin
<1>3. CASE LS!Download(u)
  BY <1>0, <1>3, GoesOn, NoJobs DEF LS!Download, LS!Doing
<1>4. CASE LS!Delete(u)
  <2>1. LS!GoOn(u, <<>>, {}) \/ LS!End(u)  BY <1>4 DEF LS!Delete
  <2>2. command[u] # None /\ UNCHANGED <<settings, legacy, expected>> /\ (crossed => crossed')
    BY <1>4 DEF LS!Delete, LS!Doing
  <2>3. QED BY <1>0, <1>1, <2>1, <2>2, GoesOn, NoJobs
<1>5. CASE LS!Wizard(u)
  BY <1>0, <1>5, GoesOn, WizardJobs DEF LS!Wizard, LS!Doing
<1>6. CASE LS!Offer(u)
  <2>1. Jobs(<<LS!Do("map")>>)  BY OneJob, JobFields
  <2>2. QED BY <1>0, <1>6, <2>1, GoesOn, NoJobs DEF LS!Offer, LS!Doing
<1>7. CASE LS!Decide(u)
  <2>1. PICK open : /\ open \subseteq LS!Sections
                    /\ LS!GoOn(u, LS!Decision(LS!Job(u), command[u].snapshot), open)
    BY <1>0, <1>7 DEF LS!Decide
  <2>2. command[u] # None /\ LS!Job(u).do \in LS!Deciding
    BY <1>7 DEF LS!Decide, LS!Doing
  <2>3. QED BY <1>7, <2>1, <2>2, DecisionJobs, GoesOn DEF LS!Decide
<1>8. CASE LS!Derive(u)
  BY <1>0, <1>8, GoesOn, NoJobs DEF LS!Derive, LS!Doing
<1>9. CASE LS!Quit(u)
  BY <1>0, <1>1, <1>9 DEF LS!Quit
<1>10. QED BY <1>2, <1>3, <1>4, <1>5, <1>6, <1>7, <1>8, <1>9 DEF Plain

LEMMA LookBecomes ==
  ASSUME AreCommands, NEW u \in Users, LS!Look(u)
  PROVE  LET c == command[u] IN Becomes(u, Cmd(c.todo, "scan", c.new, LS!Read, {"entry"}, c.edit))
<1>1. PICK c : c = command[u]  OBVIOUS
<1>2. IsCommand(c)  BY <1>1 DEF AreCommands, LS!Look, LS!Doing
<1>3. PICK c1 : c1 = [c EXCEPT !.at = "scan"]  OBVIOUS
<1>4. PICK c2 : c2 = [c1 EXCEPT !.snapshot = LS!Read]  OBVIOUS
<1>5. command' = [command EXCEPT ![u] = [c2 EXCEPT !.open = {"entry"}]]
  BY <1>1, <1>3, <1>4 DEF LS!Look, AreCommands
<1>6. c1 = Cmd(c.todo, "scan", c.new, c.snapshot, c.open, c.edit)
  BY <1>2, <1>3, CmdChanges
<1>7. c2 = Cmd(c.todo, "scan", c.new, LS!Read, c.open, c.edit)
  BY <1>4, <1>6 DEF Cmd
<1>8. [c2 EXCEPT !.open = {"entry"}] = Cmd(c.todo, "scan", c.new, LS!Read, {"entry"}, c.edit)
  BY <1>7 DEF Cmd
<1>9. QED BY <1>1, <1>5, <1>8 DEF Becomes

LEMMA MapBecomes ==
  ASSUME AreCommands, NEW u \in Users, LS!Map(u)
  PROVE  \E found \in Histories :
           Becomes(u, Cmd(command[u].todo, "rows", LS!Rows(found, LS!Base(LS!Read).routes), LS!Read,
                          {"routes"}, command[u].edit))
<1>1. PICK c : c = command[u]  OBVIOUS
<1>2. IsCommand(c)  BY <1>1 DEF AreCommands, LS!Map, LS!Doing
<1>3. PICK found \in Histories :
        command' = [command EXCEPT ![u].at = "rows", ![u].snapshot = LS!Read,
                      ![u].new = LS!Rows(found, LS!Base(LS!Read).routes), ![u].open = {"routes"}]
  BY DEF LS!Map
<1>4. PICK rows : rows = LS!Rows(found, LS!Base(LS!Read).routes)  OBVIOUS
<1>5. PICK c1 : c1 = [c EXCEPT !.at = "rows"]  OBVIOUS
<1>6. PICK c2 : c2 = [c1 EXCEPT !.snapshot = LS!Read]  OBVIOUS
<1>7. PICK c3 : c3 = [c2 EXCEPT !.new = rows]  OBVIOUS
<1>8. command' = [command EXCEPT ![u] = [c3 EXCEPT !.open = {"routes"}]]
  BY <1>1, <1>3, <1>4, <1>5, <1>6, <1>7 DEF AreCommands
<1>9. c1 = Cmd(c.todo, "rows", c.new, c.snapshot, c.open, c.edit)
  BY <1>2, <1>5, CmdChanges
<1>10. c2 = Cmd(c.todo, "rows", c.new, LS!Read, c.open, c.edit)
  BY <1>6, <1>9 DEF Cmd
<1>11. c3 = Cmd(c.todo, "rows", rows, LS!Read, c.open, c.edit)
  BY <1>7, <1>10 DEF Cmd
<1>12. [c3 EXCEPT !.open = {"routes"}] = Cmd(c.todo, "rows", rows, LS!Read, {"routes"}, c.edit)
  BY <1>11 DEF Cmd
<1>13. QED BY <1>1, <1>4, <1>8, <1>12 DEF Becomes

(* What a picker that is left asks to be written.                          *)
Edited(rows, before, touched, target) ==
  LS!Compact(LS!DefaultOf(before), [a \in DOMAIN rows |-> IF a \in touched THEN target ELSE rows[a]])

SavesAs(u, todo, touched, target) ==
  LET c == command[u]
      before == LS!Base(c.snapshot).routes
  IN /\ Jobs(todo) /\ todo # <<>> /\ Head(todo) = LS!Do("routes")
     /\ c.at = "rows" /\ LS!Job(u).do = "map" /\ touched \subseteq DOMAIN c.new
     /\ Becomes(u, Cmd(todo, "merge", Edited(c.new, before, touched, target), None, {"routes"},
                       [agents |-> touched, target |-> target, before |-> before]))

LEMMA SaveBecomes ==
  ASSUME AreCommands, NEW u \in Users, LS!Save(u)
  PROVE  \E todo, touched, target : SavesAs(u, todo, touched, target)
<1>1. PICK c : c = command[u]  OBVIOUS
<1>2. c # None /\ Jobs(c.todo) /\ c.todo # <<>> /\ c.at = "rows" /\ LS!Job(u).do = "map"
  BY <1>1 DEF AreCommands, LS!Save, LS!Doing
<1>3. PICK before : before = LS!Base(c.snapshot).routes  OBVIOUS
<1>4. PICK touched \in {DOMAIN command[u].new} \cup {{a} : a \in DOMAIN command[u].new} :
        \E target \in LS!Menu(command[u].snapshot) :
          command' = [command EXCEPT ![u] =
            [LS!Running(<<LS!Do("routes"), LS!Do("derive")>> \o Tail(@.todo), {"routes"}) EXCEPT
               !.at = "merge",
               !.edit = [agents |-> touched, target |-> target,
                         before |-> LS!Base(command[u].snapshot).routes],
               !.new = Edited(command[u].new, LS!Base(command[u].snapshot).routes, touched, target)]]
  BY Zenon DEF LS!Save, Edited
<1>5. PICK target :
          command' = [command EXCEPT ![u] =
            [LS!Running(<<LS!Do("routes"), LS!Do("derive")>> \o Tail(@.todo), {"routes"}) EXCEPT
               !.at = "merge",
               !.edit = [agents |-> touched, target |-> target, before |-> before],
               !.new = Edited(c.new, before, touched, target)]]
  BY <1>1, <1>3, <1>4
<1>6. PICK edit : edit = [agents |-> touched, target |-> target, before |-> before]  OBVIOUS
<1>7. PICK new : new = Edited(c.new, before, touched, target)  OBVIOUS
<1>8. PICK front : front = <<LS!Do("routes"), LS!Do("derive")>>  OBVIOUS
<1>9. PICK todo : todo = front \o Tail(c.todo)  OBVIOUS
<1>10. /\ Jobs(front) /\ Jobs(Tail(c.todo)) /\ Jobs(todo)
  BY <1>2, <1>8, <1>9, TwoJobs, JobFields, JobsTail, JobsJoin
<1>11. todo # <<>> /\ Head(todo) = LS!Do("routes")
  <2>1. PICK A : Tail(c.todo) \in Seq(A)  BY <1>10 DEF Jobs
  <2>2. front \in Seq({LS!Do("routes"), LS!Do("derive")}) /\ Len(front) = 2 /\ front[1] = LS!Do("routes")
    BY <1>8
  <2>3. PICK B : front \in Seq(B) /\ Tail(c.todo) \in Seq(B)
    <3>1. /\ front \in Seq({LS!Do("routes"), LS!Do("derive")} \cup A)
          /\ Tail(c.todo) \in Seq({LS!Do("routes"), LS!Do("derive")} \cup A)
      BY <2>1, <2>2
    <3>2. QED BY <3>1
  <2>4. PICK tail : tail = Tail(c.todo)  OBVIOUS
  <2>5. todo \in Seq(B) /\ Len(todo) = Len(front) + Len(tail) /\ Len(tail) \in Nat
    BY <1>9, <2>3, <2>4
  <2>6. todo[1] = front[1]
    <3>1. ASSUME NEW i \in 1..Len(front) PROVE (front \o tail)[i] = front[i]
      BY <2>3, <2>4, <3>1
    <3>2. QED BY <1>9, <2>2, <2>4, <3>1
  <2>7. QED BY <2>2, <2>5, <2>6
<1>12. PICK r : r = LS!Running(todo, {"routes"})  OBVIOUS
<1>13. r = Cmd(todo, "start", None, None, {"routes"}, None)
  BY <1>11, <1>12 DEF LS!Running, Cmd
<1>14. PICK r1 : r1 = [r EXCEPT !.at = "merge"]  OBVIOUS
<1>15. PICK r2 : r2 = [r1 EXCEPT !.edit = edit]  OBVIOUS
<1>16. command' = [command EXCEPT ![u] = [r2 EXCEPT !.new = new]]
  BY <1>1, <1>5, <1>6, <1>7, <1>8, <1>9, <1>12, <1>14, <1>15 DEF AreCommands
<1>17. r1 = Cmd(todo, "merge", None, None, {"routes"}, None)
  BY <1>13, <1>14 DEF Cmd
<1>18. r2 = Cmd(todo, "merge", None, None, {"routes"}, edit)
  BY <1>15, <1>17 DEF Cmd
<1>19. [r2 EXCEPT !.new = new] = Cmd(todo, "merge", new, None, {"routes"}, edit)
  BY <1>18 DEF Cmd
<1>20. Becomes(u, Cmd(todo, "merge", new, None, {"routes"}, edit))
  BY <1>16, <1>19 DEF Becomes
<1>21. touched \in SUBSET DOMAIN c.new
  <2>3. touched \in {DOMAIN c.new} \cup {{a} : a \in DOMAIN c.new}
    BY <1>1, <1>4
  <2>4. touched = DOMAIN c.new \/ \E a \in DOMAIN c.new : touched = {a}
    BY <2>3
  <2>5. QED BY <2>4
<1>22. SavesAs(u, todo, touched, target)
  BY <1>1, <1>2, <1>3, <1>6, <1>7, <1>10, <1>11, <1>20, <1>21 DEF SavesAs
<1>23. QED BY <1>22

LEMMA FirstReadBecomes ==
  ASSUME AreCommands, NEW u \in Users, LS!ReadFirst(u)
  PROVE  LET c == command[u]
         IN \/ \E d : Starting(d) /\ Becomes(u, d)
            \/ /\ LS!Job(u).do \in LS!ConfigJobs
               /\ Becomes(u, Cmd(c.todo, "merge", LS!Changed(LS!Job(u), LS!Config(LS!Read)), LS!Read,
                                 {"entry"}, c.edit))
<1>1. PICK c : c = command[u]  OBVIOUS
<1>2. c # None /\ IsCommand(c) /\ LS!Job(u).do \in LS!ConfigJobs
  BY <1>1 DEF AreCommands, LS!ReadFirst, LS!Doing
<1>3. CASE LS!End(u)
  BY <1>3 DEF LS!End, Becomes, Starting
<1>4. CASE LS!GoOn(u, <<>>, {})
  BY <1>1, <1>2, <1>4, GoesOn, NoJobs
<1>5. CASE command' = [command EXCEPT ![u].at = "merge", ![u].open = {"entry"}, ![u].snapshot = LS!Read,
                         ![u].new = LS!Changed(LS!Job(u), LS!Config(LS!Read))]
  <2>1. PICK new : new = LS!Changed(LS!Job(u), LS!Config(LS!Read))  OBVIOUS
  <2>2. PICK c1 : c1 = [c EXCEPT !.at = "merge"]  OBVIOUS
  <2>3. PICK c2 : c2 = [c1 EXCEPT !.open = {"entry"}]  OBVIOUS
  <2>4. PICK c3 : c3 = [c2 EXCEPT !.snapshot = LS!Read]  OBVIOUS
  <2>5. command' = [command EXCEPT ![u] = [c3 EXCEPT !.new = new]]
    BY <1>1, <1>5, <2>1, <2>2, <2>3, <2>4 DEF AreCommands
  <2>6. c1 = Cmd(c.todo, "merge", c.new, c.snapshot, c.open, c.edit)
    BY <1>2, <2>2, CmdChanges
  <2>7. c2 = Cmd(c.todo, "merge", c.new, c.snapshot, {"entry"}, c.edit)
    BY <2>3, <2>6 DEF Cmd
  <2>8. c3 = Cmd(c.todo, "merge", c.new, LS!Read, {"entry"}, c.edit)
    BY <2>4, <2>7 DEF Cmd
  <2>9. [c3 EXCEPT !.new = new] = Cmd(c.todo, "merge", new, LS!Read, {"entry"}, c.edit)
    BY <2>8 DEF Cmd
  <2>10. QED BY <1>1, <1>2, <2>1, <2>5, <2>9 DEF Becomes
<1>6. QED BY <1>3, <1>4, <1>5 DEF LS!ReadFirst

LEMMA SecondReadBecomes ==
  ASSUME AreCommands, NEW u \in Users, LS!ReadAgain(u)
  PROVE  LET c == command[u]
         IN \/ \E d : Starting(d) /\ Becomes(u, d)
            \/ /\ LS!Job(u).do \in Writers
               /\ LS!Job(u).do = "clear" => LS!Base(LS!Read).entry # None
               /\ c.at = "merge" \/ LS!Job(u).do \in {"clear", "marker"}
               /\ Becomes(u, Cmd(c.todo, "write", c.new, LS!Read, LS!Sections, c.edit))
<1>1. PICK c : c = command[u]  OBVIOUS
<1>2. /\ c # None /\ IsCommand(c) /\ LS!Job(u).do \in Writers
      /\ c.at = "merge" \/ LS!Job(u).do \in {"clear", "marker"}
  BY <1>1 DEF AreCommands, LS!ReadAgain, LS!Doing, Writers
<1>3. CASE LS!Job(u).do = "clear" /\ LS!Base(LS!Read).entry = None
  BY <1>1, <1>2, <1>3, GoesOn, NoJobs DEF LS!ReadAgain
<1>4. CASE ~(LS!Job(u).do = "clear" /\ LS!Base(LS!Read).entry = None)
  <2>1. command' = [command EXCEPT ![u].at = "write", ![u].snapshot = LS!Read,
                      ![u].open = LS!Sections]
    BY <1>4 DEF LS!ReadAgain
  <2>2. PICK c1 : c1 = [c EXCEPT !.at = "write"]  OBVIOUS
  <2>3. PICK c2 : c2 = [c1 EXCEPT !.snapshot = LS!Read]  OBVIOUS
  <2>4. command' = [command EXCEPT ![u] = [c2 EXCEPT !.open = LS!Sections]]
    BY <1>1, <2>1, <2>2, <2>3 DEF AreCommands
  <2>5. c1 = Cmd(c.todo, "write", c.new, c.snapshot, c.open, c.edit)
    BY <1>2, <2>2, CmdChanges
  <2>6. c2 = Cmd(c.todo, "write", c.new, LS!Read, c.open, c.edit)
    BY <2>3, <2>5 DEF Cmd
  <2>7. [c2 EXCEPT !.open = LS!Sections] = Cmd(c.todo, "write", c.new, LS!Read, LS!Sections, c.edit)
    BY <2>6 DEF Cmd
  <2>8. QED BY <1>1, <1>2, <1>4, <2>4, <2>7 DEF Becomes
<1>5. QED BY <1>3, <1>4

(* Of the commands only the one that takes the step changes.               *)
Proper(c) ==
  c # None => /\ IsCommand(c) /\ Jobs(c.todo) /\ c.todo # <<>>
              /\ c.at \in Stages /\ c.open \subseteq LS!Sections

LEMMA StartingIsProper ==
  ASSUME NEW c, Starting(c)
  PROVE  Proper(c) /\ (c # None => c.at = "start")
<1>1. CASE c = None  BY <1>1 DEF Proper
<1>2. CASE c # None
  <2>1. PICK todo : \E open : /\ c = Cmd(todo, "start", None, None, open, None)
                              /\ Jobs(todo) /\ todo # <<>> /\ open \subseteq LS!Sections
    BY <1>2 DEF Starting
  <2>2. PICK open : /\ c = Cmd(todo, "start", None, None, open, None)
                    /\ Jobs(todo) /\ todo # <<>> /\ open \subseteq LS!Sections
    BY <2>1
  <2>3. QED BY <2>2, CmdFields DEF Proper, Stages
<1>3. QED BY <1>1, <1>2

LEMMA OthersStay ==
  ASSUME AreCommands, NEW u \in Users, NEW c, Proper(c), Becomes(u, c)
  PROVE  /\ AreCommands'
         /\ command'[u] = c
         /\ \A v \in Users \ {u} : command'[v] = command[v]
<1>1. command' = [v \in Users |-> IF v = u THEN c ELSE command[v]]
  BY DEF AreCommands, Becomes
<1>2. /\ command'[u] = c
      /\ \A v \in Users \ {u} : command'[v] = command[v]
  BY <1>1
<1>3. command' = [v \in Users |-> command'[v]]
  BY <1>1
<1>4. ASSUME NEW v \in Users, command'[v] # None
      PROVE  LET d == command'[v]
             IN /\ IsCommand(d) /\ Jobs(d.todo) /\ d.todo # <<>>
                /\ d.at \in Stages /\ d.open \subseteq LS!Sections
  <2>1. CASE v = u  BY <1>2, <1>4, <2>1 DEF Proper
  <2>2. CASE v # u  BY <1>2, <1>4, <2>2 DEF AreCommands
  <2>3. QED BY <2>1, <2>2
<1>5. QED BY <1>2, <1>3, <1>4 DEF AreCommands

-----------------------------------------------------------------------------
(* Nothing is lost: unless a write fell between another command's read and *)
(* write, the file is what every write has made of it, and so is what a    *)
(* command that is about to write has read; what no command writes is the  *)
(* same in all three.                                                      *)
AboutToWrite(u) ==
  LET c == command[u]
  IN c # None /\ c.at = "write" =>
       /\ c.open = LS!Sections
       /\ LS!Job(u).do \in Writers
       /\ Legible(c.snapshot)
       /\ LS!Job(u).do = "clear" => c.snapshot # None
       /\ LS!Base(c.snapshot).other = expected.other
       /\ crossed # TRUE => LS!Base(c.snapshot) = expected

KeptInv ==
  /\ AreCommands
  /\ settings = Broken \/ Legible(settings)
  /\ legacy = Broken \/ Legible(legacy)
  /\ LS!IsFile(expected) /\ expected # None
  /\ LS!Base(LS!Read).other = expected.other
  /\ crossed # TRUE => LS!Base(LS!Read) = expected
  /\ \A u \in Users : AboutToWrite(u)

LEMMA KeptInit ==
  ASSUME AbsentIsNoRecord, LS!SettingsInit
  PROVE  KeptInv
<1>1. PICK s \in Starts : settings = s.settings /\ legacy = s.legacy
  BY DEF LS!SettingsInit
<1>2. /\ settings = Broken \/ Legible(settings)
      /\ legacy = Broken \/ Legible(legacy)
  BY <1>1, LaunchAssumption DEF Legible
<1>3. Legible(LS!Read)  BY <1>2, ReadIsLegible
<1>4. LS!IsFile(LS!Base(LS!Read))  BY <1>3, BaseIsFile
<1>5. LS!Base(LS!Read) # None
  BY DEF LS!Base, LS!Empty, AbsentIsNoRecord
<1>6. AreCommands /\ \A u \in Users : AboutToWrite(u)
  BY DEF LS!SettingsInit, AreCommands, AboutToWrite
<1>7. QED BY <1>2, <1>4, <1>5, <1>6 DEF KeptInv, LS!SettingsInit

LEMMA KeptWhenNothingIsWritten ==
  ASSUME KeptInv, UNCHANGED <<settings, legacy, expected>>, crossed => crossed',
         NEW u \in Users, NEW c, Proper(c), c # None => c.at # "write", Becomes(u, c)
  PROVE  KeptInv'
<1>1. /\ AreCommands' /\ command'[u] = c
      /\ \A v \in Users \ {u} : command'[v] = command[v]
  BY OthersStay DEF KeptInv
<1>2. crossed' # TRUE => crossed # TRUE  OBVIOUS
<1>3. LS!Read' = LS!Read /\ LS!Base(LS!Read)' = LS!Base(LS!Read)
  BY DEF LS!Read, LS!Base
<1>4. ASSUME NEW v \in Users PROVE AboutToWrite(v)'
  <2>1. CASE v = u  BY <1>1, <2>1 DEF AboutToWrite
  <2>2. CASE v # u
    <3>1. command'[v] = command[v] /\ LS!Job(v)' = LS!Job(v)
      BY <1>1, <2>2 DEF LS!Job
    <3>2. PICK d : d = command[v]  OBVIOUS
    <3>3. LS!Base(d.snapshot)' = LS!Base(d.snapshot)
      BY DEF LS!Base
    <3>4. AboutToWrite(v)  BY DEF KeptInv
    <3>5. QED BY <1>2, <3>1, <3>2, <3>3, <3>4 DEF AboutToWrite, Legible
  <2>3. QED BY <2>1, <2>2
<1>5. QED BY <1>1, <1>2, <1>3, <1>4 DEF KeptInv, Legible

LEMMA KeptAtRead ==
  ASSUME KeptInv, NEW u \in Users, LS!ReadAgain(u),
         LS!Job(u).do \in Writers, LS!Job(u).do = "clear" => LS!Base(LS!Read).entry # None,
         command[u] # None,
         Becomes(u, Cmd(command[u].todo, "write", command[u].new, LS!Read, LS!Sections, command[u].edit))
  PROVE  KeptInv'
<1> DEFINE c == Cmd(command[u].todo, "write", command[u].new, LS!Read, LS!Sections, command[u].edit)
<1>1. UNCHANGED <<settings, legacy, expected, crossed>>
  BY DEF LS!ReadAgain
<1>2. Proper(c)
  BY CmdFields DEF Proper, KeptInv, AreCommands, Stages
<1> HIDE DEF c
<1>3. /\ AreCommands' /\ command'[u] = c
      /\ \A v \in Users \ {u} : command'[v] = command[v]
  BY <1>2, OthersStay DEF KeptInv, c
<1>4. LS!Read' = LS!Read /\ LS!Base(LS!Read)' = LS!Base(LS!Read)
  BY <1>1 DEF LS!Read, LS!Base
<1>5. AboutToWrite(u)'
  <2>1. /\ c.todo = command[u].todo /\ c.at = "write" /\ c.snapshot = LS!Read
        /\ c.open = LS!Sections
    BY CmdFields DEF c
  <2>2. LS!Job(u)' = LS!Job(u)  BY <1>3, <2>1 DEF LS!Job
  <2>3. Legible(LS!Read)  BY ReadIsLegible DEF KeptInv
  <2>4. LS!Job(u).do = "clear" => LS!Read # None
    BY DEF LS!Base, LS!Empty
  <2>5. PICK f : f = LS!Read  OBVIOUS
  <2>6. LS!Base(f)' = LS!Base(f)  BY DEF LS!Base
  <2>7. LS!Base(f).other = expected.other /\ (crossed # TRUE => LS!Base(f) = expected)
    BY <2>5 DEF KeptInv
  <2>8. (command[u])' = c /\ c.snapshot = f  BY <1>3, <2>1, <2>5
  <2>9. QED
    BY <1>1, <1>3, <2>1, <2>2, <2>3, <2>4, <2>5, <2>6, <2>7, <2>8 DEF AboutToWrite, Legible, LS!Base
<1>6. ASSUME NEW v \in Users \ {u} PROVE AboutToWrite(v)'
  <2>1. command'[v] = command[v] /\ LS!Job(v)' = LS!Job(v)
    BY <1>3 DEF LS!Job
  <2>2. PICK d : d = command[v]  OBVIOUS
  <2>3. LS!Base(d.snapshot)' = LS!Base(d.snapshot)  BY DEF LS!Base
  <2>4. AboutToWrite(v)  BY DEF KeptInv
  <2>5. QED BY <1>1, <2>1, <2>2, <2>3, <2>4 DEF AboutToWrite, Legible
<1>7. QED BY <1>1, <1>3, <1>4, <1>5, <1>6 DEF KeptInv, Legible

LEMMA KeptAtWrite ==
  ASSUME AbsentIsNoRecord, KeptInv, NEW u \in Users, LS!Write(u)
  PROVE  KeptInv'
<1>1. PICK job : job = LS!Job(u)  OBVIOUS
<1>2. PICK c : c = command[u]  OBVIOUS
<1>3. PICK f : f = c.snapshot  OBVIOUS
<1>4. /\ c # None /\ c.at = "write" /\ job.do \in Writers
      /\ settings' = LS!Applied(f, job, c.new)
      /\ expected' = LS!Applied(expected, job, c.new)
      /\ crossed' = (crossed \/ \E v \in Users \ {u} :
                        command[v] # None /\ LS!SectionOf(job) \in command[v].open)
      /\ LS!GoOn(u, <<>>, {}) /\ legacy' = legacy
  BY <1>1, <1>2, <1>3 DEF LS!Write, LS!Doing, Writers
<1>5. /\ Legible(f)
      /\ job.do = "clear" => f # None
      /\ LS!Base(f).other = expected.other
      /\ crossed # TRUE => LS!Base(f) = expected
  BY <1>1, <1>2, <1>3, <1>4 DEF KeptInv, AboutToWrite
<1>6. /\ LS!IsFile(settings') /\ settings' \notin {None, Broken}
      /\ settings'.other = expected.other
      /\ crossed # TRUE => settings' = LS!Applied(expected, job, c.new)
  <2>1. /\ LS!IsFile(LS!Applied(f, job, c.new))
        /\ LS!Applied(f, job, c.new) \notin {None, Broken}
        /\ LS!Applied(f, job, c.new).other = LS!Base(f).other
        /\ LS!Applied(f, job, c.new) = LS!Applied(LS!Base(f), job, c.new)
    BY <1>4, <1>5, AppliedToBase
  <2>2. PICK a : a = LS!Applied(f, job, c.new)  OBVIOUS
  <2>3. settings' = a /\ LS!IsFile(a) /\ a \notin {None, Broken} /\ a.other = expected.other
    BY <1>4, <1>5, <2>1, <2>2
  <2>4. QED BY <1>4, <1>5, <2>1, <2>2, <2>3 DEF LS!IsFile
<1>7. LS!IsFile(expected') /\ expected' # None /\ expected'.other = expected.other
  <2>1. Legible(expected) /\ expected # None /\ LS!Base(expected) = expected
    BY DEF KeptInv, Legible, LS!Base
  <2>2. PICK a : a = LS!Applied(expected, job, c.new)  OBVIOUS
  <2>3. LS!IsFile(a) /\ a # None /\ a.other = expected.other
    BY <1>4, <2>1, <2>2, AppliedToBase
  <2>4. QED BY <1>4, <2>2, <2>3 DEF LS!IsFile
<1>8. LS!Read' = settings' /\ LS!Base(LS!Read)' = settings'
  BY <1>6 DEF LS!Read, LS!Base
<1>9. PICK d : Starting(d) /\ Becomes(u, d)
  <2>1. {} \subseteq LS!Sections  OBVIOUS
  <2>2. QED BY <1>2, <1>4, <2>1, GoesOn, NoJobs DEF KeptInv
<1>10. /\ AreCommands' /\ command'[u] = d /\ (d # None => d.at = "start")
       /\ \A v \in Users \ {u} : command'[v] = command[v]
  BY <1>9, OthersStay, StartingIsProper DEF KeptInv
<1>11. crossed' # TRUE => crossed # TRUE
  BY <1>4
<1>12. ASSUME NEW v \in Users PROVE AboutToWrite(v)'
  <2>1. CASE v = u  BY <1>10, <2>1 DEF AboutToWrite
  <2>2. CASE v # u
    <3>1. command'[v] = command[v] /\ LS!Job(v)' = LS!Job(v)
      BY <1>10, <2>2 DEF LS!Job
    <3>2. PICK e : e = command[v]  OBVIOUS
    <3>3. LS!Base(e.snapshot)' = LS!Base(e.snapshot)  BY DEF LS!Base
    <3>4. AboutToWrite(v)  BY DEF KeptInv
    <3>5. LS!SectionOf(job) \in LS!Sections
      BY <1>4 DEF LS!SectionOf, LS!Sections, Writers, LS!ConfigJobs
    <3>6. e # None /\ e.at = "write" => crossed' = TRUE
      BY <1>4, <2>2, <3>2, <3>4, <3>5 DEF AboutToWrite
    <3>7. QED BY <1>7, <3>1, <3>2, <3>3, <3>4, <3>6 DEF AboutToWrite, Legible
  <2>3. QED BY <2>1, <2>2
<1>13. (settings = Broken \/ Legible(settings))' /\ (legacy = Broken \/ Legible(legacy))'
  BY <1>4, <1>6 DEF KeptInv, Legible, LS!IsFile
<1>14. LS!Base(LS!Read)'.other = expected'.other /\ (crossed' # TRUE => LS!Base(LS!Read)' = expected')
  BY <1>4, <1>6, <1>7, <1>8, <1>11
<1>15. QED BY <1>7, <1>10, <1>12, <1>13, <1>14 DEF KeptInv, LS!IsFile

LEMMA KeptStep ==
  ASSUME AbsentIsNoRecord, KeptInv, LS!SettingsNext
  PROVE  KeptInv'
<1>1. PICK u \in Users :
        \/ Plain(u) \/ LS!Look(u) \/ LS!Map(u) \/ LS!Save(u)
        \/ LS!ReadFirst(u) \/ LS!ReadAgain(u) \/ LS!Write(u)
  BY DEF LS!SettingsNext, Plain
<1>2. AreCommands  BY DEF KeptInv
<1>3. ASSUME NEW c, Starting(c), Becomes(u, c), UNCHANGED <<settings, legacy, expected>>,
             crossed => crossed'
      PROVE  KeptInv'
  BY <1>3, StartingIsProper, KeptWhenNothingIsWritten
<1>4. CASE Plain(u)
  BY <1>2, <1>3, <1>4, PlainStarts
<1>5. CASE LS!Look(u)
  <2>1. PICK c : c = Cmd(command[u].todo, "scan", command[u].new, LS!Read, {"entry"}, command[u].edit)
    OBVIOUS
  <2>2. Becomes(u, c) /\ UNCHANGED <<settings, legacy, expected, crossed>> /\ command[u] # None
    BY <1>2, <1>5, <2>1, LookBecomes DEF LS!Look, LS!Doing
  <2>3. Proper(c) /\ c.at = "scan"
    BY <1>2, <2>1, <2>2, CmdFields DEF Proper, AreCommands, Stages, LS!Sections
  <2>4. QED BY <2>2, <2>3, KeptWhenNothingIsWritten
<1>6. CASE LS!Map(u)
  <2>1. PICK found \in Histories :
          Becomes(u, Cmd(command[u].todo, "rows", LS!Rows(found, LS!Base(LS!Read).routes), LS!Read,
                         {"routes"}, command[u].edit))
    BY <1>2, <1>6, MapBecomes
  <2>2. PICK c : c = Cmd(command[u].todo, "rows", LS!Rows(found, LS!Base(LS!Read).routes), LS!Read,
                         {"routes"}, command[u].edit)
    OBVIOUS
  <2>3. UNCHANGED <<settings, legacy, expected, crossed>> /\ command[u] # None
    BY <1>6 DEF LS!Map, LS!Doing
  <2>4. Proper(c) /\ c.at = "rows"
    BY <1>2, <2>2, <2>3, CmdFields DEF Proper, AreCommands, Stages, LS!Sections
  <2>5. QED BY <2>1, <2>2, <2>3, <2>4, KeptWhenNothingIsWritten
<1>7. CASE LS!Save(u)
  <2>1. PICK todo : \E touched, target : SavesAs(u, todo, touched, target)
    BY <1>2, <1>7, SaveBecomes
  <2>2. PICK touched : \E target : SavesAs(u, todo, touched, target)
    BY <2>1
  <2>3. PICK target : SavesAs(u, todo, touched, target)
    BY <2>2
  <2>4. PICK new, edit : Becomes(u, Cmd(todo, "merge", new, None, {"routes"}, edit))
    BY <2>3 DEF SavesAs
  <2>5. PICK c : c = Cmd(todo, "merge", new, None, {"routes"}, edit)
    OBVIOUS
  <2>6. UNCHANGED <<settings, legacy, expected, crossed>> /\ Jobs(todo) /\ todo # <<>>
    BY <1>7, <2>3 DEF LS!Save, SavesAs
  <2>7. Proper(c) /\ c.at = "merge"
    BY <2>5, <2>6, CmdFields DEF Proper, Stages, LS!Sections
  <2>8. QED BY <2>4, <2>5, <2>6, <2>7, KeptWhenNothingIsWritten
<1>8. CASE LS!ReadFirst(u)
  <2>1. UNCHANGED <<settings, legacy, expected, crossed>> /\ command[u] # None
    BY <1>8 DEF LS!ReadFirst, LS!Doing
  <2>2. CASE \E d : Starting(d) /\ Becomes(u, d)
    BY <1>3, <2>1, <2>2
  <2>3. CASE Becomes(u, Cmd(command[u].todo, "merge", LS!Changed(LS!Job(u), LS!Config(LS!Read)), LS!Read,
                            {"entry"}, command[u].edit))
    <3>1. PICK c : c = Cmd(command[u].todo, "merge", LS!Changed(LS!Job(u), LS!Config(LS!Read)), LS!Read,
                           {"entry"}, command[u].edit)
      OBVIOUS
    <3>2. Proper(c) /\ c.at = "merge"
      BY <1>2, <2>1, <3>1, CmdFields DEF Proper, AreCommands, Stages, LS!Sections
    <3>3. QED BY <2>1, <2>3, <3>1, <3>2, KeptWhenNothingIsWritten
  <2>4. QED BY <1>2, <1>8, <2>2, <2>3, FirstReadBecomes
<1>9. CASE LS!ReadAgain(u)
  <2>1. UNCHANGED <<settings, legacy, expected, crossed>> /\ command[u] # None
    BY <1>9 DEF LS!ReadAgain, LS!Doing
  <2>2. CASE \E d : Starting(d) /\ Becomes(u, d)
    BY <1>3, <2>1, <2>2
  <2>3. QED BY <1>2, <1>9, <2>1, <2>2, SecondReadBecomes, KeptAtRead
<1>10. CASE LS!Write(u)
  BY <1>10, KeptAtWrite
<1>11. QED BY <1>1, <1>4, <1>5, <1>6, <1>7, <1>8, <1>9, <1>10

LEMMA KeptStutter ==
  ASSUME KeptInv, UNCHANGED settingsVars
  PROVE  KeptInv'
<1>1. LS!Read' = LS!Read /\ LS!Base(LS!Read)' = LS!Base(LS!Read)
  BY DEF settingsVars, LS!Read, LS!Base
<1>2. ASSUME NEW v \in Users PROVE AboutToWrite(v)'
  <2>1. command'[v] = command[v] /\ LS!Job(v)' = LS!Job(v)
    BY DEF LS!Job, settingsVars
  <2>2. PICK d : d = command[v]  OBVIOUS
  <2>3. LS!Base(d.snapshot)' = LS!Base(d.snapshot)  BY DEF LS!Base
  <2>4. AboutToWrite(v)  BY DEF KeptInv
  <2>5. QED BY <2>1, <2>2, <2>3, <2>4 DEF AboutToWrite, Legible, settingsVars
<1>3. QED BY <1>1, <1>2 DEF KeptInv, Legible, settingsVars, AreCommands

LEMMA SettingsPart ==
  /\ LaunchInit => LS!SettingsInit
  /\ [LaunchNext]_launchVars => LS!SettingsNext \/ UNCHANGED settingsVars
  BY DEF LaunchInit, LaunchNext, launchVars

(* Unless a write falls between what another command reads and what it     *)
(* writes, the settings are what every write has made of them, and what no *)
(* command writes is kept in any case (write_in_home,                      *)
(* write_onboarding_in_home, write_subagent_routes_in_home).               *)
THEOREM SettingsAreKept ==
  ASSUME AbsentIsNoRecord
  PROVE  LaunchSpec => []LS!NothingLost
<1>1. LaunchInit => KeptInv  BY SettingsPart, KeptInit
<1>2. KeptInv /\ [LaunchNext]_launchVars => KeptInv'
  BY SettingsPart, KeptStep, KeptStutter
<1>3. KeptInv => LS!NothingLost
  BY DEF KeptInv, LS!NothingLost
<1>4. QED BY <1>1, <1>2, <1>3, PTL DEF LaunchSpec

-----------------------------------------------------------------------------
(* A write that no other command's read was crossed by is the writer's.    *)
LEMMA WriterIsAlone ==
  ASSUME KeptInv, LS!SettingsNext, NEW u \in Users, LS!Writing(u)
  PROVE  LS!Write(u)
<1>1. PICK v \in Users : LS!Write(v)
  <2>1. PICK v \in Users :
          \/ Plain(v) \/ LS!Look(v) \/ LS!Map(v) \/ LS!Save(v)
          \/ LS!ReadFirst(v) \/ LS!ReadAgain(v) \/ LS!Write(v)
    BY DEF LS!SettingsNext, Plain
  <2>2. settings' # settings  BY DEF LS!Writing
  <2>3. ~Plain(v)  BY <2>2, PlainStarts DEF KeptInv
  <2>4. ~(LS!Look(v) \/ LS!Map(v) \/ LS!Save(v) \/ LS!ReadFirst(v) \/ LS!ReadAgain(v))
    BY <2>2 DEF LS!Look, LS!Map, LS!Save, LS!ReadFirst, LS!ReadAgain
  <2>5. QED BY <2>1, <2>3, <2>4
<1>2. SUFFICES ASSUME v # u PROVE FALSE
  BY <1>1
<1>3. /\ command[u] # None /\ command[u].at = "write" /\ crossed' # TRUE
  BY DEF LS!Writing
<1>4. command[u].open = LS!Sections
  BY <1>3 DEF KeptInv, AboutToWrite
<1>5. LS!SectionOf(LS!Job(v)) \in LS!Sections
  BY <1>1 DEF LS!Write, LS!Doing, LS!SectionOf, LS!Sections, LS!ConfigJobs
<1>6. crossed' = (crossed \/ \E w \in Users \ {v} :
                     command[w] # None /\ LS!SectionOf(LS!Job(v)) \in command[w].open)
  BY <1>1 DEF LS!Write
<1>7. QED BY <1>2, <1>3, <1>4, <1>5, <1>6

(* The mapping.  What the picker asks to be written, of what it has shown. *)
IsEdit(c) ==
  \E found \in Histories : \E target, touched :
    LET before == c.edit.before
    IN /\ c.edit = [agents |-> touched, target |-> target, before |-> before]
       /\ touched \subseteq DOMAIN LS!Rows(found, before)
       /\ c.new = Edited(LS!Rows(found, before), before, touched, target)

LEMMA EditKeepsTheRest ==
  ASSUME NEW before, NEW found, NEW target, NEW touched, touched \subseteq DOMAIN LS!Rows(found, before),
         NEW new, new = Edited(LS!Rows(found, before), before, touched, target), NEW a
  PROVE  LS!Effective(new, a) =
           IF a \in touched THEN target
           ELSE IF before # None THEN LS!Effective(before, a)
           ELSE IF a \in ReadOnly \/ a \in DOMAIN new.routes THEN LS!DefaultTarget(a)
           ELSE LS!Cloud
<1> DEFINE rows == LS!Rows(found, before)
           default == LS!DefaultOf(before)
           D == {x \in DOMAIN rows : (IF x \in touched THEN target ELSE rows[x]) # default}
<1>1. /\ new.default = default
      /\ new.routes = [x \in D |-> IF x \in touched THEN target ELSE rows[x]]
  BY DEF Edited, LS!Compact, LS!Restrict
<1> HIDE DEF rows
<1>2. LS!Effective(new, a) = IF a \in DOMAIN rows
                             THEN IF a \in touched THEN target ELSE rows[a]
                             ELSE default
  BY <1>1 DEF LS!Effective
<1>3. CASE before = None
  <2>1. rows = [x \in found \cup ReadOnly |-> LS!DefaultTarget(x)] /\ default = LS!Cloud
    BY <1>3 DEF rows, LS!Rows, LS!DefaultOf
  <2>2. a \in DOMAIN new.routes => a \in DOMAIN rows
    BY <1>1
  <2>3. a \in DOMAIN rows /\ a \notin touched /\ a \notin DOMAIN new.routes => rows[a] = default
    BY <1>1
  <2>4. QED BY <1>2, <1>3, <2>1, <2>2, <2>3 DEF rows
<1>4. CASE before # None
  <2>1. /\ rows = [x \in found \cup ReadOnly \cup DOMAIN before.routes |-> LS!Effective(before, x)]
        /\ default = before.default
    BY <1>4 DEF rows, LS!Rows, LS!DefaultOf
  <2>2. QED BY <1>2, <1>4, <2>1 DEF LS!Effective, rows
<1>5. QED BY <1>3, <1>4

MapOf(c) ==
  c # None =>
    /\ c.at = "rows" => \E found \in Histories : c.new = LS!Rows(found, LS!Base(c.snapshot).routes)
    /\ c.at \in {"merge", "write"} /\ Head(c.todo).do = "routes" => IsEdit(c)
MapInv == \A u \in Users : MapOf(command[u])

LEMMA MapIsRigid ==
  ASSUME NEW CONSTANT c
  PROVE  MapOf(c)' = MapOf(c)
  BY DEF MapOf, IsEdit, Edited, LS!Rows, LS!Base, LS!Empty, LS!Effective, LS!DefaultTarget,
         LS!Compact, LS!DefaultOf, LS!Restrict, LS!Cloud, LS!Local

LEMMA MapChanges ==
  ASSUME AreCommands, MapInv, NEW u \in Users, NEW CONSTANT c, Proper(c), MapOf(c), Becomes(u, c)
  PROVE  MapInv'
<1>1. /\ command'[u] = c
      /\ \A v \in Users \ {u} : command'[v] = command[v]
  BY OthersStay
<1>2. ASSUME NEW v \in Users PROVE MapOf(command[v])'
  <2>1. PICK d : d = command'[v]  OBVIOUS
  <2>2. MapOf(d)
    <3>1. CASE v = u  BY <1>1, <2>1, <3>1
    <3>2. CASE v # u  BY <1>1, <2>1, <3>2 DEF MapInv
    <3>3. QED BY <3>1, <3>2
  <2>3. MapOf(d)'  BY <2>2, MapIsRigid
  <2>4. QED BY <2>1, <2>3 DEF MapOf, IsEdit
<1>3. QED BY <1>2 DEF MapInv

LEMMA MapStep ==
  ASSUME KeptInv, MapInv, LS!SettingsNext
  PROVE  MapInv'
<1>1. PICK u \in Users :
        \/ Plain(u) \/ LS!Look(u) \/ LS!Map(u) \/ LS!Save(u)
        \/ LS!ReadFirst(u) \/ LS!ReadAgain(u) \/ LS!Write(u)
  BY DEF LS!SettingsNext, Plain
<1>2. AreCommands  BY DEF KeptInv
<1>3. ASSUME NEW c, Starting(c), Becomes(u, c)
      PROVE  MapInv'
  <2>1. Proper(c) /\ MapOf(c)  BY <1>3, StartingIsProper DEF MapOf
  <2>2. QED BY <1>2, <1>3, <2>1, MapChanges
<1>4. CASE Plain(u)
  BY <1>2, <1>3, <1>4, PlainStarts
<1>5. CASE LS!Look(u)
  <2>1. PICK c : c = Cmd(command[u].todo, "scan", command[u].new, LS!Read, {"entry"}, command[u].edit)
    OBVIOUS
  <2>2. Becomes(u, c) /\ command[u] # None
    BY <1>2, <1>5, <2>1, LookBecomes DEF LS!Look, LS!Doing
  <2>3. Proper(c) /\ c.at = "scan"
    BY <1>2, <2>1, <2>2, CmdFields DEF Proper, AreCommands, Stages, LS!Sections
  <2>4. MapOf(c)  BY <2>3 DEF MapOf
  <2>5. QED BY <1>2, <2>2, <2>3, <2>4, MapChanges
<1>6. CASE LS!Map(u)
  <2>1. PICK found \in Histories :
          Becomes(u, Cmd(command[u].todo, "rows", LS!Rows(found, LS!Base(LS!Read).routes), LS!Read,
                         {"routes"}, command[u].edit))
    BY <1>2, <1>6, MapBecomes
  <2>2. PICK c : c = Cmd(command[u].todo, "rows", LS!Rows(found, LS!Base(LS!Read).routes), LS!Read,
                         {"routes"}, command[u].edit)
    OBVIOUS
  <2>3. command[u] # None
    BY <1>6 DEF LS!Map, LS!Doing
  <2>4. /\ Proper(c) /\ c.at = "rows" /\ c.snapshot = LS!Read
        /\ c.new = LS!Rows(found, LS!Base(LS!Read).routes)
    BY <1>2, <2>2, <2>3, CmdFields DEF Proper, AreCommands, Stages, LS!Sections
  <2>5. MapOf(c)  BY <2>4 DEF MapOf
  <2>6. QED BY <1>2, <2>1, <2>2, <2>4, <2>5, MapChanges
<1>7. CASE LS!Save(u)
  <2>1. PICK todo : \E touched, target : SavesAs(u, todo, touched, target)
    BY <1>2, <1>7, SaveBecomes
  <2>2. PICK touched : \E target : SavesAs(u, todo, touched, target)
    BY <2>1
  <2>3. PICK target : SavesAs(u, todo, touched, target)
    BY <2>2
  <2>4. PICK old : old = command[u]  OBVIOUS
  <2>5. PICK before : before = LS!Base(old.snapshot).routes  OBVIOUS
  <2>6. PICK new : new = Edited(old.new, before, touched, target)  OBVIOUS
  <2>7. PICK edit : edit = [agents |-> touched, target |-> target, before |-> before]  OBVIOUS
  <2>8. PICK c : c = Cmd(todo, "merge", new, None, {"routes"}, edit)  OBVIOUS
  <2>9. /\ Jobs(todo) /\ todo # <<>> /\ old.at = "rows" /\ touched \subseteq DOMAIN old.new
        /\ Becomes(u, c)
    BY <2>3, <2>4, <2>5, <2>6, <2>7, <2>8 DEF SavesAs
  <2>10. Proper(c) /\ c.new = new /\ c.edit = edit
    BY <2>8, <2>9, CmdFields DEF Proper, Stages, LS!Sections
  <2>11. PICK found \in Histories : old.new = LS!Rows(found, before)
    BY <1>7, <2>4, <2>5, <2>9 DEF MapInv, MapOf, LS!Save, LS!Doing
  <2>12. edit.before = before  BY <2>7
  <2>13. IsEdit(c)
    BY <2>6, <2>7, <2>9, <2>10, <2>11, <2>12 DEF IsEdit
  <2>14. c.at = "merge"  BY <2>8, CmdFields
  <2>15. MapOf(c)  BY <2>13, <2>14 DEF MapOf
  <2>16. QED BY <1>2, <2>9, <2>10, <2>15, MapChanges
<1>8. CASE LS!ReadFirst(u)
  <2>1. command[u] # None
    BY <1>8 DEF LS!ReadFirst, LS!Doing
  <2>2. CASE \E d : Starting(d) /\ Becomes(u, d)
    BY <1>3, <2>2
  <2>3. CASE /\ LS!Job(u).do \in LS!ConfigJobs
             /\ Becomes(u, Cmd(command[u].todo, "merge", LS!Changed(LS!Job(u), LS!Config(LS!Read)), LS!Read,
                               {"entry"}, command[u].edit))
    <3>1. PICK c : c = Cmd(command[u].todo, "merge", LS!Changed(LS!Job(u), LS!Config(LS!Read)), LS!Read,
                           {"entry"}, command[u].edit)
      OBVIOUS
    <3>2. Proper(c) /\ c.at = "merge" /\ c.todo = command[u].todo
      BY <1>2, <2>1, <3>1, CmdFields DEF Proper, AreCommands, Stages, LS!Sections
    <3>3. Head(c.todo).do # "routes"
      BY <2>3, <3>2 DEF LS!Job, LS!ConfigJobs
    <3>4. MapOf(c)  BY <3>2, <3>3 DEF MapOf
    <3>5. QED BY <1>2, <2>3, <3>1, <3>2, <3>4, MapChanges
  <2>4. QED BY <1>2, <1>8, <2>2, <2>3, FirstReadBecomes
<1>9. CASE LS!ReadAgain(u)
  <2>1. command[u] # None
    BY <1>9 DEF LS!ReadAgain, LS!Doing
  <2>2. CASE \E d : Starting(d) /\ Becomes(u, d)
    BY <1>3, <2>2
  <2>3. CASE /\ command[u].at = "merge" \/ LS!Job(u).do \in {"clear", "marker"}
             /\ Becomes(u, Cmd(command[u].todo, "write", command[u].new, LS!Read, LS!Sections, command[u].edit))
    <3>1. PICK c : c = Cmd(command[u].todo, "write", command[u].new, LS!Read, LS!Sections, command[u].edit)
      OBVIOUS
    <3>2. PICK old : old = command[u]  OBVIOUS
    <3>3. /\ Proper(c) /\ c.at = "write" /\ c.todo = old.todo
          /\ c.edit = old.edit /\ c.new = old.new
      BY <1>2, <2>1, <3>1, <3>2, CmdFields DEF Proper, AreCommands, Stages, LS!Sections
    <3>4. ASSUME Head(c.todo).do = "routes" PROVE IsEdit(c)
      <4>1. old.at = "merge" /\ Head(old.todo).do = "routes"
        BY <2>3, <3>2, <3>3, <3>4 DEF LS!Job
      <4>2. MapOf(old) /\ old # None
        BY <2>1, <3>2 DEF MapInv
      <4>3. IsEdit(old)
        BY <4>1, <4>2 DEF MapOf
      <4>4. QED BY <3>3, <4>3 DEF IsEdit
    <3>5. MapOf(c)  BY <3>3, <3>4 DEF MapOf
    <3>6. QED BY <1>2, <2>3, <3>1, <3>3, <3>5, MapChanges
  <2>4. QED BY <1>2, <1>9, <2>2, <2>3, SecondReadBecomes
<1>10. CASE LS!Write(u)
  <2>1. command[u] # None /\ LS!GoOn(u, <<>>, {}) /\ {} \subseteq LS!Sections
    BY <1>10 DEF LS!Write, LS!Doing
  <2>2. QED BY <1>2, <1>3, <2>1, GoesOn, NoJobs
<1>11. QED BY <1>1, <1>4, <1>5, <1>6, <1>7, <1>8, <1>9, <1>10

LEMMA MapInit == LS!SettingsInit => MapInv
  BY DEF LS!SettingsInit, MapInv, MapOf

LEMMA MapStutter ==
  ASSUME MapInv, UNCHANGED settingsVars
  PROVE  MapInv'
<1>1. ASSUME NEW u \in Users PROVE MapOf(command[u])'
  <2>1. PICK d : d = command[u]  OBVIOUS
  <2>2. MapOf(d)'  BY <2>1, MapIsRigid DEF MapInv
  <2>3. command'[u] = d  BY <2>1 DEF settingsVars
  <2>4. QED BY <2>2, <2>3 DEF MapOf, IsEdit
<1>2. QED BY <1>1 DEF MapInv

LEMMA MapWritten ==
  ASSUME KeptInv, MapInv, LS!SettingsNext, NEW u \in Users
  PROVE  LS!MappingKept(u)
<1>1. ASSUME LS!Writing(u), LS!Job(u).do = "routes", NEW a \in Agents
      PROVE  LET edit == command[u].edit
             IN LS!Effective(settings'.routes, a) =
                  IF a \in edit.agents THEN edit.target
                  ELSE IF edit.before # None THEN LS!Effective(edit.before, a)
                  ELSE IF a \in ReadOnly \/ a \in DOMAIN settings'.routes.routes
                       THEN LS!DefaultTarget(a) ELSE LS!Cloud
  <2>1. LS!Write(u)  BY <1>1, WriterIsAlone
  <2>2. PICK c : c = command[u]  OBVIOUS
  <2>3. PICK f : f = c.snapshot  OBVIOUS
  <2>4. PICK job : job = LS!Job(u)  OBVIOUS
  <2>5. settings' = LS!Applied(f, job, c.new) /\ c # None /\ c.at = "write" /\ job.do = "routes"
    BY <1>1, <2>1, <2>2, <2>3, <2>4 DEF LS!Write, LS!Doing
  <2>6. PICK b : b = LS!Base(f)  OBVIOUS
  <2>7. LS!IsFile(b)
    BY <2>2, <2>3, <2>5, <2>6, BaseIsFile DEF KeptInv, AboutToWrite
  <2>8. settings' = [b EXCEPT !.routes = c.new]
    BY <2>5, <2>6 DEF LS!Applied, LS!ConfigJobs
  <2>9. settings'.routes = c.new
    BY <2>7, <2>8 DEF LS!IsFile
  <2>10. IsEdit(c)
    BY <2>2, <2>4, <2>5 DEF MapInv, MapOf, LS!Job
  <2>11. PICK before : before = c.edit.before  OBVIOUS
  <2>12. PICK found \in Histories : \E target, touched :
           /\ c.edit = [agents |-> touched, target |-> target, before |-> before]
           /\ touched \subseteq DOMAIN LS!Rows(found, before)
           /\ c.new = Edited(LS!Rows(found, before), before, touched, target)
    BY <2>10, <2>11 DEF IsEdit
  <2>13. PICK target : \E touched :
           /\ c.edit = [agents |-> touched, target |-> target, before |-> before]
           /\ touched \subseteq DOMAIN LS!Rows(found, before)
           /\ c.new = Edited(LS!Rows(found, before), before, touched, target)
    BY <2>12
  <2>14. PICK touched :
           /\ c.edit = [agents |-> touched, target |-> target, before |-> before]
           /\ touched \subseteq DOMAIN LS!Rows(found, before)
           /\ c.new = Edited(LS!Rows(found, before), before, touched, target)
    BY <2>13
  <2>15. PICK new : new = c.new  OBVIOUS
  <2>16. LS!Effective(new, a) =
           IF a \in touched THEN target
           ELSE IF before # None THEN LS!Effective(before, a)
           ELSE IF a \in ReadOnly \/ a \in DOMAIN new.routes THEN LS!DefaultTarget(a)
           ELSE LS!Cloud
    BY <2>14, <2>15, EditKeepsTheRest
  <2>17. c.edit.agents = touched /\ c.edit.target = target /\ c.edit.before = before
    BY <2>14
  <2>18. QED BY <2>2, <2>9, <2>15, <2>16, <2>17
<1>2. ASSUME derived' # derived
      PROVE  derived' = LS!Base(LS!Read).routes
  <2>1. PICK v \in Users : LS!Derive(v)
    BY <1>2 DEF LS!SettingsNext, LS!Begin, LS!Download, LS!Delete, LS!Wizard, LS!Offer, LS!Decide,
                LS!Quit, LS!Look, LS!Map, LS!Save, LS!ReadFirst, LS!ReadAgain, LS!Write
  <2>2. QED BY <2>1 DEF LS!Derive
<1>3. QED BY <1>1, <1>2 DEF LS!MappingKept

(* An agent that was not touched in the picker keeps its target, and a     *)
(* touched one gets the one that was picked (build_rows, compact,          *)
(* effective); the proxy's routes follow (run_picker).                     *)
THEOREM MappingsAreKept ==
  ASSUME AbsentIsNoRecord
  PROVE  LaunchSpec => [][\A u \in Users : LS!MappingKept(u)]_launchVars
<1>1. LaunchInit => KeptInv /\ MapInv  BY SettingsPart, KeptInit, MapInit
<1>2. KeptInv /\ MapInv /\ [LaunchNext]_launchVars => KeptInv' /\ MapInv'
  BY SettingsPart, KeptStep, KeptStutter, MapStep, MapStutter
<1>3. KeptInv /\ MapInv /\ [LaunchNext]_launchVars => [\A u \in Users : LS!MappingKept(u)]_launchVars
  <2>1. SUFFICES ASSUME KeptInv, MapInv, LaunchNext, NEW u \in Users PROVE LS!MappingKept(u)
    OBVIOUS
  <2>2. CASE LS!SettingsNext  BY <2>1, <2>2, MapWritten
  <2>3. CASE UNCHANGED settingsVars
    BY <2>3 DEF settingsVars, LS!MappingKept, LS!Writing
  <2>4. QED BY <2>1, <2>2, <2>3, SettingsPart
<1>4. QED BY <1>1, <1>2, <1>3, PTL DEF LaunchSpec

-----------------------------------------------------------------------------
(* The configuration a command makes is made of the one it finds again     *)
(* when it writes, unless another command has written an entry meanwhile.  *)
ModeOf(u) ==
  LET c == command[u]
  IN c # None /\ LS!Job(u).do \in LS!ConfigJobs =>
       /\ c.at = "merge" =>
            /\ "entry" \in c.open
            /\ crossed # TRUE => c.new = LS!Changed(LS!Job(u), LS!Config(expected))
       /\ c.at = "write" /\ crossed # TRUE =>
            c.new = LS!Changed(LS!Job(u), LS!Config(expected))
ModeInv == \A u \in Users : ModeOf(u)

LEMMA ConfigIsOfEntry ==
  ASSUME NEW f, NEW g, LS!Base(f).entry = LS!Base(g).entry
  PROVE  LS!Config(f) = LS!Config(g)
<1>1. \A h : LS!Config(h) = LET e == LS!Base(h).entry
                            IN IF e = None THEN None
                               ELSE [k \in DOMAIN LS!Blank |-> IF k = "mode" THEN LS!ModeOf(e) ELSE e[k]]
  BY DEF LS!Config, LS!Base, LS!Empty
<1>2. QED BY <1>1

LEMMA ModeInit == LS!SettingsInit => ModeInv
  BY DEF LS!SettingsInit, ModeInv, ModeOf

(* Where no entry is written the configuration that is expected stays.     *)
LEMMA ModeWhenNoEntryIsWritten ==
  ASSUME KeptInv, ModeInv, expected'.entry = expected.entry, expected' # None,
         crossed => crossed', NEW u \in Users, NEW c, Proper(c), Becomes(u, c),
         c # None /\ Head(c.todo).do \in LS!ConfigJobs =>
           /\ c.at = "merge" => "entry" \in c.open
           /\ c.at \in {"merge", "write"} /\ crossed # TRUE =>
                c.new = LS!Changed(Head(c.todo), LS!Config(expected))
  PROVE  ModeInv'
<1>1. /\ command'[u] = c
      /\ \A v \in Users \ {u} : command'[v] = command[v]
  BY OthersStay DEF KeptInv
<1>2. crossed' # TRUE => crossed # TRUE  OBVIOUS
<1>3. PICK g : g = expected'  OBVIOUS
<1>4. LS!Config(g) = LS!Config(expected)
  <2>1. expected # None  BY DEF KeptInv
  <2>2. LS!Base(g).entry = LS!Base(expected).entry
    BY <1>3, <2>1 DEF LS!Base
  <2>3. QED BY <2>2, ConfigIsOfEntry
<1>5. ASSUME NEW CONSTANT job
      PROVE  LS!Changed(job, LS!Config(expected))' = LS!Changed(job, LS!Config(expected))
  <2>1. LS!Config(expected)' = LS!Config(g)
    BY <1>3 DEF LS!Config, LS!Base, LS!Empty, LS!Blank, LS!ModeOf
  <2>2. PICK k : k = LS!Config(expected)  OBVIOUS
  <2>3. LS!Config(expected)' = k  BY <1>4, <2>1, <2>2
  <2>4. LS!Changed(job, LS!Config(expected))' = LS!Changed(job, k)
    BY <2>3 DEF LS!Changed, LS!Blank
  <2>5. QED BY <2>2, <2>4
<1>6. ASSUME NEW v \in Users PROVE ModeOf(v)'
  <2>1. PICK d : d = command'[v]  OBVIOUS
  <2>2. PICK job : job = Head(d.todo)  OBVIOUS
  <2>3. LS!Job(v)' = job  BY <2>1, <2>2 DEF LS!Job
  <2>4. SUFFICES ASSUME d # None, job.do \in LS!ConfigJobs
                 PROVE  /\ d.at = "merge" => "entry" \in d.open
                        /\ d.at \in {"merge", "write"} /\ crossed' # TRUE =>
                             d.new = LS!Changed(job, LS!Config(expected))
    BY <1>5, <2>1, <2>3 DEF ModeOf, LS!ConfigJobs
  <2>5. CASE v = u
    BY <1>1, <1>2, <2>1, <2>2, <2>4, <2>5
  <2>6. CASE v # u
    <3>1. d = command[v] /\ job = LS!Job(v) /\ ModeOf(v)
      BY <1>1, <2>1, <2>2, <2>6 DEF ModeInv, LS!Job
    <3>2. QED BY <1>2, <2>4, <3>1 DEF ModeOf
  <2>7. QED BY <2>5, <2>6
<1>7. QED BY <1>6 DEF ModeInv

LEMMA ModeAtWrite ==
  ASSUME AbsentIsNoRecord, KeptInv, ModeInv, NEW u \in Users, LS!Write(u)
  PROVE  ModeInv'
<1>1. PICK job : job = LS!Job(u)  OBVIOUS
<1>2. PICK new : new = command[u].new  OBVIOUS
<1>3. /\ command[u] # None /\ job.do \in Writers /\ LS!GoOn(u, <<>>, {})
      /\ expected' = LS!Applied(expected, job, new)
      /\ crossed' = (crossed \/ \E v \in Users \ {u} :
                        command[v] # None /\ LS!SectionOf(job) \in command[v].open)
  BY <1>1, <1>2 DEF LS!Write, LS!Doing, Writers
<1>4. PICK d : Starting(d) /\ Becomes(u, d)
  <2>1. {} \subseteq LS!Sections  OBVIOUS
  <2>2. QED BY <1>3, <2>1, GoesOn, NoJobs DEF KeptInv
<1>5. Proper(d) /\ (d # None => d.at = "start")
  BY <1>4, StartingIsProper
<1>6. /\ command'[u] = d
      /\ \A v \in Users \ {u} : command'[v] = command[v]
  BY <1>4, <1>5, OthersStay DEF KeptInv
<1>7. CASE job.do \in {"marker", "routes"}
  <2>1. PICK f : f = expected  OBVIOUS
  <2>2. LS!IsFile(f) /\ f # None /\ LS!Base(f) = f
    BY <2>1 DEF KeptInv, LS!Base
  <2>3. PICK g : g = LS!Applied(f, job, new)  OBVIOUS
  <2>4. g.entry = f.entry
    BY <1>7, <2>2, <2>3 DEF LS!Applied, LS!ConfigJobs, LS!IsFile
  <2>5. g # None
    BY <1>3, <2>2, <2>3, AppliedToBase DEF Legible
  <2>6. expected' = g  BY <1>3, <2>1, <2>3
  <2>7. crossed => crossed'  BY <1>3
  <2>8. QED BY <1>4, <1>5, <2>1, <2>4, <2>5, <2>6, <2>7, ModeWhenNoEntryIsWritten
<1>8. CASE job.do \in LS!ConfigJobs \cup {"clear"}
  <2>1. LS!SectionOf(job) = "entry" /\ "entry" \in LS!Sections
    BY <1>8 DEF LS!SectionOf, LS!ConfigJobs, LS!Sections
  <2>2. ASSUME NEW v \in Users PROVE ModeOf(v)'
    <3>1. CASE v = u  BY <1>5, <1>6, <3>1 DEF ModeOf
    <3>2. CASE v # u
      <4>1. PICK c : c = command[v]  OBVIOUS
      <4>2. command'[v] = c /\ LS!Job(v)' = LS!Job(v) /\ LS!Job(v) = Head(c.todo)
        BY <1>6, <3>2, <4>1 DEF LS!Job
      <4>3. SUFFICES ASSUME c # None, LS!Job(v).do \in LS!ConfigJobs, c.at \in {"merge", "write"}
                     PROVE  "entry" \in c.open /\ crossed' = TRUE
        BY <4>2 DEF ModeOf, LS!ConfigJobs
      <4>4. "entry" \in c.open
        BY <2>1, <4>1, <4>3 DEF ModeInv, ModeOf, KeptInv, AboutToWrite
      <4>5. QED BY <1>3, <2>1, <3>2, <4>1, <4>3, <4>4
    <3>3. QED BY <3>1, <3>2
  <2>3. QED BY <2>2 DEF ModeInv
<1>9. QED BY <1>3, <1>7, <1>8 DEF Writers

LEMMA ModeStep ==
  ASSUME AbsentIsNoRecord, KeptInv, ModeInv, LS!SettingsNext
  PROVE  ModeInv'
<1>1. PICK u \in Users :
        \/ Plain(u) \/ LS!Look(u) \/ LS!Map(u) \/ LS!Save(u)
        \/ LS!ReadFirst(u) \/ LS!ReadAgain(u) \/ LS!Write(u)
  BY DEF LS!SettingsNext, Plain
<1>2. AreCommands /\ expected # None  BY DEF KeptInv
<1>3. ASSUME NEW c, Starting(c), Becomes(u, c), expected' = expected, crossed => crossed'
      PROVE  ModeInv'
  <2>1. Proper(c) /\ (c # None => c.at = "start")  BY <1>3, StartingIsProper
  <2>2. expected'.entry = expected.entry /\ expected' # None  BY <1>2, <1>3
  <2>3. QED BY <1>3, <2>1, <2>2, ModeWhenNoEntryIsWritten
<1>4. CASE Plain(u)
  BY <1>2, <1>3, <1>4, PlainStarts
<1>5. CASE LS!Look(u)
  <2>1. PICK c : c = Cmd(command[u].todo, "scan", command[u].new, LS!Read, {"entry"}, command[u].edit)
    OBVIOUS
  <2>2. Becomes(u, c) /\ command[u] # None /\ UNCHANGED <<expected, crossed>>
    BY <1>2, <1>5, <2>1, LookBecomes DEF LS!Look, LS!Doing
  <2>3. Proper(c) /\ c.at = "scan"
    BY <1>2, <2>1, <2>2, CmdFields DEF Proper, AreCommands, Stages, LS!Sections
  <2>4. QED BY <1>2, <2>2, <2>3, ModeWhenNoEntryIsWritten
<1>6. CASE LS!Map(u)
  <2>1. PICK found \in Histories :
          Becomes(u, Cmd(command[u].todo, "rows", LS!Rows(found, LS!Base(LS!Read).routes), LS!Read,
                         {"routes"}, command[u].edit))
    BY <1>2, <1>6, MapBecomes
  <2>2. PICK c : c = Cmd(command[u].todo, "rows", LS!Rows(found, LS!Base(LS!Read).routes), LS!Read,
                         {"routes"}, command[u].edit)
    OBVIOUS
  <2>3. command[u] # None /\ UNCHANGED <<expected, crossed>>
    BY <1>6 DEF LS!Map, LS!Doing
  <2>4. Proper(c) /\ c.at = "rows"
    BY <1>2, <2>2, <2>3, CmdFields DEF Proper, AreCommands, Stages, LS!Sections
  <2>5. QED BY <1>2, <2>1, <2>2, <2>3, <2>4, ModeWhenNoEntryIsWritten
<1>7. CASE LS!Save(u)
  <2>1. PICK todo : \E touched, target : SavesAs(u, todo, touched, target)
    BY <1>2, <1>7, SaveBecomes
  <2>2. PICK touched : \E target : SavesAs(u, todo, touched, target)
    BY <2>1
  <2>3. PICK target : SavesAs(u, todo, touched, target)
    BY <2>2
  <2>4. PICK new, edit : Becomes(u, Cmd(todo, "merge", new, None, {"routes"}, edit))
    BY <2>3 DEF SavesAs
  <2>5. PICK c : c = Cmd(todo, "merge", new, None, {"routes"}, edit)
    OBVIOUS
  <2>6. /\ UNCHANGED <<expected, crossed>> /\ Jobs(todo) /\ todo # <<>>
        /\ Head(todo) = LS!Do("routes")
    BY <1>7, <2>3 DEF LS!Save, SavesAs
  <2>7. Proper(c) /\ c.todo = todo
    BY <2>5, <2>6, CmdFields DEF Proper, Stages, LS!Sections
  <2>8. Head(c.todo).do \notin LS!ConfigJobs
    BY <2>6, <2>7, JobFields DEF LS!ConfigJobs
  <2>9. QED BY <1>2, <2>4, <2>5, <2>6, <2>7, <2>8, ModeWhenNoEntryIsWritten
<1>8. CASE LS!ReadFirst(u)
  <2>1. UNCHANGED <<expected, crossed>> /\ command[u] # None
    BY <1>8 DEF LS!ReadFirst, LS!Doing
  <2>2. CASE \E d : Starting(d) /\ Becomes(u, d)
    BY <1>3, <2>1, <2>2
  <2>3. CASE Becomes(u, Cmd(command[u].todo, "merge", LS!Changed(LS!Job(u), LS!Config(LS!Read)), LS!Read,
                            {"entry"}, command[u].edit))
    <3>1. PICK new : new = LS!Changed(LS!Job(u), LS!Config(LS!Read))  OBVIOUS
    <3>2. PICK c : c = Cmd(command[u].todo, "merge", new, LS!Read, {"entry"}, command[u].edit)
      OBVIOUS
    <3>3. Proper(c) /\ c.at = "merge" /\ c.open = {"entry"} /\ c.todo = command[u].todo /\ c.new = new
      BY <1>2, <2>1, <3>2, CmdFields DEF Proper, AreCommands, Stages, LS!Sections
    <3>4. crossed # TRUE => LS!Config(LS!Read) = LS!Config(expected)
      <4>1. PICK f : f = LS!Read  OBVIOUS
      <4>2. crossed # TRUE => LS!Base(f) = expected  BY <4>1 DEF KeptInv
      <4>3. LS!Base(expected) = expected  BY <1>2 DEF LS!Base
      <4>4. QED BY <4>1, <4>2, <4>3, ConfigIsOfEntry
    <3>5. Head(c.todo) = LS!Job(u)  BY <3>3 DEF LS!Job
    <3>6. crossed # TRUE => c.new = LS!Changed(Head(c.todo), LS!Config(expected))
      BY <3>1, <3>3, <3>4, <3>5
    <3>7. Becomes(u, c)  BY <2>3, <3>1, <3>2
    <3>8. expected'.entry = expected.entry /\ expected' # None /\ (crossed => crossed')
      BY <1>2, <2>1
    <3>9. QED BY <3>3, <3>6, <3>7, <3>8, ModeWhenNoEntryIsWritten
  <2>4. QED BY <1>2, <1>8, <2>2, <2>3, FirstReadBecomes
<1>9. CASE LS!ReadAgain(u)
  <2>1. UNCHANGED <<expected, crossed>> /\ command[u] # None
    BY <1>9 DEF LS!ReadAgain, LS!Doing
  <2>2. CASE \E d : Starting(d) /\ Becomes(u, d)
    BY <1>3, <2>1, <2>2
  <2>3. CASE /\ command[u].at = "merge" \/ LS!Job(u).do \in {"clear", "marker"}
             /\ Becomes(u, Cmd(command[u].todo, "write", command[u].new, LS!Read, LS!Sections, command[u].edit))
    <3>1. PICK c : c = Cmd(command[u].todo, "write", command[u].new, LS!Read, LS!Sections, command[u].edit)
      OBVIOUS
    <3>2. Proper(c) /\ c.at = "write" /\ c.todo = command[u].todo /\ c.new = command[u].new
      BY <1>2, <2>1, <3>1, CmdFields DEF Proper, AreCommands, Stages, LS!Sections
    <3>3. Head(c.todo) = LS!Job(u)  BY <3>2 DEF LS!Job
    <3>4. LS!Job(u).do \in LS!ConfigJobs /\ crossed # TRUE =>
            c.new = LS!Changed(Head(c.todo), LS!Config(expected))
      BY <2>1, <2>3, <3>2, <3>3 DEF ModeInv, ModeOf, LS!ConfigJobs
    <3>5. expected'.entry = expected.entry /\ expected' # None /\ (crossed => crossed')
      BY <1>2, <2>1
    <3>6. QED BY <2>3, <3>1, <3>2, <3>3, <3>4, <3>5, ModeWhenNoEntryIsWritten
  <2>4. QED BY <1>2, <1>9, <2>2, <2>3, SecondReadBecomes
<1>10. CASE LS!Write(u)
  BY <1>10, ModeAtWrite
<1>11. QED BY <1>1, <1>4, <1>5, <1>6, <1>7, <1>8, <1>9, <1>10

(* A configuration has the fields of an empty one; a job changes those of  *)
(* its own mode.                                                           *)
LEMMA ConfigFields ==
  ASSUME NEW f, LS!Config(f) # None
  PROVE  LET k == LS!Config(f)
         IN k = [mode |-> k.mode, provider |-> k.provider, url |-> k.url, model |-> k.model,
                 pick |-> k.pick, whole |-> k.whole]
<1>1. DOMAIN LS!Blank = {"mode", "provider", "url", "model", "pick", "whole"}
  BY DEF LS!Blank
<1>2. PICK k : k = LS!Config(f)  OBVIOUS
<1>3. k = [x \in DOMAIN LS!Blank |-> k[x]]
  BY <1>2 DEF LS!Config
<1>4. k = [mode |-> k.mode, provider |-> k.provider, url |-> k.url, model |-> k.model,
           pick |-> k.pick, whole |-> k.whole]
  BY <1>1, <1>3
<1>5. QED BY <1>2, <1>4

LEMMA ChangedKeepsTheOther ==
  ASSUME NEW job, job.do \in LS!ConfigJobs \ {"unpick"}, NEW k, k # None,
         k = [mode |-> k.mode, provider |-> k.provider, url |-> k.url, model |-> k.model,
              pick |-> k.pick, whole |-> k.whole]
  PROVE  LET n == LS!Changed(job, k)
         IN /\ {"url", "model", "pick"} \subseteq DOMAIN n
            /\ job.do = "select" => n.url = k.url /\ n.model = k.model
            /\ job.do # "select" => n.pick = k.pick
<1>1. CASE job.do = "select"
  BY <1>1 DEF LS!Changed
<1>2. CASE job.do \in {"custom", "activate"}
  BY <1>2 DEF LS!Changed
<1>3. CASE job.do = "provider"
  BY <1>3 DEF LS!Changed
<1>4. QED BY <1>1, <1>2, <1>3 DEF LS!ConfigJobs

LEMMA ConfigOfEntry ==
  ASSUME AbsentIsNoRecord, NEW f, f # None, NEW n, NEW saved, f.entry = LS!Entry(n, saved),
         {"url", "model", "pick"} \subseteq DOMAIN n
  PROVE  LET c == LS!Config(f)
         IN c.url = n.url /\ c.model = n.model /\ c.pick = n.pick
<1>1. PICK e : e = LS!Entry(n, saved)  OBVIOUS
<1>2. e # None  BY <1>1 DEF AbsentIsNoRecord
<1>3. e.url = n.url /\ e.model = n.model /\ e.pick = n.pick
  BY <1>1 DEF LS!Entry
<1>4. LS!Config(f) = [x \in DOMAIN LS!Blank |-> IF x = "mode" THEN LS!ModeOf(e) ELSE e[x]]
  BY <1>1, <1>2 DEF LS!Config, LS!Base
<1>5. {"url", "model", "pick"} \subseteq DOMAIN LS!Blank
  BY DEF LS!Blank
<1>6. QED BY <1>3, <1>4, <1>5

LEMMA ModeWritten ==
  ASSUME AbsentIsNoRecord, KeptInv, ModeInv, LS!SettingsNext, NEW u \in Users
  PROVE  LS!OtherModeKept(u)
<1>1. SUFFICES ASSUME LS!Writing(u), LS!Job(u).do \in LS!ConfigJobs \ {"unpick"},
                      LS!Config(LS!Read) # None
               PROVE  IF LS!Job(u).do = "select"
                      THEN LS!Active(LS!Config(settings')) = LS!Active(LS!Config(LS!Read))
                      ELSE LS!Config(settings').pick = LS!Config(LS!Read).pick
  BY DEF LS!OtherModeKept
<1>2. LS!Write(u)  BY <1>1, WriterIsAlone
<1>3. PICK c : c = command[u]  OBVIOUS
<1>4. PICK f : f = c.snapshot  OBVIOUS
<1>5. PICK job : job = LS!Job(u)  OBVIOUS
<1>6. PICK n : n = c.new  OBVIOUS
<1>7. PICK k : k = LS!Config(LS!Read)  OBVIOUS
<1>8. /\ settings' = LS!Applied(f, job, n) /\ c # None /\ c.at = "write"
      /\ job.do \in LS!ConfigJobs \ {"unpick"} /\ k # None
  BY <1>1, <1>2, <1>3, <1>4, <1>5, <1>6, <1>7 DEF LS!Write, LS!Doing
<1>9. crossed # TRUE
  BY <1>1, <1>2 DEF LS!Writing, LS!Write
<1>10. n = LS!Changed(job, k)
  <2>1. n = LS!Changed(job, LS!Config(expected))
    BY <1>3, <1>5, <1>6, <1>8, <1>9 DEF ModeInv, ModeOf
  <2>2. PICK r : r = LS!Read  OBVIOUS
  <2>3. LS!Base(r) = expected /\ LS!Base(expected) = expected
    BY <1>9, <2>2 DEF KeptInv, LS!Base
  <2>4. QED BY <1>7, <2>1, <2>2, <2>3, ConfigIsOfEntry
<1>11. /\ {"url", "model", "pick"} \subseteq DOMAIN n
       /\ job.do = "select" => n.url = k.url /\ n.model = k.model
       /\ job.do # "select" => n.pick = k.pick
  BY <1>7, <1>8, <1>10, ConfigFields, ChangedKeepsTheOther
<1>12. PICK saved : settings'.entry = LS!Entry(n, saved)
  <2>1. PICK b : b = LS!Base(f)  OBVIOUS
  <2>2. LS!IsFile(b)
    BY <1>3, <1>4, <1>8, <2>1, BaseIsFile DEF KeptInv, AboutToWrite
  <2>3. PICK entry : entry = LS!Entry(n, IF b.entry = None THEN {} ELSE b.entry.saved)  OBVIOUS
  <2>4. settings' = [b EXCEPT !.entry = entry]
    BY <1>8, <2>1, <2>3 DEF LS!Applied, LS!ConfigJobs
  <2>5. settings'.entry = entry
    BY <2>2, <2>4 DEF LS!IsFile
  <2>6. QED BY <2>3, <2>5
<1>13. PICK g : g = settings'  OBVIOUS
<1>14. g # None
  <2>1. Legible(f) /\ (job.do = "clear" => f # None) /\ job.do \in Writers
    BY <1>3, <1>4, <1>5, <1>8 DEF KeptInv, AboutToWrite
  <2>2. QED BY <1>8, <1>13, <2>1, AppliedToBase
<1>15. LET d == LS!Config(g) IN d.url = n.url /\ d.model = n.model /\ d.pick = n.pick
  BY <1>11, <1>12, <1>13, <1>14, ConfigOfEntry
<1>16. QED BY <1>5, <1>7, <1>11, <1>13, <1>15 DEF LS!Active

LEMMA ModeStutter ==
  ASSUME ModeInv, UNCHANGED settingsVars
  PROVE  ModeInv'
<1>1. PICK k : k = LS!Config(expected)  OBVIOUS
<1>2. LS!Config(expected)' = k
  BY <1>1 DEF settingsVars, LS!Config, LS!Base, LS!Empty, LS!Blank, LS!ModeOf
<1>3. ASSUME NEW CONSTANT job
      PROVE  LS!Changed(job, LS!Config(expected))' = LS!Changed(job, k)
  BY <1>2 DEF LS!Changed, LS!Blank
<1>4. ASSUME NEW v \in Users PROVE ModeOf(v)'
  <2>1. PICK d : d = command[v]  OBVIOUS
  <2>2. PICK job : job = LS!Job(v)  OBVIOUS
  <2>3. command'[v] = d /\ LS!Job(v)' = job /\ crossed' = crossed
    BY <2>1, <2>2 DEF settingsVars, LS!Job
  <2>4. QED BY <1>1, <1>3, <2>1, <2>2, <2>3 DEF ModeInv, ModeOf, LS!ConfigJobs
<1>5. QED BY <1>4 DEF ModeInv

(* To select a catalog model keeps the user's own server, and to go back   *)
(* to that keeps the model (local_model.rs: each set is retained).         *)
THEOREM OtherModesAreKept ==
  ASSUME AbsentIsNoRecord
  PROVE  LaunchSpec => [][\A u \in Users : LS!OtherModeKept(u)]_launchVars
<1>1. LaunchInit => KeptInv /\ ModeInv  BY SettingsPart, KeptInit, ModeInit
<1>2. KeptInv /\ ModeInv /\ [LaunchNext]_launchVars => KeptInv' /\ ModeInv'
  BY SettingsPart, KeptStep, KeptStutter, ModeStep, ModeStutter
<1>3. KeptInv /\ ModeInv /\ [LaunchNext]_launchVars => [\A u \in Users : LS!OtherModeKept(u)]_launchVars
  <2>1. SUFFICES ASSUME KeptInv, ModeInv, LaunchNext, NEW u \in Users PROVE LS!OtherModeKept(u)
    OBVIOUS
  <2>2. CASE LS!SettingsNext  BY <2>1, <2>2, ModeWritten
  <2>3. CASE UNCHANGED settingsVars
    BY <2>3 DEF settingsVars, LS!OtherModeKept, LS!Writing
  <2>4. QED BY <2>1, <2>2, <2>3, SettingsPart
<1>4. QED BY <1>1, <1>2, <1>3, PTL DEF LaunchSpec

-----------------------------------------------------------------------------
(* Types.  The plans: what a launch resolves to has one of the planes and  *)
(* scopes, and what it leaves saved one of the modes.                      *)
Scopes == {"all", "selective", "override"}
Planned(p) ==
  /\ p = [f \in DOMAIN p |-> p[f]]
  /\ {"plane", "scope", "allow", "local", "model", "sub", "haiku"} \subseteq DOMAIN p
  /\ p.plane \in {"here", "hosted"} /\ p.scope \in Scopes
Savable(s) ==
  s # Nothing => /\ s = [f \in DOMAIN s |-> s[f]] /\ "mode" \in DOMAIN s
                 /\ s.mode \in {"recommended", "custom"}
Resolution(o) == Savable(o.saved) /\ (o.plan # Nothing => Planned(o.plan))
Here(o) == o.plan # Nothing => o.plan.plane = "here"
InPlaneOf(p, q) == Planned(q) /\ q.plane = p.plane

(* What a plan of the hosted plane is, of which wish: the proxy takes the  *)
(* agents of the file that the wish names, unless a local model is offered *)
(* to the router, and the models are those that the user chose.            *)
FileOf(w) == L!R!Or(w.config, w.allowlist)
Chosen(w) ==
  L!R!Or(w.model,
         L!R!Or(w.env, IF w.config = Nothing \/ L!Passthrough(w.config) THEN Nothing
                       ELSE L!ModelOf(w.config.routes.main)))
HostedPlan(w, p) ==
  /\ w.tool = "claude" /\ ~w.local /\ (w.config # Nothing => ~L!NeedsLocalRouter(w.config))
  /\ p.allow = IF FileOf(w) = Nothing \/ p.local # Nothing THEN {} ELSE L!Names(FileOf(w))
  /\ p.scope = "selective" =>
       /\ p.model = L!R!Or(w.model, w.env) /\ p.haiku = Nothing
       /\ p.sub \in {Nothing, L!Swift} /\ (p.sub # Nothing => p.allow = {})
  /\ p.scope # "selective" =>
       /\ p.model \in DOMAIN ClassOf /\ (Chosen(w) # Nothing => p.model = Chosen(w))
       /\ {p.sub, p.haiku} \subseteq {Nothing} \cup DOMAIN ClassOf
HostedOf(w, o) ==
  o.plan # Nothing /\ o.plan.plane = "hosted" => HostedPlan(w, o.plan) \/ L!StartOffersLocal(w)

(* The models that a launch gives to Claude Code.                          *)
GivenModels(w, p, main, sub, arc, q) ==
  /\ Planned(q)
  /\ q.plane = p.plane /\ q.scope = p.scope /\ q.allow = p.allow /\ q.local = p.local
  /\ p.scope = "selective" =>
       /\ q.model = L!R!Or(w.model, w.env) /\ q.haiku = Nothing
       /\ q.sub \in {Nothing, L!Swift} /\ (q.sub # Nothing => arc)
  /\ p.scope # "selective" =>
       /\ \E own \in {L!R!Virtual, L!Sage} :
            q.model = L!R!Or(w.model, L!R!Or(w.env, L!R!Or(main, own)))
       /\ q.sub \in {Nothing, sub, L!Swift} /\ q.haiku \in {Nothing, L!Swift}

LEMMA PlannedField ==
  ASSUME NEW p, Planned(p), NEW f, f \notin {"plane", "scope"}, NEW v
  PROVE  Planned([p EXCEPT ![f] = v]) /\ [p EXCEPT ![f] = v].plane = p.plane
  BY DEF Planned

LEMMA PlannedScope ==
  ASSUME NEW p, Planned(p), NEW s \in Scopes
  PROVE  Planned([p EXCEPT !.scope = s]) /\ [p EXCEPT !.scope = s].plane = p.plane
  BY DEF Planned

LEMMA BlankIsPlanned == Planned(L!Blank) /\ L!Blank.plane = "here"
  BY DEF Planned, L!Blank, Scopes

LEMMA HostedIsPlanned ==
  ASSUME NEW s \in Scopes
  PROVE  Planned([L!Blank EXCEPT !.plane = "hosted", !.scope = s])
  BY DEF Planned, L!Blank, Scopes

LEMMA ReadsArePlanned ==
  ASSUME NEW path, NEW c
  PROVE  Planned(L!Reads(path, c)) /\ L!Reads(path, c).plane = "here"
<1>1. PICK file : file = L!Parsed(c)  OBVIOUS
<1>2. PICK names : names = DOMAIN c.routes.subagents  OBVIOUS
<1>3. L!Reads(path, c) = [L!Blank EXCEPT !.path = path, !.file = file, !.allow = names]
  BY <1>1, <1>2 DEF L!Reads
<1>4. QED BY <1>3 DEF Planned, L!Blank, Scopes

LEMMA ModelsArePlanned ==
  ASSUME NEW w, NEW p, Planned(p), NEW a, NEW b, NEW c
  PROVE  InPlaneOf(p, L!Models(w, p, a, b, c))
<1>1. PICK x, y, z : L!Models(w, p, a, b, c) = [p EXCEPT !.model = x, !.sub = y, !.haiku = z]
  BY Zenon DEF L!Models
<1>2. InPlaneOf(p, [p EXCEPT !.model = x, !.sub = y, !.haiku = z])
  BY DEF Planned, InPlaneOf
<1>3. QED BY <1>1, <1>2

LEMMA ModelsAreGiven ==
  ASSUME NEW w, NEW p, Planned(p), NEW main, NEW sub, NEW arc \in BOOLEAN
  PROVE  GivenModels(w, p, main, sub, arc, L!Models(w, p, main, sub, arc))
<1>1. PICK own \in {L!R!Virtual, L!Sage} :
        own = IF p.plane = "here" \/ p.local # Nothing THEN L!R!Virtual ELSE L!Sage
  OBVIOUS
<1>2. PICK m : m = L!R!Or(w.model, L!R!Or(w.env, L!R!Or(main, own)))  OBVIOUS
<1>3. PICK x : x = IF p.scope # "selective" \/ w.model # Nothing \/ w.env # Nothing
                   THEN m ELSE Nothing
  OBVIOUS
<1>4. PICK untouched \in BOOLEAN :
        untouched = (w.model = Nothing /\ w.env = Nothing /\ main = Nothing)
  OBVIOUS
<1>5. PICK y : y = IF p.scope # "selective" /\ sub # Nothing THEN sub
                   ELSE IF arc /\ (~(p.scope # "selective") \/ untouched) THEN L!Swift ELSE Nothing
  OBVIOUS
<1>6. PICK z : z = IF arc /\ p.scope # "selective" /\ untouched THEN L!Swift ELSE Nothing
  OBVIOUS
<1>7. PICK q : q = [p EXCEPT !.model = x, !.sub = y, !.haiku = z]  OBVIOUS
<1>8. L!Models(w, p, main, sub, arc) = q
  BY <1>1, <1>2, <1>3, <1>4, <1>5, <1>6, <1>7, Zenon DEF L!Models
<1>9. /\ Planned(q)
      /\ q.plane = p.plane /\ q.scope = p.scope /\ q.allow = p.allow /\ q.local = p.local
      /\ q.model = x /\ q.sub = y /\ q.haiku = z
  BY <1>7 DEF Planned
<1>10. p.scope = "selective" => x = L!R!Or(w.model, w.env)
  BY <1>2, <1>3 DEF L!R!Or
<1>11. p.scope # "selective" => x = m
  BY <1>3
<1>12. GivenModels(w, p, main, sub, arc, q)
  BY <1>2, <1>5, <1>6, <1>9, <1>10, <1>11 DEF GivenModels
<1>13. QED BY <1>8, <1>12

LEMMA ScopesAsked ==
  ASSUME NEW w \in Wishes
  PROVE  L!ScopeAsked(w) \in Scopes
  BY LaunchAssumption DEF L!ScopeAsked, Scopes

LEMMA ScopesOf ==
  ASSUME NEW c
  PROVE  L!ScopeOf(c) \in Scopes
  BY DEF L!ScopeOf, Scopes

LEMMA OutcomeResolves ==
  ASSUME NEW p, Planned(p), NEW s, Savable(s)
  PROVE  Resolution(L!Outcome(p, s)) /\ (p.plane = "here" => Here(L!Outcome(p, s)))
  BY DEF Resolution, Here, L!Outcome

LEMMA ServedResolves ==
  ASSUME NEW p, Planned(p), NEW s, Savable(s)
  PROVE  Resolution(L!Served(p, s)) /\ (p.plane = "here" => Here(L!Served(p, s)))
<1>1. Planned([p EXCEPT !.local = L!Serves(s)]) /\ [p EXCEPT !.local = L!Serves(s)].plane = p.plane
  BY PlannedField
<1>2. QED BY <1>1, OutcomeResolves DEF L!Served

LEMMA RefusedResolves ==
  ASSUME Savable(machine.saved)
  PROVE  Resolution(L!Refused) /\ Here(L!Refused)
  BY DEF Resolution, Here, L!Refused, L!Outcome

LEMMA PickedIsSavable ==
  ASSUME NEW s, s # Nothing, Savable(s), NEW x
  PROVE  Savable(L!Picked(s, x))
  BY DEF Savable, L!Picked

LEMMA CustomIsSavable ==
  ASSUME NEW s, s # Nothing, Savable(s), NEW x, NEW y
  PROVE  Savable([s EXCEPT !.mode = "custom", !.custom = x, !.provider = y])
  BY DEF Savable

LEMMA AdoptedIsSavable ==
  ASSUME NEW s, s # Nothing, Savable(s)
  PROVE  Savable(L!Adopted(s))
<1>1. PICK x : x = CHOOSE e \in s.kept : TRUE  OBVIOUS
<1>2. Savable([s EXCEPT !.mode = "custom", !.custom = x, !.provider = Nothing])
  BY CustomIsSavable
<1>3. QED BY <1>1, <1>2, PickedIsSavable DEF L!Adopted

LEMMA UsableIsSavable ==
  ASSUME Savable(machine.saved)
  PROVE  Savable(L!Usable)
<1>1. CASE L!Usable = Nothing
  BY <1>1 DEF Savable
<1>2. CASE L!Usable # Nothing
  <2>1. L!Usable = L!Adopted(machine.saved) /\ machine.saved # Nothing
    BY <1>2 DEF L!Usable
  <2>2. QED BY <2>1, AdoptedIsSavable
<1>3. QED BY <1>1, <1>2

LEMMA StartedResolves ==
  ASSUME Savable(machine.saved), NEW p, Planned(p), p.plane = "here", NEW e
  PROVE  Resolution(L!Started(p, e)) /\ Here(L!Started(p, e))
<1>1. CASE L!Usable = Nothing
  BY <1>1, RefusedResolves DEF L!Started
<1>2. CASE L!Usable # Nothing /\ L!Usable.provider = Nothing
  BY <1>2, UsableIsSavable, ServedResolves DEF L!Started
<1>3. CASE L!Usable # Nothing /\ L!Usable.provider # Nothing
  <2>1. PICK q : q = L!Reads("provider-routes", L!ProviderFile(L!Usable, e))  OBVIOUS
  <2>2. PICK r : r = [q EXCEPT !.scope = p.scope, !.proxy = p.proxy]  OBVIOUS
  <2>3. Planned(q) /\ q.plane = "here"
    BY <2>1, ReadsArePlanned
  <2>4. Planned(r) /\ r.plane = "here"
    BY <2>2, <2>3 DEF Planned
  <2>5. L!Started(p, e) = L!Served(r, L!Usable)
    BY <1>3, <2>1, <2>2 DEF L!Started
  <2>6. QED BY <2>4, <2>5, UsableIsSavable, ServedResolves
<1>4. QED BY <1>1, <1>2, <1>3

(* What `claude --local` is ready with, a model and what is then saved.    *)
LEMMA ReadySavable ==
  ASSUME NEW w \in Wishes, Savable(machine.saved), L!ExplicitLocal(w) # Nothing
  PROVE  Savable(L!ExplicitLocal(w).saved)
<1> DEFINE s     == machine.saved
           known == IF s = Nothing THEN L!NoModel ELSE s
<1>1. ASSUME s = Nothing
      PROVE  /\ \A m : Savable(L!Picked(known, m))
             /\ \A x, y : Savable([known EXCEPT !.mode = "custom", !.custom = x, !.provider = y])
  <2>1. PICK k : k = L!NoModel  OBVIOUS
  <2>2. k = [f \in DOMAIN k |-> k[f]] /\ "mode" \in DOMAIN k /\ k.mode = "recommended"
    BY <2>1 DEF L!NoModel
  <2>3. \A m : Savable([k EXCEPT !.mode = "recommended", !.pick = m, !.provider = Nothing])
    BY <2>2 DEF Savable
  <2>4. \A x, y : Savable([k EXCEPT !.mode = "custom", !.custom = x, !.provider = y])
    BY <2>2 DEF Savable
  <2>5. known = k
    BY <1>1, <2>1
  <2>6. QED BY <2>3, <2>4, <2>5 DEF L!Picked
<1>2. (\A m : Savable(L!Picked(known, m)))
        /\ \A x, y : Savable([known EXCEPT !.mode = "custom", !.custom = x, !.provider = y])
  BY <1>1, PickedIsSavable, CustomIsSavable
<1>3. PICK p : p = w.provider /\ p \in {Nothing, "ollama", "llamacpp"}
  BY LaunchAssumption
<1>4. PICK listed : listed = machine.listed  OBVIOUS
<1>5. PICK ofProvider :
        ofProvider = [known EXCEPT !.mode = "custom", !.custom = listed, !.provider = p]
  OBVIOUS
<1>6. Savable(ofProvider)
  BY <1>2, <1>5
<1>7. PICK best : best = L!Best(machine.downloaded)  OBVIOUS
<1>8. L!ExplicitLocal(w) \in {Nothing, L!Ready(ofProvider, ofProvider),
                              L!Ready(L!Picked(known, known.pick), s),
                              L!Ready(L!Picked(known, best), L!Picked(known, best)),
                              L!Ready(s, s),
                              L!Ready(L!Picked(known, w.answer), L!Picked(known, w.answer))}
  BY <1>3, <1>4, <1>5, <1>7 DEF L!ExplicitLocal
<1>9. \A a, b : Savable(b) => Savable(L!Ready(a, b).saved)
  BY DEF L!Ready
<1>10. Savable(s)  OBVIOUS
<1> HIDE DEF s, known
<1>11. /\ Savable(L!Ready(ofProvider, ofProvider).saved)
       /\ Savable(L!Ready(L!Picked(known, known.pick), s).saved)
       /\ Savable(L!Ready(L!Picked(known, best), L!Picked(known, best)).saved)
       /\ Savable(L!Ready(s, s).saved)
       /\ Savable(L!Ready(L!Picked(known, w.answer), L!Picked(known, w.answer)).saved)
  BY <1>2, <1>6, <1>9, <1>10
<1>12. QED BY <1>8, <1>11

LEMMA ConfigHereResolves ==
  ASSUME NEW w \in Wishes, Savable(machine.saved)
  PROVE  Resolution(L!ConfigHere(w)) /\ Here(L!ConfigHere(w))
<1>1. PICK path : path = IF L!Passthrough(w.config) THEN "config-routes" ELSE "given"  OBVIOUS
<1>2. PICK scope \in Scopes : scope = L!ScopeOf(w.config)
  BY ScopesOf
<1>3. PICK p : p = [L!Reads(path, L!ForClaude(w.config)) EXCEPT !.scope = scope]  OBVIOUS
<1>4. Planned(p) /\ p.plane = "here"
  BY <1>3, ReadsArePlanned, PlannedScope
<1>5. PICK m : m = L!Models(w, p, Nothing, Nothing, FALSE)  OBVIOUS
<1>6. Planned(m) /\ m.plane = "here"
  <2>1. InPlaneOf(p, m)
    BY <1>4, <1>5, ModelsArePlanned
  <2>2. QED BY <1>4, <2>1 DEF InPlaneOf
<1>7. PICK virtual : virtual = [m EXCEPT !.model = L!R!Virtual]  OBVIOUS
<1>8. Planned(virtual) /\ virtual.plane = "here"
  BY <1>6, <1>7, PlannedField
<1>9. L!ConfigHere(w) \in {L!Refused} \cup {L!Outcome(q, machine.saved) : q \in {m, virtual}}
                            \cup {L!Served(q, machine.saved) : q \in {m, virtual}}
  BY <1>1, <1>2, <1>3, <1>5, <1>7 DEF L!ConfigHere
<1>10. QED
  BY <1>6, <1>8, <1>9, OutcomeResolves, ServedResolves, RefusedResolves

LEMMA ConfigHostedResolves ==
  ASSUME NEW w \in Wishes, Savable(machine.saved), w.tool = "claude", ~w.local,
         w.config # Nothing, ~L!NeedsLocalRouter(w.config)
  PROVE  Resolution(L!ConfigHosted(w)) /\ HostedOf(w, L!ConfigHosted(w))
<1>1. PICK scope \in Scopes : scope = L!ScopeOf(w.config)
  BY ScopesOf
<1>2. PICK may : may = L!MayLocal(w.config)  OBVIOUS
<1>3. PICK path : path = IF may = Nothing THEN "given" ELSE Nothing  OBVIOUS
<1>4. PICK allow : allow = IF may = Nothing THEN DOMAIN w.config.routes.subagents ELSE {}  OBVIOUS
<1>5. PICK main, sub : main = L!ModelOf(w.config.routes.main)
                       /\ sub = L!ModelOf(w.config.routes.subagent)
  OBVIOUS
<1>6. PICK p : p = [L!Blank EXCEPT !.plane = "hosted", !.scope = scope, !.local = may,
                                    !.path = path, !.allow = allow]
  OBVIOUS
<1>7. Planned(p) /\ p.plane = "hosted" /\ p.scope = scope /\ p.local = may /\ p.allow = allow
  BY <1>6 DEF Planned, L!Blank
<1>8. PICK q : q = L!Models(w, p, main, sub, FALSE)  OBVIOUS
<1>9. GivenModels(w, p, main, sub, FALSE, q)
  BY <1>7, <1>8, ModelsAreGiven
<1>10. L!ConfigHosted(w) = L!Outcome(q, machine.saved)
  BY <1>1, <1>2, <1>3, <1>4, <1>5, <1>6, <1>8, Zenon DEF L!ConfigHosted
<1>11. HostedPlan(w, q)
  <2>1. FileOf(w) = w.config
    BY DEF FileOf, L!R!Or
  <2>2. q.allow = IF FileOf(w) = Nothing \/ q.local # Nothing THEN {} ELSE L!Names(FileOf(w))
    BY <1>4, <1>7, <1>9, <2>1 DEF GivenModels, L!Names
  <2>3. ASSUME q.scope # "selective"
        PROVE  /\ q.model \in DOMAIN ClassOf /\ (Chosen(w) # Nothing => q.model = Chosen(w))
               /\ {q.sub, q.haiku} \subseteq {Nothing} \cup DOMAIN ClassOf
    <3>1. ~L!Passthrough(w.config)
      BY <1>1, <1>7, <1>9, <2>3 DEF GivenModels, L!ScopeOf
    <3>2. Chosen(w) = L!R!Or(w.model, L!R!Or(w.env, main))
      BY <1>5, <3>1 DEF Chosen
    <3>3. PICK own \in {L!R!Virtual, L!Sage} :
            q.model = L!R!Or(w.model, L!R!Or(w.env, L!R!Or(main, own)))
      BY <1>9, <2>3 DEF GivenModels
    <3>4. /\ q.sub \in {Nothing, sub, L!Swift} /\ q.haiku \in {Nothing, L!Swift}
      BY <1>9, <2>3 DEF GivenModels
    <3>5. /\ {main, sub, w.model, w.env} \subseteq {Nothing} \cup DOMAIN ClassOf
          /\ {own, L!Swift} \subseteq DOMAIN ClassOf
      BY <1>5, NamesAssumption
    <3>6. QED BY <3>2, <3>3, <3>4, <3>5 DEF L!R!Or
  <2>4. q.scope = "selective" =>
          /\ q.model = L!R!Or(w.model, w.env) /\ q.haiku = Nothing
          /\ q.sub \in {Nothing, L!Swift} /\ (q.sub # Nothing => q.allow = {})
    BY <1>9 DEF GivenModels
  <2>5. QED BY <2>2, <2>3, <2>4 DEF HostedPlan
<1>12. Planned(q)
  BY <1>9 DEF GivenModels
<1>13. HostedOf(w, L!Outcome(q, machine.saved))
  BY <1>11 DEF HostedOf, L!Outcome
<1>14. QED BY <1>10, <1>12, <1>13, OutcomeResolves

LEMMA ClaudeLocalResolves ==
  ASSUME NEW w \in Wishes, Savable(machine.saved)
  PROVE  Resolution(L!ClaudeLocal(w)) /\ Here(L!ClaudeLocal(w))
<1> DEFINE ready == L!ExplicitLocal(w)
<1>1. CASE ready = Nothing
  BY <1>1, RefusedResolves DEF L!ClaudeLocal
<1>2. CASE ready # Nothing
  <2>1. PICK scope \in Scopes : scope = L!ScopeAsked(w)
    BY ScopesAsked
  <2>2. PICK s : s = ready.model  OBVIOUS
  <2>3. PICK p : p = IF s.provider # Nothing
                     THEN L!Reads("provider-routes", L!ProviderFile(s, w.allowlist))
                     ELSE IF w.allowlist # Nothing THEN L!Reads("given", w.allowlist)
                     ELSE IF scope = "selective"
                     THEN L!Reads("local-default-routes", L!AgentFile(L!Goes("local", "")))
                     ELSE L!Blank
    OBVIOUS
  <2>4. Planned(p) /\ p.plane = "here"
    BY <2>3, ReadsArePlanned, BlankIsPlanned
  <2>5. PICK served : served = L!Serves(s)  OBVIOUS
  <2>6. PICK q : q = [p EXCEPT !.scope = scope, !.local = served]  OBVIOUS
  <2>7. Planned(q) /\ q.plane = "here"
    BY <2>4, <2>6 DEF Planned
  <2>8. L!ClaudeLocal(w) = L!Outcome(L!Models(w, q, Nothing, Nothing, FALSE), ready.saved)
    <3> HIDE DEF ready
    <3>1. L!ClaudeLocal(w) =
            IF L!ExplicitLocal(w) = Nothing THEN L!Refused
            ELSE L!Outcome(L!Models(w, q, Nothing, Nothing, FALSE), L!ExplicitLocal(w).saved)
      BY <2>1, <2>2, <2>3, <2>5, <2>6, Zenon DEF L!ClaudeLocal, ready
    <3>2. QED BY <1>2, <3>1 DEF ready
  <2>9. Savable(ready.saved)
    BY <1>2, ReadySavable
  <2>10. QED
    <3> HIDE DEF ready
    <3>1. PICK m : m = L!Models(w, q, Nothing, Nothing, FALSE)  OBVIOUS
    <3>2. InPlaneOf(q, m)
      BY <2>7, <3>1, ModelsArePlanned
    <3>3. Planned(m) /\ m.plane = "here"
      BY <2>7, <3>2 DEF InPlaneOf
    <3>4. QED BY <2>8, <2>9, <3>1, <3>3, OutcomeResolves
<1>3. QED BY <1>1, <1>2

LEMMA ClaudeHostedResolves ==
  ASSUME NEW w \in Wishes, Savable(machine.saved), w.tool = "claude", ~w.local,
         w.config = Nothing
  PROVE  Resolution(L!ClaudeHosted(w)) /\ HostedOf(w, L!ClaudeHosted(w))
<1>1. PICK scope \in Scopes : scope = L!ScopeAsked(w)
  BY ScopesAsked
<1>2. PICK p : p = [L!Blank EXCEPT !.plane = "hosted", !.scope = scope]  OBVIOUS
<1>3. /\ Planned(p) /\ p.plane = "hosted" /\ p.scope = scope
      /\ p.allow = {} /\ p.local = Nothing
  BY <1>2 DEF Planned, L!Blank
<1>4. PICK served : served = L!Serves(L!Usable)  OBVIOUS
<1>5. PICK wide : wide = IF p.scope = "all" /\ w.route = Nothing THEN "selective" ELSE p.scope
  OBVIOUS
<1>6. PICK offered : offered = [p EXCEPT !.scope = wide, !.local = served]  OBVIOUS
<1>7. PICK allow : allow = IF w.allowlist = Nothing THEN {} ELSE DOMAIN w.allowlist.routes.subagents
  OBVIOUS
<1>8. PICK path : path = IF w.allowlist # Nothing THEN "given" ELSE Nothing  OBVIOUS
<1>9. PICK listed : listed = [p EXCEPT !.path = path, !.allow = allow]  OBVIOUS
<1>10. PICK arc \in BOOLEAN : arc = (w.allowlist = Nothing)  OBVIOUS
<1>11. PICK a : a = L!Models(w, offered, Nothing, Nothing, FALSE)  OBVIOUS
<1>12. PICK b : b = L!Models(w, listed, Nothing, Nothing, arc)  OBVIOUS
<1>13. L!ClaudeHosted(w) = IF L!ImplicitLocal(w) THEN L!Outcome(a, L!Usable)
                           ELSE L!Outcome(b, machine.saved)
  BY <1>1, <1>2, <1>4, <1>5, <1>6, <1>7, <1>8, <1>9, <1>10, <1>11, <1>12 DEF L!ClaudeHosted
<1>14. FileOf(w) = w.allowlist /\ Chosen(w) = L!R!Or(w.model, w.env)
  BY DEF FileOf, Chosen, L!R!Or
<1>15. ASSUME NEW x, Planned(x), NEW q, NEW default \in BOOLEAN,
              GivenModels(w, x, Nothing, Nothing, default, q), default => x.allow = {},
              x.allow = IF FileOf(w) = Nothing \/ x.local # Nothing THEN {} ELSE L!Names(FileOf(w))
       PROVE  Planned(q) /\ HostedPlan(w, q)
  <2>1. {w.model, w.env} \subseteq {Nothing} \cup DOMAIN ClassOf
        /\ {L!R!Virtual, L!Sage, L!Swift} \subseteq DOMAIN ClassOf
    BY NamesAssumption
  <2>2. ASSUME x.scope # "selective"
        PROVE  /\ q.model \in DOMAIN ClassOf /\ (Chosen(w) # Nothing => q.model = Chosen(w))
               /\ {q.sub, q.haiku} \subseteq {Nothing} \cup DOMAIN ClassOf
    <3>1. PICK own \in {L!R!Virtual, L!Sage} :
            q.model = L!R!Or(w.model, L!R!Or(w.env, L!R!Or(Nothing, own)))
      BY <1>15, <2>2 DEF GivenModels
    <3>2. q.sub \in {Nothing, L!Swift} /\ q.haiku \in {Nothing, L!Swift}
      BY <1>15, <2>2 DEF GivenModels
    <3>3. QED BY <1>14, <2>1, <3>1, <3>2 DEF L!R!Or
  <2>3. QED BY <1>15, <2>2 DEF GivenModels, HostedPlan
<1>16. CASE L!ImplicitLocal(w)
  <2>1. /\ Planned(offered) /\ offered.local = served /\ offered.allow = {}
    BY <1>1, <1>3, <1>5, <1>6 DEF Planned, Scopes
  <2>2. served # Nothing
    BY <1>4, <1>16 DEF L!ImplicitLocal, L!Usable, L!Engageable, L!Serves
  <2>3. GivenModels(w, offered, Nothing, Nothing, FALSE, a)
    BY <1>11, <2>1, ModelsAreGiven
  <2>4. Planned(a) /\ HostedPlan(w, a)
    BY <1>15, <2>1, <2>2, <2>3
  <2>5. HostedOf(w, L!Outcome(a, L!Usable))
    BY <2>4 DEF HostedOf, L!Outcome
  <2>6. QED BY <1>13, <1>16, <2>4, <2>5, UsableIsSavable, OutcomeResolves
<1>17. CASE ~L!ImplicitLocal(w)
  <2>1. /\ Planned(listed) /\ listed.local = Nothing /\ listed.allow = allow
    BY <1>3, <1>9 DEF Planned
  <2>2. GivenModels(w, listed, Nothing, Nothing, arc, b)
    BY <1>12, <2>1, ModelsAreGiven
  <2>3. allow = IF FileOf(w) = Nothing THEN {} ELSE L!Names(FileOf(w))
    BY <1>7, <1>14 DEF L!Names
  <2>4. Planned(b) /\ HostedPlan(w, b)
    BY <1>7, <1>10, <1>15, <2>1, <2>2, <2>3
  <2>5. HostedOf(w, L!Outcome(b, machine.saved))
    BY <2>4 DEF HostedOf, L!Outcome
  <2>6. QED BY <1>13, <1>17, <2>4, <2>5, OutcomeResolves
<1>18. QED BY <1>16, <1>17

LEMMA HereIsNotHosted ==
  ASSUME NEW w, NEW o, Here(o)
  PROVE  HostedOf(w, o)
  BY DEF Here, HostedOf

LEMMA ClaudeResolves ==
  ASSUME NEW w \in Wishes, Savable(machine.saved), w.tool = "claude"
  PROVE  Resolution(L!ClaudePlan(w)) /\ HostedOf(w, L!ClaudePlan(w))
  BY ClaudeLocalResolves, ClaudeHostedResolves, ConfigHereResolves, ConfigHostedResolves,
     HereIsNotHosted DEF L!ClaudePlan

LEMMA ConfigResolves ==
  ASSUME NEW w \in Wishes, Savable(machine.saved)
  PROVE  /\ Resolution(L!StartConfig(w))
         /\ L!IsCodex(w) \/ L!MayLocal(L!ConfigOf(w)) = Nothing => Here(L!StartConfig(w))
<1>1. PICK may : may = L!MayLocal(L!ConfigOf(w))  OBVIOUS
<1>2. PICK file, path :
        \/ /\ ~L!IsCodex(w) /\ may # Nothing
           /\ L!StartConfig(w) \in
                {L!Outcome([L!Blank EXCEPT !.plane = "hosted", !.scope = L!ScopeOf(L!ConfigOf(w)),
                                           !.local = may], machine.saved)}
        \/ \E p : /\ p = [L!Reads(path, file) EXCEPT
                            !.scope = L!ScopeOf(L!ConfigOf(w)), !.proxy = ~L!IsCodex(w), !.local = may]
                  /\ L!StartConfig(w) \in {L!Outcome([p EXCEPT !.advertise = TRUE], machine.saved),
                                           L!Started(p, file), L!Outcome(p, machine.saved)}
  <2>1. PICK file : file = IF ~L!IsCodex(w) THEN L!ForClaude(L!ConfigOf(w))
                           ELSE IF L!WithSubscription(w) THEN L!ForCodexSubscription(L!ConfigOf(w))
                           ELSE L!ForCodex(L!ConfigOf(w))
    OBVIOUS
  <2>2. PICK path : path = IF L!IsCodex(w) THEN "codex-config-routes"
                           ELSE IF L!Passthrough(L!ConfigOf(w)) THEN "config-routes" ELSE "given"
    OBVIOUS
  <2>3. PICK p : p = [L!Reads(path, file) EXCEPT
                        !.scope = L!ScopeOf(L!ConfigOf(w)), !.proxy = ~L!IsCodex(w), !.local = may]
    OBVIOUS
  <2>5. PICK scope : scope = L!ScopeOf(L!ConfigOf(w))  OBVIOUS
  <2>6. p.scope = scope
    <3>1. PICK r : r = L!Reads(path, file)  OBVIOUS
    <3>2. Planned(r)  BY <3>1, ReadsArePlanned
    <3>3. p = [r EXCEPT !.scope = scope, !.proxy = ~L!IsCodex(w), !.local = may]
      BY <2>3, <2>5, <3>1
    <3>4. QED BY <3>2, <3>3 DEF Planned
  <2>4. L!StartConfig(w) =
          IF may # Nothing
          THEN IF L!IsCodex(w) THEN L!Outcome([p EXCEPT !.advertise = TRUE], machine.saved)
               ELSE L!Outcome([L!Blank EXCEPT !.plane = "hosted", !.scope = p.scope, !.local = may],
                              machine.saved)
          ELSE IF L!UsesLocal(L!ConfigOf(w)) THEN L!Started(p, file) ELSE L!Outcome(p, machine.saved)
    BY <1>1, <2>1, <2>2, <2>3 DEF L!StartConfig
  <2>7. QED BY <2>3, <2>4, <2>5, <2>6
<1>3. PICK scope \in Scopes : scope = L!ScopeOf(L!ConfigOf(w))
  BY ScopesOf
<1>4. PICK h : h = [L!Blank EXCEPT !.plane = "hosted", !.scope = scope, !.local = may]  OBVIOUS
<1>5. Planned(h)
  BY <1>4 DEF Planned, L!Blank
<1>6. PICK r : r = L!Reads(path, file)  OBVIOUS
<1>7. PICK proxy : proxy = ~L!IsCodex(w)  OBVIOUS
<1>8. PICK p : p = [r EXCEPT !.scope = scope, !.proxy = proxy, !.local = may]  OBVIOUS
<1>9. Planned(p) /\ p.plane = "here"
  <2>1. Planned(r) /\ r.plane = "here"
    BY <1>6, ReadsArePlanned
  <2>2. QED BY <1>8, <2>1 DEF Planned
<1>10. PICK q : q = [p EXCEPT !.advertise = TRUE]  OBVIOUS
<1>11. Planned(q) /\ q.plane = "here"
  BY <1>9, <1>10, PlannedField
<1>12. \/ ~L!IsCodex(w) /\ may # Nothing /\ L!StartConfig(w) = L!Outcome(h, machine.saved)
       \/ L!StartConfig(w) \in {L!Outcome(q, machine.saved), L!Started(p, file),
                                L!Outcome(p, machine.saved)}
  BY <1>2, <1>3, <1>4, <1>6, <1>7, <1>8, <1>10
<1>13. QED
  BY <1>1, <1>5, <1>9, <1>11, <1>12, OutcomeResolves, StartedResolves

LEMMA StartResolves ==
  ASSUME NEW w \in Wishes, Savable(machine.saved)
  PROVE  /\ Resolution(L!StartPlan(w))
         /\ \/ Here(L!StartPlan(w))
            \/ /\ ~L!IsCodex(w) /\ L!ConfigOf(w) # Nothing
               /\ L!MayLocal(L!ConfigOf(w)) # Nothing
<1>1. \A here : Planned(L!SubscriptionPlan(here)) /\ L!SubscriptionPlan(here).plane = "here"
  <2> SUFFICES ASSUME NEW here
               PROVE  Planned(L!SubscriptionPlan(here)) /\ L!SubscriptionPlan(here).plane = "here"
    OBVIOUS
  <2>1. PICK r : r = L!Reads("codex-subscription", L!SubscriptionFile(here))  OBVIOUS
  <2>2. Planned(r) /\ r.plane = "here"
    BY <2>1, ReadsArePlanned
  <2>3. Planned([r EXCEPT !.proxy = FALSE]) /\ [r EXCEPT !.proxy = FALSE].plane = "here"
    BY <2>2, PlannedField
  <2>4. QED BY <2>1, <2>3 DEF L!SubscriptionPlan
<1>2. PICK own : own = L!AgentFile(L!Goes("local", ""))  OBVIOUS
<1>3. PICK r : r = L!Reads("local-default-routes", own)  OBVIOUS
<1>4. PICK p : p = [r EXCEPT !.scope = "selective"]  OBVIOUS
<1>5. Planned(p) /\ p.plane = "here"
  <2>1. Planned(r) /\ r.plane = "here" /\ "selective" \in Scopes
    BY <1>3, ReadsArePlanned DEF Scopes
  <2>2. QED BY <1>4, <2>1, PlannedScope
<1>6. PICK proxy : proxy = ~L!IsCodex(w)  OBVIOUS
<1>7. PICK q : q = [L!Blank EXCEPT !.proxy = proxy]  OBVIOUS
<1>8. Planned(q) /\ q.plane = "here"
  BY <1>7, BlankIsPlanned, PlannedField
<1>9. PICK x, y :
        \/ L!ConfigOf(w) # Nothing /\ L!StartPlan(w) = L!StartConfig(w)
        \/ L!StartPlan(w) \in {L!Served(L!SubscriptionPlan(TRUE), L!Usable),
                               L!Outcome(L!SubscriptionPlan(FALSE), machine.saved),
                               L!Started(p, x), L!Started(q, y)}
  BY <1>2, <1>3, <1>4, <1>6, <1>7 DEF L!StartPlan
<1>10. /\ Resolution(L!StartConfig(w)) /\ Savable(L!Usable)
       /\ L!IsCodex(w) \/ L!MayLocal(L!ConfigOf(w)) = Nothing => Here(L!StartConfig(w))
  BY ConfigResolves, UsableIsSavable
<1>11. /\ Resolution(L!Started(p, x)) /\ Resolution(L!Started(q, y))
       /\ Here(L!Started(p, x)) /\ Here(L!Started(q, y))
  BY <1>5, <1>8, StartedResolves
<1>12. /\ Resolution(L!Served(L!SubscriptionPlan(TRUE), L!Usable))
       /\ Resolution(L!Outcome(L!SubscriptionPlan(FALSE), machine.saved))
       /\ Here(L!Served(L!SubscriptionPlan(TRUE), L!Usable))
       /\ Here(L!Outcome(L!SubscriptionPlan(FALSE), machine.saved))
  BY <1>1, <1>10, ServedResolves, OutcomeResolves
<1>13. QED BY <1>9, <1>10, <1>11, <1>12

LEMMA LaunchesResolve ==
  ASSUME NEW w \in Wishes, Savable(machine.saved)
  PROVE  Resolution(L!Resolved(w)) /\ HostedOf(w, L!Resolved(w))
<1>1. CASE w.tool = "claude"
  BY <1>1, ClaudeResolves DEF L!Resolved
<1>2. CASE w.tool # "claude"
  <2>1. L!Resolved(w) = L!StartPlan(w)
    BY <1>2 DEF L!Resolved
  <2>2. ASSUME ~L!IsCodex(w), L!ConfigOf(w) # Nothing, L!MayLocal(L!ConfigOf(w)) # Nothing
        PROVE  L!StartOffersLocal(w)
    <3>1. w.tool = "start claude"
      BY <1>2, <2>2, NamesAssumption DEF L!IsCodex
    <3>2. L!ConfigOf(w) = w.config
      BY <3>1 DEF L!ConfigOf
    <3>3. QED BY <2>2, <3>1, <3>2 DEF L!StartOffersLocal
  <2>3. QED BY <2>1, <2>2, StartResolves, HereIsNotHosted DEF HostedOf
<1>3. QED BY <1>1, <1>2

(* A machine stays the one it was, but for the model it has saved and its  *)
(* configuration file; there is a wish from the first launch on; a daemon  *)
(* runs for a plan that needs one.                                         *)
Alike(m, x) ==
  x = [saved |-> x.saved, downloaded |-> m.downloaded, listed |-> m.listed,
       mapping |-> m.mapping, router |-> x.router, account |-> m.account]
PlanInv ==
  /\ \E m \in Machines : Alike(m, machine)
  /\ Savable(machine.saved)
  /\ phase \in {"new", "load", "idle", "routed", "down", "refused"}
  /\ phase = "new" => wish = Nothing
  /\ phase # "new" => wish \in Wishes
  /\ request \in Turns \cup {Nothing}
  /\ plan # Nothing => Planned(plan)
  /\ running # Nothing => L!NeedsDaemon(running)

LEMMA PlanTypes ==
  ASSUME PlanInv
  PROVE  L!PlanTypeOK
<1>1. PICK m \in Machines : Alike(m, machine)
  BY DEF PlanInv
<1>2. PICK a, b : machine = [saved |-> a, downloaded |-> m.downloaded, listed |-> m.listed,
                             mapping |-> m.mapping, router |-> b, account |-> m.account]
  BY <1>1 DEF Alike
<1>3. m = [saved |-> m.saved, downloaded |-> m.downloaded, listed |-> m.listed,
           mapping |-> m.mapping, router |-> m.router, account |-> m.account]
  BY LaunchAssumption
<1>4. [m EXCEPT !.saved = a, !.router = b] =
        [saved |-> a, downloaded |-> m.downloaded, listed |-> m.listed,
         mapping |-> m.mapping, router |-> b, account |-> m.account]
  <2>1. PICK s, d, l, p, r, c : m = [saved |-> s, downloaded |-> d, listed |-> l, mapping |-> p,
                                     router |-> r, account |-> c]
    BY <1>3
  <2>2. PICK x : x = [m EXCEPT !.saved = a, !.router = b]  OBVIOUS
  <2>3. x = [saved |-> a, downloaded |-> d, listed |-> l, mapping |-> p, router |-> b, account |-> c]
    BY <2>1, <2>2
  <2>4. m.downloaded = d /\ m.listed = l /\ m.mapping = p /\ m.account = c
    BY <2>1
  <2>5. QED BY <2>2, <2>3, <2>4
<1>5. machine.saved = a /\ machine.router = b
  BY <1>2
<1>6. \E x \in Machines : machine = [x EXCEPT !.saved = machine.saved, !.router = machine.router]
  BY <1>2, <1>4, <1>5
<1>7. machine.saved # Nothing => machine.saved.mode \in {"recommended", "custom"}
  BY DEF PlanInv, Savable
<1>8. (wish = Nothing) = (phase = "new")
  <2>1. wish = Nothing <=> phase = "new"
    BY LaunchAssumption DEF PlanInv
  <2>2. QED BY <2>1
<1>9. plan # Nothing => plan.plane \in {"here", "hosted"}
                        /\ plan.scope \in {"all", "selective", "override"}
  BY DEF PlanInv, Planned, Scopes
<1>10. QED
  BY <1>6, <1>7, <1>8, <1>9 DEF PlanInv, L!PlanTypeOK

LEMMA PlanInvInit == L!PlanInit => PlanInv
<1> SUFFICES ASSUME L!PlanInit PROVE PlanInv
  OBVIOUS
<1>1. machine \in Machines
  BY DEF L!PlanInit
<1>2. Alike(machine, machine)
  BY <1>1, LaunchAssumption DEF Alike
<1>3. Savable(machine.saved)
  <2>1. CASE machine.saved = Nothing
    BY <2>1 DEF Savable
  <2>2. CASE machine.saved # Nothing
    <3>1. PICK s : s = machine.saved  OBVIOUS
    <3>2. s = [mode |-> s.mode, pick |-> s.pick, custom |-> s.custom,
               provider |-> s.provider, kept |-> s.kept]
            /\ s.mode \in {"recommended", "custom"}
      BY <1>1, <2>2, <3>1, LaunchAssumption
    <3>3. s = [f \in DOMAIN s |-> s[f]] /\ "mode" \in DOMAIN s
      BY <3>2
    <3>4. QED BY <3>1, <3>2, <3>3 DEF Savable
  <2>3. QED BY <2>1, <2>2
<1>4. QED BY <1>1, <1>2, <1>3 DEF L!PlanInit, PlanInv

LEMMA LaunchKeepsTypes ==
  ASSUME PlanInv, NEW w \in Wishes, L!Launch(w)
  PROVE  PlanInv'
<1>1. PICK o : o = L!Resolved(w)  OBVIOUS
<1>2. Resolution(o)
  BY <1>1, LaunchesResolve DEF PlanInv
<1>3. PICK router : machine' = [machine EXCEPT !.saved = o.saved, !.router = router]
  <2>1. PICK router :
          router = IF w.tool = "codex" /\ w.config = Nothing /\ w.auth = "auto"
                   THEN L!Ensured(machine.router) ELSE machine.router
    OBVIOUS
  <2>2. machine' = [machine EXCEPT !.saved = o.saved,
                      !.router = IF w.tool = "codex" /\ w.config = Nothing /\ w.auth = "auto"
                                 THEN L!Ensured(@) ELSE @]
    BY <1>1, Zenon DEF L!Launch
  <2>3. QED BY <2>1, <2>2
<1>4. /\ wish' = w /\ plan' = o.plan /\ request' = Nothing
      /\ \/ o.plan # Nothing /\ L!NeedsDaemon(o.plan) /\ running' = o.plan /\ phase' = "load"
         \/ running' = running /\ phase' \in {"refused", "idle"}
  BY <1>1 DEF L!Launch
<1>5. PICK m \in Machines : Alike(m, machine)
  BY DEF PlanInv
<1>6. PICK a, b : machine = [saved |-> a, downloaded |-> m.downloaded, listed |-> m.listed,
                             mapping |-> m.mapping, router |-> b, account |-> m.account]
  BY <1>5 DEF Alike
<1>7. PICK saved : saved = o.saved  OBVIOUS
<1>8. machine' = [saved |-> saved, downloaded |-> m.downloaded, listed |-> m.listed,
                  mapping |-> m.mapping, router |-> router, account |-> m.account]
  BY <1>3, <1>6, <1>7
<1>9. machine'.saved = saved /\ machine'.router = router
  BY <1>8
<1>10. Alike(m, machine')
  BY <1>8, <1>9 DEF Alike
<1>11. Savable(machine'.saved) /\ (plan' # Nothing => Planned(plan'))
  BY <1>2, <1>4, <1>7, <1>9 DEF Resolution
<1>12. running' # Nothing => L!NeedsDaemon(running')
  BY <1>4 DEF PlanInv
<1>13. (\E x \in Machines : Alike(x, machine'))
  BY <1>10
<1>14. QED BY <1>4, <1>11, <1>12, <1>13 DEF PlanInv

LEMMA PlanInvStep ==
  ASSUME PlanInv, L!PlanNext
  PROVE  PlanInv'
<1>1. CASE \E w \in Wishes : L!Launch(w)
  BY <1>1, LaunchKeepsTypes
<1>2. CASE L!Load
  BY <1>2 DEF L!Load, PlanInv, L!NeedsDaemon
<1>3. CASE \E t \in Turns : L!Turn(t)
  BY <1>3 DEF L!Turn, PlanInv, L!NeedsDaemon
<1>4. Again \subseteq Wishes
  BY LaunchAssumption
<1>5. QED BY <1>1, <1>2, <1>3, <1>4 DEF L!PlanNext

LEMMA PlanInvStutter ==
  ASSUME PlanInv, UNCHANGED planVars
  PROVE  PlanInv'
  BY DEF planVars, PlanInv, L!NeedsDaemon

LEMMA PlanPart ==
  /\ LaunchInit => L!PlanInit
  /\ [LaunchNext]_launchVars => L!PlanNext \/ UNCHANGED planVars
  BY DEF LaunchInit, LaunchNext, launchVars

(* The settings: what is in the cache is of the catalogue, and no more     *)
(* commands are given than are counted.                                    *)
CountInv == have \subseteq LS!Models /\ given \in 0 .. MaxCommands

LEMMA CountInit == LS!SettingsInit => CountInv
  BY LaunchAssumption DEF LS!SettingsInit, CountInv

LEMMA CountStep ==
  ASSUME AreCommands, CountInv, LS!SettingsNext
  PROVE  CountInv'
<1>1. PICK u \in Users :
        \/ LS!Begin(u) \/ LS!Download(u) \/ LS!Delete(u) \/ LS!Wizard(u) \/ LS!Offer(u)
        \/ LS!Look(u) \/ LS!Decide(u) \/ LS!Map(u) \/ LS!Save(u) \/ LS!ReadFirst(u)
        \/ LS!ReadAgain(u) \/ LS!Write(u) \/ LS!Derive(u) \/ LS!Quit(u)
  BY DEF LS!SettingsNext
<1>2. CASE LS!Begin(u)
  <2>1. given < MaxCommands /\ given' = given + 1 /\ have' = have
    BY <1>2 DEF LS!Begin
  <2>2. QED BY <2>1, LaunchAssumption DEF CountInv
<1>3. CASE LS!Download(u)
  <2>1. /\ command[u] # None /\ LS!Job(u).do = "download"
        /\ have' = have \cup {LS!Job(u).model} /\ given' = given
    BY <1>3 DEF LS!Download, LS!Doing
  <2>2. PICK s : s = command[u].todo  OBVIOUS
  <2>3. Jobs(s) /\ s # <<>>
    BY <2>1, <2>2 DEF AreCommands
  <2>4. s[1].do = "download" => s[1].model \in LS!Models
    BY <2>3 DEF Jobs
  <2>5. LS!Job(u) = s[1]
    BY <2>2, <2>3 DEF LS!Job
  <2>6. QED BY <2>1, <2>4, <2>5 DEF CountInv
<1>4. CASE LS!Delete(u)
  <2>1. have' = have \ {LS!Job(u).model} /\ given' = given
    BY <1>4, Zenon DEF LS!Delete
  <2>2. QED BY <2>1 DEF CountInv
<1>5. CASE \/ LS!Wizard(u) \/ LS!Offer(u) \/ LS!Look(u) \/ LS!Decide(u) \/ LS!Map(u) \/ LS!Save(u)
           \/ LS!ReadFirst(u) \/ LS!ReadAgain(u) \/ LS!Write(u) \/ LS!Derive(u) \/ LS!Quit(u)
  <2>1. have' = have /\ given' = given
    BY <1>5 DEF LS!Wizard, LS!Offer, LS!Look, LS!Decide, LS!Map, LS!Save, LS!ReadFirst,
                LS!ReadAgain, LS!Write, LS!Derive, LS!Quit
  <2>2. QED BY <2>1 DEF CountInv
<1>6. QED BY <1>1, <1>2, <1>3, <1>4, <1>5

LEMMA CountStutter == CountInv /\ UNCHANGED settingsVars => CountInv'
  BY DEF CountInv, settingsVars

LEMMA SettingsTypes ==
  ASSUME AreCommands, CountInv
  PROVE  LS!SettingsTypeOK
  BY DEF AreCommands, CountInv, Stages, LS!SettingsTypeOK

(* The launch commands keep their types: a plan has one of the planes and  *)
(* scopes, a daemon runs for a plan that needs one, what is saved has one  *)
(* of the modes whatever launch or wizard saved it, and every command over *)
(* the settings is at a stage of its job.                                  *)
THEOREM LaunchTypesHold ==
  ASSUME AbsentIsNoRecord
  PROVE  LaunchSpec => []LaunchTypeOK
<1> DEFINE IInv == PlanInv /\ KeptInv /\ CountInv
<1>1. LaunchInit => IInv
  BY PlanPart, PlanInvInit, SettingsPart, KeptInit, CountInit
<1>2. IInv /\ [LaunchNext]_launchVars => IInv'
  <2> SUFFICES ASSUME IInv, [LaunchNext]_launchVars PROVE IInv'
    OBVIOUS
  <2>1. PlanInv'
    BY PlanPart, PlanInvStep, PlanInvStutter
  <2>2. KeptInv'
    BY SettingsPart, KeptStep, KeptStutter
  <2>3. AreCommands
    BY DEF KeptInv
  <2>4. CountInv'
    BY <2>3, SettingsPart, CountStep, CountStutter
  <2>5. QED BY <2>1, <2>2, <2>4
<1>3. Inv /\ IInv => LaunchTypeOK
  <2>1. KeptInv => AreCommands
    BY DEF KeptInv
  <2>2. QED BY <2>1, PlanTypes, SettingsTypes DEF Inv, AlwaysInv, LaunchTypeOK
<1>4. QED BY <1>1, <1>2, <1>3, LaunchHybrid, PTL DEF LaunchSpec
-----------------------------------------------------------------------------
(* Where the turns of a hosted launch go.  What the proxy makes of one:    *)
Prepared(rq, mode, allow) == L!X!Prepare(rq, mode, allow, TRUE)
LEMMA ProxyDecides ==
  ASSUME NEW class, NEW id, NEW type, NEW mode, NEW allow, NEW rq,
         rq = [path |-> "messages", model |-> class, agent |-> id, type |-> type, thread |-> FALSE],
         NEW d, d = Prepared(rq, mode, allow)
  PROVE  /\ mode = "all" \/ class \in L!X!RouterOnlyModels => d.target = "router" /\ d.model = class
         /\ mode # "all" /\ class \notin L!X!RouterOnlyModels =>
              IF id # Nothing /\ L!X!SubagentFilterAllows(rq, allow)
              THEN d.target = "router" /\ d.model \in {class, "virtual"}
              ELSE d.target = "anthropic"
<1>1. CASE mode = "all"
  BY <1>1 DEF Prepared, L!X!Prepare, L!X!ClassifyAll, L!X!IsRoutable, L!X!To
<1>2. CASE mode # "all" /\ class \in L!X!RouterOnlyModels
  BY <1>2 DEF Prepared, L!X!Prepare, L!X!ClassifySelective, L!X!IsRoutable, L!X!IsVirtualLookup,
              L!X!IsProviderLookup, L!X!IsVirtualModel, L!X!To
<1>3. CASE mode # "all" /\ class \notin L!X!RouterOnlyModels
  <2>1. d = IF id # Nothing
            THEN IF L!X!SubagentFilterAllows(rq, allow) THEN L!X!ToSubagentRoute(rq, TRUE)
                 ELSE L!X!Passthrough("selective_subagent_passthrough", rq)
            ELSE L!X!Passthrough("selective_main_passthrough", rq)
    BY <1>3 DEF Prepared, L!X!Prepare, L!X!ClassifySelective, L!X!IsRoutable, L!X!IsVirtualLookup,
                L!X!IsProviderLookup, L!X!IsVirtualModel
  <2>2. PICK r : r = L!X!ToSubagentRoute(rq, TRUE)  OBVIOUS
  <2>3. r.target = "router" /\ r.model \in {class, "virtual"}
    BY <2>2 DEF L!X!ToSubagentRoute, L!X!To
  <2>4. \A x : L!X!Passthrough(x, rq).target = "anthropic"
    BY DEF L!X!Passthrough, L!X!To
  <2>5. CASE id # Nothing /\ L!X!SubagentFilterAllows(rq, allow)
    BY <1>3, <2>1, <2>2, <2>3, <2>5
  <2>6. CASE ~(id # Nothing /\ L!X!SubagentFilterAllows(rq, allow))
    BY <1>3, <2>1, <2>4, <2>6
  <2>7. QED BY <2>5, <2>6
<1>4. QED BY <1>1, <1>2, <1>3

(* The proxy's list lets through the agents that have an entry.            *)
LEMMA ListedHaveEntries ==
  ASSUME NEW c, "id" \notin L!Names(c), NEW class, NEW type, NEW rq,
         rq = [path |-> "messages", model |-> class, agent |-> "id", type |-> type, thread |-> FALSE]
  PROVE  L!X!SubagentFilterAllows(rq, L!Names(c)) <=> L!Names(c) = {} \/ L!Entries(c, type) # {}
<1>1. \A x : L!X!Folded(x) = L!Folded(x)
  BY DEF L!X!Folded, L!Folded
<1>2. L!Entries(c, type) # {} <=> type # Nothing /\ \E s \in L!Names(c) : L!Folded(s) = L!Folded(type)
  BY DEF L!Entries
<1>3. QED BY <1>1, <1>2 DEF L!X!SubagentFilterAllows

(* The model of a turn.                                                    *)
LEMMA TurnHasModel ==
  ASSUME wish \in Wishes, HostedPlan(wish, plan), NEW t \in Turns
  PROVE  /\ L!Model(t) \in DOMAIN ClassOf
         /\ plan.scope = "selective" =>
              /\ t.who = "main" => L!Model(t) = L!R!Or(L!R!Or(wish.model, wish.env), L!OwnModel)
              /\ t.who = "background" => L!Model(t) = "claude-haiku"
              /\ t.who = "agent" /\ plan.sub = Nothing =>
                   L!Model(t) = L!R!Or(L!R!Or(wish.model, wish.env), L!OwnModel)
         /\ plan.scope # "selective" /\ t.who = "main" /\ Chosen(wish) # Nothing =>
              L!Model(t) = Chosen(wish)
<1>1. t.who \in {"main", "background", "agent"}
  BY NamesAssumption
<1>2. /\ t.who = "main" => L!Model(t) = L!R!Or(plan.model, L!OwnModel)
      /\ t.who = "background" => L!Model(t) = L!R!Or(plan.haiku, "claude-haiku")
      /\ t.who = "agent" => L!Model(t) = L!R!Or(plan.sub, L!R!Or(plan.model, L!OwnModel))
  BY <1>1 DEF L!Model
<1>3. /\ {wish.model, wish.env} \subseteq {Nothing} \cup DOMAIN ClassOf
      /\ {L!Swift, L!OwnModel, "claude-haiku"} \subseteq DOMAIN ClassOf
      /\ Nothing \notin DOMAIN ClassOf
  BY NamesAssumption
<1>4. CASE plan.scope = "selective"
  BY <1>1, <1>2, <1>3, <1>4 DEF HostedPlan, L!R!Or
<1>5. CASE plan.scope # "selective"
  BY <1>1, <1>2, <1>3, <1>5 DEF HostedPlan, L!R!Or
<1>6. QED BY <1>4, <1>5

LEMMA HostedTurnIsMeant ==
  ASSUME wish \in Wishes, Planned(plan), plan.plane = "hosted", HostedPlan(wish, plan),
         NEW t \in Turns, NEW d \in L!Claudes(t)
  PROVE  d \in L!MeantHosted(wish, t) /\ d.endpoint # "local"
<1>1. PICK model : model = L!Model(t)  OBVIOUS
<1>2. PICK class : class = ClassOf[model]  OBVIOUS
<1>3. PICK id : id = IF t.who = "agent" THEN "id" ELSE Nothing  OBVIOUS
<1>4. PICK type : type = t.type  OBVIOUS
<1>5. PICK rq : rq = [path |-> "messages", model |-> class, agent |-> id, type |-> type,
                      thread |-> FALSE]
  OBVIOUS
<1>6. PICK p : p = Prepared(rq, plan.scope, plan.allow)  OBVIOUS
<1>7. PICK sent : sent = IF p.model = class THEN model ELSE L!R!Virtual  OBVIOUS
<1>8. d = IF plan.scope = "override" THEN L!Hosted(model)
          ELSE IF p.target = "anthropic" THEN L!Subscription ELSE L!Hosted(sent)
  <2>1. (plan.plane = "hosted") = TRUE
    OBVIOUS
  <2>2. p = L!X!Prepare([path |-> "messages", model |-> ClassOf[L!Model(t)],
                         agent |-> IF t.who = "agent" THEN "id" ELSE Nothing, type |-> t.type,
                         thread |-> FALSE],
                        plan.scope, plan.allow, plan.plane = "hosted")
    BY <1>1, <1>2, <1>3, <1>4, <1>5, <1>6, <2>1, Zenon DEF Prepared
  <2>3. rq.model = class
    BY <1>5
  <2>4. d \in IF plan.scope = "override" THEN {L!Hosted(model)}
              ELSE IF p.target = "anthropic" THEN {L!Subscription} ELSE {L!Hosted(sent)}
    BY <1>1, <1>2, <1>3, <1>4, <1>5, <1>6, <1>7, <2>1, <2>2, <2>3 DEF L!Claudes
  <2>5. QED BY <2>4
<1>9. \A m : L!Hosted(m).endpoint # "local"
  BY DEF L!Hosted, L!R!To
<1>10. d.endpoint # "local"
  BY <1>8, <1>9 DEF L!Subscription, L!R!To
<1>11. /\ model \in DOMAIN ClassOf /\ sent \in DOMAIN ClassOf
  BY <1>1, <1>7, TurnHasModel, NamesAssumption
<1>12. Nothing # "id" /\ Nothing \notin DOMAIN ClassOf /\ t.who \in {"main", "background", "agent"}
  BY NamesAssumption
<1> DEFINE c == FileOf(wish)
           agents == IF c = Nothing \/ plan.local # Nothing THEN {} ELSE L!Names(c)
           mine == t.who = "agent" /\ (agents = {} \/ L!Entries(c, t.type) # {})
           named == L!R!Or(wish.model, wish.env)
           routers == L!ChosenForRouter(wish, t)
<1>13. L!MeantHosted(wish, t) =
         IF plan.scope = "selective" /\ ~mine
         THEN IF routers THEN {L!Hosted(Chosen(wish))} ELSE {L!Subscription}
         ELSE IF t.who = "main" /\ Chosen(wish) # Nothing THEN {L!Hosted(Chosen(wish))}
         ELSE {L!Hosted(m) : m \in DOMAIN ClassOf}
  BY DEF L!MeantHosted, FileOf, Chosen
<1>14. plan.allow = agents
  BY DEF HostedPlan
<1>15. CASE plan.scope # "selective"
  <2>1. plan.scope \in {"all", "override"}
    BY <1>15 DEF Planned, Scopes
  <2>2. d = L!Hosted(model)
    <3>1. plan.scope = "all" => p.target = "router" /\ p.model = class
      BY <1>5, <1>6, ProxyDecides
    <3>2. QED BY <1>7, <1>8, <2>1, <3>1
  <2>3. t.who = "main" /\ Chosen(wish) # Nothing => model = Chosen(wish)
    BY <1>1, <1>15, TurnHasModel
  <2>4. QED BY <1>10, <1>11, <1>13, <1>15, <2>2, <2>3
<1>16. CASE plan.scope = "selective"
  <2>1. routers <=> t.who # "background" /\ named # Nothing
                    /\ ClassOf[named] \in L!X!RouterOnlyModels
    BY DEF L!ChosenForRouter
  <2>2. routers => Chosen(wish) = named
    BY <2>1 DEF Chosen, L!R!Or
  <2>3. plan.scope # "all" /\ plan.scope # "override"
    BY <1>16
  <2>4. /\ class \in L!X!RouterOnlyModels => p.target = "router" /\ p.model = class
        /\ class \notin L!X!RouterOnlyModels =>
             IF id # Nothing /\ L!X!SubagentFilterAllows(rq, plan.allow)
             THEN p.target = "router" /\ p.model \in {class, "virtual"}
             ELSE p.target = "anthropic"
    BY <1>5, <1>6, <2>3, ProxyDecides
  <2>5. class \in L!X!RouterOnlyModels => d = L!Hosted(model)
    BY <1>7, <1>8, <2>3, <2>4
  <2>6. ClassOf[L!OwnModel] \notin L!X!RouterOnlyModels
        /\ ClassOf["claude-haiku"] \notin L!X!RouterOnlyModels
    BY NamesAssumption DEF L!X!RouterOnlyModels
  <2>7. CASE t.who # "agent"
    <3>1. ~mine /\ id = Nothing
      BY <1>3, <2>7
    <3>2. class \in L!X!RouterOnlyModels <=> routers
      BY <1>1, <1>2, <1>12, <1>16, <2>1, <2>6, <2>7, TurnHasModel DEF L!R!Or
    <3>3. routers => model = named
      BY <1>1, <1>12, <1>16, <2>1, <2>7, TurnHasModel DEF L!R!Or
    <3>4. ~routers => d = L!Subscription
      BY <1>8, <2>3, <2>4, <3>1, <3>2
    <3>5. QED BY <1>10, <1>13, <1>16, <2>2, <2>5, <3>1, <3>2, <3>3, <3>4
  <2>8. CASE t.who = "agent" /\ mine
    <3>1. id = "id" /\ id # Nothing
      BY <1>3, <1>12, <2>8
    <3>2. L!X!SubagentFilterAllows(rq, plan.allow)
      <4>1. CASE agents = {}
        BY <1>14, <4>1 DEF L!X!SubagentFilterAllows
      <4>2. CASE agents # {}
        <5>1. c # Nothing /\ agents = L!Names(c) /\ c \in {wish.config, wish.allowlist}
          BY <4>2 DEF FileOf, L!R!Or
        <5>2. "id" \notin L!Names(c)
          BY <5>1, NamesAssumption
        <5>3. L!Entries(c, type) # {}
          BY <1>4, <2>8, <4>2
        <5>4. QED BY <1>5, <1>14, <3>1, <5>1, <5>2, <5>3, ListedHaveEntries
      <4>3. QED BY <4>1, <4>2
    <3>3. d \in {L!Hosted(model), L!Hosted(sent)}
      BY <1>8, <2>3, <2>4, <2>5, <3>1, <3>2
    <3>4. QED BY <1>10, <1>11, <1>13, <2>8, <3>3
  <2>9. CASE t.who = "agent" /\ ~mine
    <3>1. c # Nothing /\ agents = L!Names(c) /\ agents # {} /\ c \in {wish.config, wish.allowlist}
          /\ L!Entries(c, type) = {}
      BY <1>4, <2>9 DEF FileOf, L!R!Or
    <3>2. id = "id" /\ id # Nothing
      BY <1>3, <1>12, <2>9
    <3>3. ~L!X!SubagentFilterAllows(rq, plan.allow)
      <4>1. "id" \notin L!Names(c)
        BY <3>1, NamesAssumption
      <4>2. QED BY <1>5, <1>14, <3>1, <3>2, <4>1, ListedHaveEntries
    <3>4. model = L!R!Or(named, L!OwnModel)
      <4>1. plan.sub = Nothing
        BY <1>14, <1>16, <3>1 DEF HostedPlan
      <4>2. QED BY <1>1, <1>16, <2>9, <4>1, TurnHasModel
    <3>5. (class \in L!X!RouterOnlyModels <=> routers) /\ (routers => model = named)
      BY <1>2, <2>1, <2>6, <2>9, <3>4 DEF L!R!Or
    <3>6. ~routers => d = L!Subscription
      BY <1>8, <2>3, <2>4, <3>3, <3>5
    <3>7. QED BY <1>10, <1>13, <1>16, <2>2, <2>5, <2>9, <3>5, <3>6
  <2>10. QED BY <2>7, <2>8, <2>9
<1>17. QED BY <1>15, <1>16

(* Through every launch and turn: a plan of the hosted plane is what       *)
(* HostedPlan says, unless it is the one of the known gap, and a turn that *)
(* was routed under it is where it was meant to go.                        *)
HostedInv ==
  plan # Nothing /\ plan.plane = "hosted" =>
    /\ HostedPlan(wish, plan) \/ L!StartOffersLocal(wish)
    /\ phase = "routed" /\ HostedPlan(wish, plan) =>
         decision \in L!MeantHosted(wish, request) /\ decision.endpoint # "local"

LEMMA HostedInvStep ==
  ASSUME PlanInv, HostedInv, L!PlanNext
  PROVE  HostedInv'
<1>1. ASSUME NEW w \in Wishes, L!Launch(w)
      PROVE  HostedInv'
  <2>1. PICK o : o = L!Resolved(w)  OBVIOUS
  <2>2. HostedOf(w, o)
    BY <2>1, LaunchesResolve DEF PlanInv
  <2>3. wish' = w /\ plan' = o.plan /\ phase' # "routed"
    BY <1>1, <2>1 DEF L!Launch
  <2>4. plan' # Nothing /\ plan'.plane = "hosted" => HostedPlan(wish', plan') \/ L!StartOffersLocal(wish')
    BY <2>2, <2>3 DEF HostedOf
  <2>5. QED BY <2>3, <2>4 DEF HostedInv
<1>2. CASE L!Load
  <2>1. wish' = wish /\ plan' = plan /\ phase' # "routed"
    BY <1>2 DEF L!Load
  <2>2. QED BY <2>1 DEF HostedInv
<1>3. ASSUME NEW t \in Turns, L!Turn(t)
      PROVE  HostedInv'
  <2>1. /\ wish' = wish /\ plan' = plan /\ request' = t /\ phase = "idle"
        /\ decision' \in IF L!IsCodex(wish) THEN L!Codexs(t) ELSE L!Claudes(t)
    BY <1>3 DEF L!Turn
  <2>2. ASSUME plan # Nothing, plan.plane = "hosted", HostedPlan(wish, plan)
        PROVE  decision' \in L!MeantHosted(wish, t) /\ decision'.endpoint # "local"
    <3>1. ~L!IsCodex(wish)
      BY <2>2 DEF HostedPlan, L!IsCodex
    <3>2. wish \in Wishes /\ Planned(plan)
      BY <2>1, <2>2 DEF PlanInv
    <3>3. QED BY <2>1, <2>2, <3>1, <3>2, HostedTurnIsMeant
  <2>3. L!MeantHosted(wish, request)' = L!MeantHosted(wish, t)
    BY <2>1 DEF L!MeantHosted
  <2>4. QED BY <2>1, <2>2, <2>3 DEF HostedInv
<1>4. Again \subseteq Wishes
  BY LaunchAssumption
<1>5. QED BY <1>1, <1>2, <1>3, <1>4 DEF L!PlanNext

LEMMA HostedTurnsAreMeant ==
  ASSUME HostedInv, plan # Nothing, plan.plane = "hosted"
  PROVE  TurnsGoWhereAsked
<1> SUFFICES ASSUME phase = "routed", ~L!KnownGap(wish, request)
             PROVE  decision \in L!Meant(wish, request) /\ L!CanServe(wish)
  BY DEF TurnsGoWhereAsked, L!TurnsGoWhereAsked
<1>1. HostedPlan(wish, plan)
  BY DEF HostedInv, L!KnownGap
<1>2. decision \in L!MeantHosted(wish, request) /\ decision.endpoint # "local"
  BY <1>1 DEF HostedInv
<1>3. L!FileBehind(wish) = Nothing
  BY <1>1 DEF HostedPlan, L!FileBehind, L!ConfigOf
<1>4. ~L!IsCodex(wish)
  BY <1>1 DEF HostedPlan, L!IsCodex
<1>5. QED BY <1>2, <1>3, <1>4 DEF L!Meant, L!CanServe

(* A launch of Claude Code over the hosted router sends every turn where   *)
(* the user's file, list, flags, exported model or saved local model said, *)
(* whatever was launched before: main and background turns, and agents of  *)
(* every type, with the proxy in the way or without it.                    *)
THEOREM HostedTurnsGoWhereAsked ==
  LaunchSpec => [](plan # Nothing /\ plan.plane = "hosted" => TurnsGoWhereAsked)
<1> DEFINE IInv == PlanInv /\ HostedInv
<1>1. LaunchInit => IInv
  <2>1. L!PlanInit => HostedInv
    BY DEF L!PlanInit, HostedInv
  <2>2. QED BY <2>1, PlanPart, PlanInvInit
<1>2. IInv /\ [LaunchNext]_launchVars => IInv'
  <2> SUFFICES ASSUME IInv, [LaunchNext]_launchVars PROVE IInv'
    OBVIOUS
  <2>1. PlanInv'
    BY PlanPart, PlanInvStep, PlanInvStutter
  <2>2. CASE L!PlanNext
    BY <2>1, <2>2, HostedInvStep
  <2>3. CASE UNCHANGED planVars
    <3>1. HostedInv'
      BY <2>3 DEF planVars, HostedInv, L!MeantHosted
    <3>2. QED BY <2>1, <3>1
  <2>4. QED BY <2>2, <2>3, PlanPart
<1>3. IInv => (plan # Nothing /\ plan.plane = "hosted" => TurnsGoWhereAsked)
  BY HostedTurnsAreMeant
<1>4. QED BY <1>1, <1>2, <1>3, PTL DEF LaunchSpec
=============================================================================
