--------------------------- MODULE HybridRuntime ---------------------------
(***************************************************************************)
(* The hybrid runtime: `raydock hybrid start` and `stop`                   *)
(* (crates/rayline-cli/src/hybrid.rs), the supervisor `rld hybrid` they    *)
(* manage (crates/rayline-daemon/src/hybrid.rs) and the execution core the *)
(* supervisor owns.  The state directory holds supervisor.json (written by *)
(* the CLI), gateway-token and ready.json (written by the supervisor) and  *)
(* runtime.lock, which both commands hold from their first step to their   *)
(* last.                                                                   *)
(*                                                                         *)
(* A start spawns at most one supervisor, which carries the start's name.  *)
(* The core is external: its contract is that it exits when it is told to, *)
(* or when the pipe from its supervisor closes.                            *)
(***************************************************************************)
EXTENDS Naturals, FiniteSets

CONSTANTS
  Launchers,  \* CLI processes, each running one operation
  Prior,      \* the supervisor of an earlier start
  None,       \* no file, nobody
  Ops,        \* the operations the commands run
  Faults      \* what may go wrong, see AllFaults

AllOps == {"start", "stop"}

\* "interrupt" a command may be killed, wherever it is
\* "record"    writing supervisor.json may fail
\* "deadline"  a start or a stop may run out of patience
\* "probe"     an answer of the gateway may be lost
\* "hang"      a supervisor may ignore SIGTERM until it is killed
\* "kill"      a supervisor may be killed, wherever it is
\* "core"      the core may exit on its own
\* "reuse"     the recorded pid may belong to an unrelated process
AllFaults == {"interrupt", "record", "deadline", "probe", "hang", "kill",
              "core", "reuse"}

Sups == Launchers \cup {Prior}

ASSUME HybridAssumption ==
  /\ Prior \notin Launchers
  /\ None \notin Sups
  /\ Ops \subseteq AllOps
  /\ Faults \subseteq AllFaults

VARIABLES
  pc,         \* where each command is
  op,         \* the operation it runs
  seen,       \* the supervisor whose ready.json a stop has read
  supFile,    \* whose pid supervisor.json holds
  tokenFile,  \* whose credential gateway-token holds
  readyFile,  \* who published ready.json
  sup,        \* the state of each supervisor
  core,       \* the state of its core
  asked,      \* the supervisors that were told to stop
  \* What happened, for the properties:
  orphans,    \* supervisors whose start was killed before it recorded them
  unclean     \* those killed unrecorded or in their last clean-up, with files

files   == <<supFile, tokenFile, readyFile>>
history == <<orphans, unclean>>
vars    == <<pc, op, seen, files, sup, core, asked, history>>

ClearPcs    == {"check", "clearReady", "clearToken", "clearSup"}
StartPcs    == {"compose", "spawn", "record", "poll", "verify", "abort", "reap"}
StopPcs     == {"readReady", "post", "await", "dropSup"}
TerminalPcs == {"started", "stopped", "refused", "failed", "gone"}
Pcs == {"idle"} \cup ClearPcs \cup StartPcs \cup StopPcs \cup TerminalPcs

\* "reused": no supervisor, but a process with the pid of one
SupStates == {"unborn", "born", "armed", "token", "core", "ready",
              "closing", "aborting", "unready", "dead", "reused"}

Live(s) == sup[s] \notin {"unborn", "dead", "reused"}
ProcessExists(s) == Live(s) \/ sup[s] = "reused"

(* Variant: a lock file that outlives the command that created it.         *)
LockFreeUnlessGone ==
  \A l \in Launchers : pc[l] \in ({"idle"} \cup TerminalPcs) \ {"gone"}

(* The kernel drops the flock of a command that ended or was killed.       *)
LockFree == \A l \in Launchers : pc[l] \in {"idle"} \cup TerminalPcs

Healthy(s) == sup[s] = "ready" /\ core[s] = "running" /\ tokenFile = s

(* The supervisor was spawned and supervisor.json does not name it.        *)
Unrecorded(l) == pc[l] \in {"record", "abort", "reap"} /\ supFile # l

Goto(l, label) == pc' = [pc EXCEPT ![l] = label]
SupGoto(s, state) == sup' = [sup EXCEPT ![s] = state]

(* A supervisor that is killed leaves the files it has.  The commands find *)
(* them through supervisor.json, which `stop` removes while the token is   *)
(* still to go.                                                            *)
Killed(s) ==
  /\ SupGoto(s, "dead")
  /\ unclean' = IF s \in {tokenFile, readyFile} /\ (supFile # s \/ sup[s] = "unready")
                THEN unclean \cup {s} ELSE unclean
  /\ UNCHANGED orphans

(* Nothing there, a runtime that serves, or what a runtime left behind     *)
(* that was killed together with its core.                                 *)
Init ==
  /\ pc = [l \in Launchers |-> "idle"]
  /\ op \in [Launchers -> Ops]
  /\ seen = [l \in Launchers |-> None]
  /\ asked = {} /\ orphans = {} /\ unclean = {}
  /\ \E state \in {"unborn", "ready", "dead"}
                  \cup (IF "reuse" \in Faults THEN {"reused"} ELSE {}) :
       LET owner == IF state = "unborn" THEN None ELSE Prior
       IN /\ sup = [s \in Sups |-> IF s = Prior THEN state ELSE "unborn"]
          /\ core = [s \in Sups |-> IF s = Prior /\ state = "ready"
                                    THEN "running" ELSE "none"]
          /\ supFile = owner /\ tokenFile = owner /\ readyFile = owner

-----------------------------------------------------------------------------
(* Both commands: take the lock, see whether the recorded runtime is gone, *)
(* and if so clear what it left.  A start that failed clears again.        *)

(* Variant: a lock that does not exclude.                                  *)
AcquireShared(l) ==
  /\ pc[l] = "idle"
  /\ Goto(l, "check")
  /\ UNCHANGED <<history, op, seen, files, sup, core, asked>>

Acquire(l) ==
  /\ pc[l] = "idle"
  /\ LockFree
  /\ Goto(l, "check")
  /\ UNCHANGED <<history, op, seen, files, sup, core, asked>>

(* Variant: without supervisor.json the runtime counts as stopped.         *)
CheckRecordOnly(l) ==
  /\ pc[l] = "check"
  /\ Goto(l, IF supFile # None /\ ProcessExists(supFile)
             THEN IF op[l] = "stop" THEN "readReady" ELSE "refused"
             ELSE "clearReady")
  /\ UNCHANGED <<history, op, seen, files, sup, core, asked>>

(* Files without supervisor.json belong to nobody known: an error.         *)
Check(l) ==
  /\ pc[l] = "check"
  /\ Goto(l, IF supFile = None
             THEN IF readyFile # None \/ tokenFile # None
                  THEN "failed" ELSE "clearReady"
             ELSE IF ProcessExists(supFile)
                  THEN IF op[l] = "stop" THEN "readReady" ELSE "refused"
                  ELSE "clearReady")
  /\ UNCHANGED <<history, op, seen, files, sup, core, asked>>

ClearReady(l) ==
  /\ pc[l] = "clearReady"
  /\ readyFile' = None
  /\ Goto(l, "clearToken")
  /\ UNCHANGED <<history, op, seen, supFile, tokenFile, sup, core, asked>>

ClearToken(l) ==
  /\ pc[l] = "clearToken"
  /\ tokenFile' = None
  /\ Goto(l, "clearSup")
  /\ UNCHANGED <<history, op, seen, supFile, readyFile, sup, core, asked>>

(* supervisor.json goes last: until then the clearing can be repeated.     *)
ClearSup(l) ==
  /\ pc[l] = "clearSup"
  /\ supFile' = None
  /\ Goto(l, IF op[l] = "stop" THEN "stopped"
             ELSE IF sup[l] = "unborn" THEN "compose" ELSE "failed")
  /\ UNCHANGED <<history, op, seen, tokenFile, readyFile, sup, core, asked>>

-----------------------------------------------------------------------------
(* start                                                                   *)

(* Composing the configuration and probing the router may fail.            *)
Compose(l) ==
  /\ pc[l] = "compose"
  /\ Goto(l, "spawn") \/ Goto(l, "failed")
  /\ UNCHANGED <<history, op, seen, files, sup, core, asked>>

Spawn(l) ==
  /\ pc[l] = "spawn"
  /\ SupGoto(l, "born")
  /\ Goto(l, "record")
  /\ UNCHANGED <<history, op, seen, files, core, asked>>

Record(l) ==
  /\ pc[l] = "record"
  /\ supFile' = l
  /\ Goto(l, "poll")
  /\ UNCHANGED <<history, op, seen, tokenFile, readyFile, sup, core, asked>>

RecordFails(l) ==
  /\ "record" \in Faults
  /\ pc[l] = "record"
  /\ Goto(l, "abort")
  /\ UNCHANGED <<history, op, seen, files, sup, core, asked>>

Poll(l) ==
  /\ pc[l] = "poll"
  /\ \/ sup[l] = "dead" /\ Goto(l, "abort")
     \/ sup[l] # "dead" /\ readyFile = l /\ Goto(l, "verify")
     \/ sup[l] # "dead" /\ readyFile \notin {l, None} /\ Goto(l, "abort")
  /\ UNCHANGED <<history, op, seen, files, sup, core, asked>>

Verify(l) ==
  /\ pc[l] = "verify"
  /\ \/ Healthy(l) /\ Goto(l, "started")
     \/ (~Healthy(l) \/ "probe" \in Faults) /\ Goto(l, "abort")
  /\ UNCHANGED <<history, op, seen, files, sup, core, asked>>

StartDeadline(l) ==
  /\ "deadline" \in Faults
  /\ pc[l] = "poll"
  /\ Goto(l, "abort")
  /\ UNCHANGED <<history, op, seen, files, sup, core, asked>>

(* Variant: the recorded process is told to stop instead of the own child. *)
AbortRecorded(l) ==
  /\ pc[l] = "abort"
  /\ asked' = asked \cup {supFile}
  /\ Goto(l, "reap")
  /\ UNCHANGED <<history, op, seen, files, sup, core>>

(* stop_spawned.  A supervisor that has not registered its signal handlers *)
(* yet dies of SIGTERM.                                                    *)
Abort(l) ==
  /\ pc[l] = "abort"
  /\ IF sup[l] = "dead"
     THEN Goto(l, "check") /\ UNCHANGED <<sup, asked>>
     ELSE /\ asked' = asked \cup {l}
          /\ IF sup[l] = "born" THEN SupGoto(l, "dead") ELSE UNCHANGED sup
          /\ Goto(l, "reap")
  /\ UNCHANGED <<history, op, seen, files, core>>

Reap(l) ==
  /\ pc[l] = "reap"
  /\ sup[l] = "dead"
  /\ Goto(l, "check")
  /\ UNCHANGED <<history, op, seen, files, sup, core, asked>>

(* Seven seconds later the process group, core included, is killed.        *)
ForceReap(l) ==
  /\ "hang" \in Faults
  /\ pc[l] = "reap"
  /\ Live(l)
  /\ Killed(l)
  /\ core' = [core EXCEPT ![l] = IF core[l] = "running" THEN "dead" ELSE @]
  /\ Goto(l, "check")
  /\ UNCHANGED <<op, seen, files, asked>>

-----------------------------------------------------------------------------
(* stop                                                                    *)

ReadReady(l) ==
  /\ pc[l] = "readReady"
  /\ IF readyFile = None
     THEN Goto(l, "failed") /\ UNCHANGED seen
     ELSE Goto(l, "post") /\ seen' = [seen EXCEPT ![l] = readyFile]
  /\ UNCHANGED <<history, op, files, sup, core, asked>>

(* The gateway takes the request when it serves and the credential is its  *)
(* own; the answer may still be lost.                                      *)
Post(l) ==
  /\ pc[l] = "post"
  /\ IF sup[seen[l]] = "ready" /\ tokenFile = seen[l]
     THEN /\ asked' = asked \cup {seen[l]}
          /\ Goto(l, "await") \/ ("probe" \in Faults /\ Goto(l, "failed"))
     ELSE Goto(l, "failed") /\ UNCHANGED asked
  /\ UNCHANGED <<history, op, seen, files, sup, core>>

Await(l) ==
  /\ pc[l] = "await"
  /\ readyFile = None
  /\ Goto(l, "dropSup")
  /\ UNCHANGED <<history, op, seen, files, sup, core, asked>>

StopDeadline(l) ==
  /\ "deadline" \in Faults
  /\ pc[l] = "await"
  /\ readyFile # None
  /\ Goto(l, "failed")
  /\ UNCHANGED <<history, op, seen, files, sup, core, asked>>

(* The supervisor may still be on its way out, its token may still exist.  *)
DropSup(l) ==
  /\ pc[l] = "dropSup"
  /\ supFile' = None
  /\ Goto(l, IF supFile # None THEN "stopped" ELSE "failed")
  /\ UNCHANGED <<history, op, seen, tokenFile, readyFile, sup, core, asked>>

(* Ctrl-C, or a kill.  The supervisor is in a session of its own and runs  *)
(* on: unknown to every later command when supervisor.json was still to be *)
(* written.                                                                *)
Interrupt(l) ==
  /\ "interrupt" \in Faults
  /\ pc[l] \notin TerminalPcs \cup {"idle"}
  /\ Goto(l, "gone")
  /\ orphans' = IF Unrecorded(l) /\ Live(l) THEN orphans \cup {l} ELSE orphans
  /\ UNCHANGED <<unclean, op, seen, files, sup, core, asked>>

-----------------------------------------------------------------------------
(* The supervisor.                                                         *)

(* It reads its configuration, which may be refused, and registers its     *)
(* signal handlers.                                                        *)
Arm(s) ==
  /\ sup[s] = "born"
  /\ SupGoto(s, "armed") \/ SupGoto(s, "dead")
  /\ UNCHANGED <<history, pc, op, seen, files, core, asked>>

(* Bind the port, which may be taken, and publish the token, which must    *)
(* not exist.                                                              *)
OpenToken(s) ==
  /\ sup[s] = "armed"
  /\ \/ tokenFile = None /\ tokenFile' = s /\ SupGoto(s, "token")
     \/ SupGoto(s, "dead") /\ UNCHANGED tokenFile
  /\ UNCHANGED <<history, pc, op, seen, supFile, readyFile, core, asked>>

SpawnCore(s) ==
  /\ sup[s] = "token"
  /\ \/ core' = [core EXCEPT ![s] = "running"] /\ SupGoto(s, "core")
     \/ SupGoto(s, "unready") /\ UNCHANGED core
  /\ UNCHANGED <<history, pc, op, seen, files, asked>>

(* The core answered: publish ready.json, which must not exist.            *)
Publish(s) ==
  /\ sup[s] = "core"
  /\ core[s] = "running"
  /\ IF readyFile = None
     THEN readyFile' = s /\ SupGoto(s, "ready")
     ELSE SupGoto(s, "aborting") /\ UNCHANGED readyFile
  /\ UNCHANGED <<history, pc, op, seen, supFile, tokenFile, core, asked>>

(* The core does not answer in time or not as expected, or a signal came.  *)
GiveUp(s) ==
  /\ sup[s] = "core"
  /\ SupGoto(s, "aborting")
  /\ UNCHANGED <<history, pc, op, seen, files, core, asked>>

Close(s) ==
  /\ sup[s] = "ready"
  /\ s \in asked \/ core[s] = "dead"
  /\ SupGoto(s, "closing")
  /\ UNCHANGED <<history, pc, op, seen, files, core, asked>>

(* Told to stop, killed five seconds later, or at the end of its pipe.     *)
CoreEnds(s) ==
  /\ core[s] = "running"
  /\ sup[s] \in {"closing", "aborting", "dead"}
  /\ core' = [core EXCEPT ![s] = "dead"]
  /\ UNCHANGED <<history, pc, op, seen, files, sup, asked>>

CoreCrash(s) ==
  /\ "core" \in Faults
  /\ core[s] = "running"
  /\ core' = [core EXCEPT ![s] = "dead"]
  /\ UNCHANGED <<history, pc, op, seen, files, sup, asked>>

(* Variant: the files are removed before the core is reaped.               *)
RemoveReadyEarly(s) ==
  /\ sup[s] = "closing"
  /\ readyFile' = None
  /\ SupGoto(s, "unready")
  /\ UNCHANGED <<history, pc, op, seen, supFile, tokenFile, core, asked>>

(* The core is reaped before the files go: ready.json first, if this       *)
(* supervisor published it, and the token last.                            *)
RemoveReady(s) ==
  /\ sup[s] = "closing"
  /\ core[s] = "dead"
  /\ readyFile' = None
  /\ SupGoto(s, "unready")
  /\ UNCHANGED <<history, pc, op, seen, supFile, tokenFile, core, asked>>

Aborted(s) ==
  /\ sup[s] = "aborting"
  /\ core[s] = "dead"
  /\ SupGoto(s, "unready")
  /\ UNCHANGED <<history, pc, op, seen, files, core, asked>>

RemoveToken(s) ==
  /\ sup[s] = "unready"
  /\ tokenFile' = None
  /\ SupGoto(s, "dead")
  /\ UNCHANGED <<history, pc, op, seen, supFile, readyFile, core, asked>>

Kill(s) ==
  /\ "kill" \in Faults
  /\ Live(s)
  /\ Killed(s)
  /\ UNCHANGED <<pc, op, seen, files, core, asked>>

-----------------------------------------------------------------------------
Command(l) ==
  \/ Acquire(l) \/ Check(l) \/ ClearReady(l) \/ ClearToken(l) \/ ClearSup(l)
  \/ Compose(l) \/ Spawn(l) \/ Record(l) \/ Poll(l) \/ Verify(l)
  \/ StartDeadline(l) \/ Abort(l) \/ Reap(l)
  \/ ReadReady(l) \/ Post(l) \/ Await(l) \/ StopDeadline(l) \/ DropSup(l)

Supervisor(s) ==
  \/ Arm(s) \/ OpenToken(s) \/ SpawnCore(s) \/ Publish(s) \/ GiveUp(s)
  \/ Close(s) \/ RemoveReady(s) \/ Aborted(s) \/ RemoveToken(s)

Fault ==
  \/ \E l \in Launchers : RecordFails(l) \/ ForceReap(l) \/ Interrupt(l)
  \/ \E s \in Sups : CoreCrash(s) \/ Kill(s)

Next ==
  \/ \E l \in Launchers : Command(l)
  \/ \E s \in Sups : Supervisor(s) \/ CoreEnds(s)
  \/ Fault

Spec == Init /\ [][Next]_vars

(* Processes run, clocks reach their deadlines, and the core keeps its     *)
(* contract.  The lock goes to one waiting command after the other, and    *)
(* each command takes it once.                                             *)
Fairness ==
  /\ \A l \in Launchers : WF_vars(Command(l))
  /\ \A s \in Sups : WF_vars(Supervisor(s) \/ CoreEnds(s))

FairSpec == Spec /\ Fairness

-----------------------------------------------------------------------------
TypeOK ==
  /\ pc \in [Launchers -> Pcs]
  /\ op \in [Launchers -> AllOps]
  /\ seen \in [Launchers -> Sups \cup {None}]
  /\ supFile \in Sups \cup {None}
  /\ tokenFile \in Sups \cup {None}
  /\ readyFile \in Sups \cup {None}
  /\ sup \in [Sups -> SupStates]
  /\ core \in [Sups -> {"none", "running", "dead"}]
  /\ asked \subseteq Sups
  /\ orphans \subseteq Launchers
  /\ unclean \subseteq Sups

(* Two supervisors never live in one state directory, although `stop`      *)
(* returns, and removes supervisor.json, while the old one still ends.     *)
(* The exception: a start that is killed after the spawn and before it     *)
(* wrote supervisor.json leaves an orphan that no later command knows, and *)
(* beside which the next start spawns its own.                             *)
OneSupervisor ==
  orphans = {} => \A s, t \in Sups : Live(s) /\ Live(t) => s = t

(* A gateway that serves is the one the three files name: harnesses reach  *)
(* it with its own credential and `stop` finds it.  Only the start that    *)
(* has just spawned it may still have to record it.                        *)
ServingHasFiles ==
  \A s \in Sups :
    sup[s] = "ready" => /\ readyFile = s /\ tokenFile = s
                        /\ supFile = s \/ (s \in Launchers /\ Unrecorded(s))

(* Files without supervisor.json, which start and stop both refuse ("has   *)
(* no supervisor identity"), belong to a supervisor that still lives and   *)
(* removes them.  The exception: one killed before it was recorded, or in  *)
(* its last clean-up, leaves them there for good.                          *)
NothingStranded ==
  supFile = None =>
    \A owner \in {readyFile, tokenFile} \ {None} : Live(owner) \/ owner \in unclean

(* When `stop` sees ready.json gone and is about to report "gateway and    *)
(* execution core stopped", they are.                                      *)
StopMeansStopped ==
  \A l \in Launchers :
    pc[l] = "dropSup" => /\ sup[seen[l]] \in {"unready", "dead"}
                         /\ core[seen[l]] = "dead"

(* A start that failed, in whatever step, leaves no supervisor, and no     *)
(* file of its own unless its supervisor was killed in the two places      *)
(* where NothingStranded has its exception.                                *)
FailedStartLeavesNothing ==
  \A l \in Launchers :
    op[l] = "start" /\ pc[l] \in {"failed", "refused"} =>
      /\ ~Live(l)
      /\ l \notin {supFile, tokenFile, readyFile} \/ l \in unclean

(* Every command ends, also behind commands that were killed and           *)
(* supervisors that do not answer.                                         *)
CommandsEnd == <>(\A l \in Launchers : pc[l] \in TerminalPcs)

(* Those that were told to stop end, and their cores with them, whatever   *)
(* they were doing: starting, publishing or serving, recorded or orphaned. *)
AskedEnds ==
  asked # {} ~> \A s \in asked : sup[s] = "dead" /\ core[s] # "running"

(* The three files tell the truth: a serving gateway has them, and none of *)
(* them is left without an owner (the checks of `stopped` and              *)
(* clear_stopped_state in `start`, and RemoveReady, rely on both), as long *)
(* as no orphan writes and removes the same three files.                   *)
FilesTruthful == orphans = {} => ServingHasFiles /\ NothingStranded

(* What a command reports is true: a stop that succeeded left neither      *)
(* gateway nor core, unless an orphan removed the ready.json it watched,   *)
(* and a start that failed nothing of its own.                             *)
OutcomesAreTrue ==
  /\ orphans = {} => StopMeansStopped
  /\ FailedStartLeavesNothing

(* Every command ends, and every supervisor that was told to stop.         *)
EverythingEnds == CommandsEnd /\ AskedEnds

=============================================================================
