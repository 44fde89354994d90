--------------------------- MODULE ServeRegistry ---------------------------
(***************************************************************************)
(* ServeLifecycle as an implementation of SingleDaemon: the living daemon, *)
(* the daemon that was spawned and is not recorded yet, and the pid file.  *)
(***************************************************************************)
EXTENDS ServeLifecycle

(* Only starts run, each waits as long as it takes, and records what it    *)
(* spawned.  The other commands and faults clear the record without the    *)
(* lock, or leave a daemon without one.                                    *)
StartsOnly ==
  /\ Ops = {"start"}
  /\ Faults \subseteq {"interrupt", "crash", "probe"}

Living  == {d \in Daemons : Alive(d)}
Pending == {l \in Launchers : pc[l] \in {"writeMeta", "writePid"}}

OneOf(S) == IF S = {} THEN None ELSE CHOOSE x \in S : TRUE

Single == INSTANCE SingleDaemon WITH
  running <- OneOf(Living),
  pending <- OneOf(Pending),
  named   <- pidFile

(* The locked window implements the single-daemon registry: no step of any *)
(* interleaving of starts launches a daemon beside a running one, or       *)
(* forgets a running one.                                                  *)
RegistryImplemented == Single!Spec

=============================================================================
