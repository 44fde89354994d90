---------------------------- MODULE SingleDaemon ----------------------------
(***************************************************************************)
(* What the locked window of `start` promises                              *)
(* (crates/rayline-cli/src/router.rs, start_from_home_with_client): at     *)
(* most one daemon runs, it is launched only when none runs and none is    *)
(* recorded, and the record of a running daemon is kept until it exits.    *)
(***************************************************************************)
CONSTANTS Procs, None

VARIABLES
  running,  \* the daemon that is alive, or None
  pending,  \* the daemon that was launched and is not recorded yet, or None
  named     \* the process the pid file names, or None

svars == <<running, pending, named>>

Vacant == running = None /\ pending = None /\ named = None

Init ==
  /\ pending = None
  /\ \/ running = None /\ named \in Procs \cup {None}
     \/ running \in Procs /\ named = running

Launch ==
  /\ Vacant
  /\ \E p \in Procs : running' = p /\ pending' = p
  /\ UNCHANGED named

(* A daemon may exit before it is recorded, and is recorded all the same.  *)
Record ==
  /\ pending # None
  /\ named' = pending
  /\ pending' = None
  /\ UNCHANGED running

Exit ==
  /\ running # None
  /\ running' = None
  /\ UNCHANGED <<pending, named>>

Forget ==
  /\ running = None
  /\ named # None
  /\ named' = None
  /\ UNCHANGED <<running, pending>>

Next == Launch \/ Record \/ Exit \/ Forget

Spec == Init /\ [][Next]_svars

=============================================================================
