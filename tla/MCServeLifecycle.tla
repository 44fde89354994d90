-------------------------- MODULE MCServeLifecycle --------------------------
(* Small instances of ServeLifecycle.  Three configurations: `small` is a   *)
(* subset of `full` (a daemon launched with `full` also serves it), and     *)
(* `other` disagrees with both.  The configuration a command asks for and   *)
(* its operation are chosen freely per command.                             *)
EXTENDS ServeRegistry, TLC

CONSTANTS small, full, other, p1, p2, v1, v2, f1, f2, f3, l1, l2, l3

(* One injector port for every launch, as in the default setup.  `small`    *)
(* and `full` answer /healthz alike.                                        *)
MCPort == [c \in Configs |-> p1]
MCView == [c \in Configs |-> IF c = other THEN v2 ELSE v1]
MCFacts == [c \in Configs |-> CASE c = small -> {f1}
                                [] c = full  -> {f1, f2}
                                [] OTHER     -> {f3}]
(* Two ports: `other` listens elsewhere.                                    *)
MCTwoPorts == [c \in Configs |-> IF c = other THEN p2 ELSE p1]

Symmetry == Permutations(Launchers)

=============================================================================
