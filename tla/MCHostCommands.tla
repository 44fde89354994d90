--------------------------- MODULE MCHostCommands ---------------------------
(***************************************************************************)
(* Two commands of any kind on the proxy; two profiles beside Rayline's    *)
(* and two contents of that; two argument lists, two keys and two routers; *)
(* a release without the core, a preview of the first one that has it and  *)
(* that release, and versions with every kind of suffix.                   *)
(***************************************************************************)
EXTENDS HostCommands, TLC
CONSTANTS small, other, p1, v1, f1, f2, l1, l2, l3, x1, x2
MCView  == [c \in Configs |-> v1]
MCFacts == [c \in Configs |-> IF c = small THEN {f1} ELSE {f2}]
MCPort  == [c \in Configs |-> p1]
Number(n) == <<"number", n>>
Word(w)   == <<"word", w>>
Version(base, suffix) == [base |-> base, suffix |-> suffix, build |-> 0]
MCFirstCore == Version(<<0, 2, 13>>, <<>>)
MCVersionOf == << Version(<<0, 2, 12>>, <<>>),
                  Version(<<0, 2, 13>>, <<Word("dev"), Number(1)>>), MCFirstCore >>
Suffixes == {<<>>, <<Number(0)>>, <<Number(1)>>, <<Number(1), Word("post")>>}
  \cup {<<Word(w)>> : w \in {"main", "dev", "c", "rc", "xyz", "post"}}
  \cup {<<Word(w), t>> : w \in {"main", "post"}, t \in {Number(1), Word("rc")}}
MCVersions == {Version(b, s) : b \in {<<1>>, <<1, 0>>, <<1, 1>>}, s \in Suffixes}
Symmetry == Permutations(Launchers) \cup Permutations(Accounts)
=============================================================================
