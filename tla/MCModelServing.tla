---------------------------- MODULE MCModelServing ----------------------------
(***************************************************************************)
(* The daemon and one other process; two revisions that hold the same file *)
(* or different ones.                                                      *)
(***************************************************************************)
EXTENDS ModelServing, TLC

CONSTANTS daemon, cli, r1, r2, fileA, fileB

TwoClients == {daemon, cli}
Revisions  == {r1, r2}
OneOrTwoFiles == {r1 :> fileA @@ r2 :> f : f \in {fileA, fileB}}
=============================================================================
