---------------------------- MODULE MCProxyDaemon ----------------------------
(***************************************************************************)
(* Two turns of every pair of request shapes, with room for the            *)
(* credentials of one redirect; two proxies over up to two pairs; two    *)
(* requests, each answered in any way.                                     *)
(***************************************************************************)
EXTENDS ProxyDaemon, TLC

CONSTANTS t1, t2, p1, p2, r1, r2

TwoTurns == {t1, t2}
TwoProcs == {p1, p2}
TwoRequests == {r1, r2}
MCKinds == {"plain", "encoded", "opaque", "redirect", "routed", "unary", "codex"}

(* A response of two chunks.  The estimate is corrected downwards by the   *)
(* first chunk and upwards by the second.                                  *)
MCUsage == <<1, 3>>

Main == [via |-> "proxy", api |-> "messages", stream |-> TRUE, path |-> "messages",
         model |-> "claude", agent |-> None, type |-> None, thread |-> FALSE]
Explore  == [Main EXCEPT !.agent = "a1", !.type = "explore"]
Injected == [Main EXCEPT !.via = "injector"]

MCShapes ==
  {Main, Explore, Injected,
   [Main EXCEPT !.model = "arc", !.thread = TRUE],
   [Explore EXCEPT !.type = None],
   [Explore EXCEPT !.thread = TRUE],
   [Explore EXCEPT !.path = "other", !.stream = FALSE],
   [Explore EXCEPT !.path = "count_tokens", !.model = "arc", !.stream = FALSE],
   [Main EXCEPT !.path = "lookup", !.model = "provider", !.stream = FALSE],
   [Main EXCEPT !.path = "lookup", !.model = "virtual", !.stream = FALSE],
   [Injected EXCEPT !.api = "responses"],
   [Injected EXCEPT !.via = "direct", !.stream = FALSE]}

OnlyExplore == {"Explore"}
MCFoldOf == "Explore" :> "explore"
Symmetry == Permutations(TwoTurns) \cup Permutations(TwoRequests)
=============================================================================
