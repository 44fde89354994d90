-------------------------- MODULE MCLaunchCommands --------------------------
(***************************************************************************)
(* Two hybrid commands over every state that an earlier runtime leaves;    *)
(* one launch, and a few after it, over a hosted router, one of another    *)
(* environment and a provider of the user's, every route to each of them,  *)
(* to the local model and to the subscription, and what a machine may have *)
(* saved, downloaded and mapped; any command over settings that are broken,*)
(* of an older version, of another client, picked from or mapped, and      *)
(* another one beside it or after it.                                      *)
(***************************************************************************)
EXTENDS LaunchCommands, TLC

CONSTANTS l1, l2, u1, u2

Symmetry == Permutations(Launchers)

Endpoint(id, protocol, address, key, models) ==
  [id |-> id, protocol |-> protocol, auth |-> "own", key |-> key, address |-> address,
   models |-> models, client |-> FALSE]
MCDefaults == <<Endpoint("anthropic", "messages", "provider", "K1", {"m1"})>>
Endpoints == <<Endpoint("cloud", "messages", "prod", "K", {"rayline-router", "arc-x"}),
               Endpoint("own", "chat", "provider", Nothing, {"m2", "m3"}),
               Endpoint("dev", "responses", "dev", "K", {"rayline-router"})>>

To(endpoint, model) ==
  [endpoint |-> endpoint, model |-> model, decider |-> Nothing, offers |-> Nothing]
Decides(endpoint, model) == [To(endpoint, model) EXCEPT !.decider = "here"]
Offers(endpoint, model)  == [To(endpoint, model) EXCEPT !.offers = "m2"]
Subscription == To("subscription", "")
Legacy       == To("cloud", "rayline-router")
File(main, subagent, default, agents) ==
  [replace |-> FALSE, endpoints |-> Endpoints,
   routes |-> [main |-> main, subagent |-> subagent, default |-> default, models |-> <<>>,
               subagents |-> agents]]
Files ==
  {File(m, s, Nothing, a) :
     m \in {Nothing, Subscription, To("cloud", "arc-x"), To("local", ""), To("own", "m2")},
     s \in {Nothing, To("local", ""), To("own", "m3"), Legacy},
     a \in {<<>>, "Explore" :> To("own", "m2") @@ "w" :> To("local", "")}}
  \cup {File(Decides("cloud", "m2"), Nothing, Nothing, <<>>),
        File(To("cloud", "arc-x"), Nothing, To("own", "m2"), <<>>),
        File(Offers("cloud", ""), Offers("cloud", ""), Nothing, <<>>),
        File(Subscription, Offers("cloud", ""), Nothing, <<>>),
        File(To("subscription", "arc-x"), Legacy, Nothing, <<>>),
        File(Subscription, Nothing, Nothing, "Explore" :> Offers("dev", "")),
        File(Offers("dev", "rayline-router"), To("local", ""), Nothing, <<>>)}
Lists == {File(Nothing, s, Nothing, a) : s \in {Nothing, To("own", "m3")},
                                         a \in {<<>>, "explore" :> To("local", "")}}

W == [tool |-> "claude", config |-> Nothing, allowlist |-> Nothing, via |-> "proxy",
      route |-> Nothing, local |-> FALSE, provider |-> Nothing, isolated |-> FALSE,
      model |-> Nothing, env |-> Nothing, auth |-> "auto", answer |-> Nothing]
MCAgain ==
  {[W EXCEPT !.tool = "codex", !.config = f] :
     f \in {File(To("own", "m2"), Nothing, Nothing, <<>>),
            File(To("own", "m3"), To("local", ""), Nothing, <<>>)}}
  \cup {[W EXCEPT !.local = TRUE], [W EXCEPT !.tool = "codex"]}
MCWishes ==
  UNION {
    MCAgain,
    {[W EXCEPT !.config = f, !.tool = t] : f \in Files, t \in {"start claude", "start codex"}},
    {[W EXCEPT !.config = f, !.tool = t, !.model = m] :
       f \in Files, t \in {"claude", "codex"}, m \in {Nothing, "m3", "rayline-router"}},
    {[W EXCEPT !.config = f, !.tool = "codex", !.auth = a, !.model = m] :
       f \in Files, a \in {"none", "subscription"}, m \in {Nothing, "rayline-router"}},
    {[W EXCEPT !.tool = "codex", !.auth = a, !.model = m] :
       a \in {"auto", "none", "subscription"}, m \in {Nothing, "rayline-router"}},
    {[W EXCEPT !.tool = "start claude", !.route = r] : r \in {"all", "selective"}},
    {[W EXCEPT !.tool = "start codex", !.auth = a] : a \in {"auto", "none"}},
    {[W EXCEPT !.via = v, !.route = r, !.isolated = i, !.model = m, !.env = e] :
       v \in {"env", "proxy"}, r \in {Nothing, "all", "selective"}, i \in BOOLEAN,
       m \in {Nothing, "m3"}, e \in {Nothing, "arc-x"}},
    {[W EXCEPT !.route = "selective", !.allowlist = a, !.model = m] :
       a \in Lists, m \in {Nothing, "rayline-router"}},
    {[W EXCEPT !.local = TRUE, !.provider = p, !.route = r, !.allowlist = a, !.answer = w, !.model = m] :
       m \in {Nothing, "m3", "rayline-router"}, p \in {Nothing, "ollama", "llamacpp"}, r \in {Nothing, "all"}, w \in {Nothing, "g2"},
       a \in {Nothing} \cup Lists}}
S == [mode |-> "recommended", pick |-> Nothing, custom |-> Nothing, provider |-> Nothing,
      kept |-> {}]
Saved == {Nothing, S, [S EXCEPT !.pick = "g1"], [S EXCEPT !.mode = "custom", !.custom = "m2"],
          [S EXCEPT !.mode = "custom", !.custom = "q1", !.provider = "ollama"],
          [S EXCEPT !.kept = {"m2"}]}
Machine(saved, downloaded) ==
  [saved |-> saved, downloaded |-> downloaded, listed |-> "q1", mapping |-> Nothing,
   router |-> Nothing, account |-> FALSE]
OldDefault ==
  [replace |-> FALSE,
   endpoints |-> <<Endpoint("rayline-cloud", "messages", "prod", "K", {"rayline-router"})>>,
   routes |-> [main |-> To("rayline-cloud", "rayline-router"), subagent |-> Nothing,
               default |-> To("rayline-cloud", "rayline-router"), models |-> <<>>,
               subagents |-> <<>>]]
MCMachines ==
  UNION {
    {Machine(s, d) : s \in Saved, d \in {{}, {"g1"}}},
    {[Machine(s, {"g1"}) EXCEPT !.account = TRUE] : s \in Saved},
    {[Machine(s, {"g1"}) EXCEPT !.mapping = m] :
       s \in {[S EXCEPT !.pick = "g1"], [S EXCEPT !.mode = "custom", !.custom = "q1", !.provider = "ollama"]},
       m \in {"Explore" :> "cloud", "w" :> "local" @@ "Explore" :> "server"}},
    {[Machine(Nothing, {}) EXCEPT !.router = f] :
       f \in {OldDefault, File(To("own", "m2"), Nothing, Nothing, <<>>)}}}
MCTurns ==
  {[who |-> "main", type |-> Nothing], [who |-> "background", type |-> Nothing]}
    \cup {[who |-> "agent", type |-> t] : t \in {Nothing, "Explore", "w", "v"}}
MCFoldOf == "Explore" :> "explore"
MCClassOf ==
  [m \in {"arc-x", "arc-sage-1.0", "arc-swift-1.0"} |-> "arc"] @@ "rayline-router" :> "virtual"
    @@ [m \in {"m2", "m3"} |-> "provider"] @@ [m \in {"claude-sonnet-5", "claude-haiku"} |-> "claude"]

MCCatalog == <<"g1", "g2">>
MCTyped == {[url |-> "u1", model |-> "n1"], [url |-> None, model |-> None],
            [url |-> "u1", model |-> ""]}
MCProviders == {[provider |-> "ollama", url |-> "u2", model |-> "n2"]}
MCSeconds == {<<"delete", "g2">>, <<"custom", "n1">>}
Content(mode, url, model, pick, saved) ==
  [entry |-> [mode |-> mode, provider |-> None, url |-> url, model |-> model, pick |-> pick,
              whole |-> pick # None, saved |-> saved],
   marker |-> None, routes |-> None, other |-> "default_env"]
OlderAuto == Content("auto", None, None, None, {})
Mapping == [default |-> <<"local">>, routes |-> "plan" :> <<"cloud">>]
Start(file, models) == [settings |-> file, legacy |-> None, have |-> models]
MCStarts ==
  {Start(Broken, {}),
   [Start(None, {"g1", "g2"}) EXCEPT !.legacy = OlderAuto],
   Start(Content("auto", None, None, None, {<<"u3", "n3">>}), {}),
   Start(Content("recommended", None, None, "g2", {}), {"g2"}),
   Start([Content(None, "u3", "n3", None, {}) EXCEPT !.routes = Mapping, !.marker = "older"],
         {"g1"})}
MCHistories == {{}, {"plan"}}
=============================================================================
