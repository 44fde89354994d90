--------------------------- MODULE MCLocalRouter ---------------------------
(***************************************************************************)
(* Turns: one built-in endpoint; files with none to two of five others (a  *)
(* Codex subscription, a Rayline router, a Chat endpoint that declares the *)
(* model of the built-in one, one in its place, and one that is invalid),  *)
(* every kind of main and subagent route, with and without routes for one  *)
(* model and two agents whose names differ in case.  Streams: two tool     *)
(* calls that interleave in three data lines on the Chat side; three       *)
(* blocks of up to two deltas each on the Messages side.  Tools: names     *)
(* that are unsafe, that clash once they are safe, that another tool has   *)
(* already, or that the hosted search takes; every choice.                 *)
(***************************************************************************)
EXTENDS LocalRouter

TwoCalls == {0, 1}
CONSTANT No
At(e, model) == [endpoint |-> e, model |-> model]
Made(id, protocol, auth, key, address, models) ==
  [id |-> id, protocol |-> protocol, auth |-> auth, key |-> key, address |-> address,
   models |-> models]

Anthropic == Made("anthropic", "messages", "own", "K1", "provider", {"m1"})
Codex     == Made("codex", "responses", "client", No, "codex", {"m2"})
Cloud     == Made("cloud", "responses", "own", "K2", "rcr", {"rayline-router"})
OpenAI    == Made("openai", "chat", "own", "K2", "provider", {"m1"})
Own       == Made("anthropic", "chat", "client", No, "loopback", {"m2"})
Invalid   == Made("relay", "responses", "client", No, "provider", {"m2"})

MCDefaults == <<Anthropic>>
MCFold(name) == IF name = "Explore" THEN "explore" ELSE name

Routes(main, sub, default, extra) ==
  [main |-> main, subagent |-> sub, default |-> default,
   models    |-> IF extra THEN [m \in {"rayline-codex"} |-> At("cloud", "m3")] ELSE <<>>,
   subagents |-> IF extra THEN [a \in {"Explore", "EXPLORE", "w"} |->
                                  IF a = "w" THEN At("ghost", "m1") ELSE At("openai", a)]
                 ELSE <<>>]

MCRoutes ==
  {Routes(m, s, No, x) : m \in {No, At("local", ""), At("cloud", "m3"), At("codex", "m2")},
                         s \in {No, At("anthropic", "m1")}, x \in BOOLEAN}
MCFiles == UNION
  {[replace : {FALSE}, routes : MCRoutes,
    endpoints : {<<Codex, Cloud>>, <<Cloud, OpenAI>>, <<OpenAI, Codex>>, <<Own>>}],
   [replace : {TRUE}, routes : MCRoutes, endpoints : {<<Cloud, OpenAI>>}],
   [replace : {FALSE}, endpoints : {<<Invalid>>, <<>>},
    routes : {Routes(No, No, At("cloud", ""), FALSE), Routes(No, No, No, FALSE)}]}

NoOverride == [mainModel |-> No, mainEndpoint |-> No, subModel |-> No, subEndpoint |-> No]
Launch(o, k, g, a) == [override |-> o, keys |-> k, guarded |-> g, advertise |-> a]
MCLaunches ==
  {Launch(NoOverride, {"K1", "K2"}, FALSE, TRUE), Launch(NoOverride, {"K1", "K2"}, TRUE, FALSE),
   Launch(NoOverride, {"K2"}, FALSE, FALSE),      Launch(NoOverride, {}, FALSE, TRUE),
   Launch([NoOverride EXCEPT !.mainModel = "m1", !.subEndpoint = "openai"], {"K2"}, FALSE, TRUE)}

MCRequests ==
  {[path |-> p, model |-> m, agentId |-> a.id, agentType |-> a.type, openai |-> a.openai,
    localOff |-> off, authorization |-> "caller", apiKey |-> "none", honourable |-> TRUE] :
     p \in {"messages", "responses"}, off \in BOOLEAN,
     m \in {"rayline-router", "rayline-subagent", "rayline-codex", "m1", "m2"},
     a \in {[id |-> No, type |-> No, openai |-> No], [id |-> "i", type |-> No, openai |-> No],
            [id |-> "i", type |-> "explore", openai |-> No],
            [id |-> "i", type |-> "w", openai |-> No],
            [id |-> No, type |-> No, openai |-> "Explore"]}}
  \cup
  {[path |-> p, model |-> m, agentId |-> No, agentType |-> No, openai |-> No, localOff |-> FALSE,
    authorization |-> c, apiKey |-> k, honourable |-> h] :
     p \in {"messages", "responses", "chat", "compact", "images", "family", "models"},
     m \in {"rayline-router", "m2"}, c \in {"none", "caller", "token"}, k \in {"none", "token"},
     h \in BOOLEAN}

-----------------------------------------------------------------------------
MCSafeForm == [n \in {"1f", "f!", "f?"} |-> IF n = "1f" THEN "tool_1f" ELSE "f_"]

Declare(type, space, names) ==
  [type |-> type, space |-> space, names |-> names, direct |-> TRUE, live |-> FALSE,
   settings |-> No, sound |-> TRUE]
Function(names) == Declare("function", No, names)
Web(live, settings) == [Declare("web_search", No, <<>>) EXCEPT !.live = live, !.settings = settings]
Call(space, name) == Declare("call", space, <<name>>)

Choices(tool) ==
  {No} \cup {[type |-> t] : t \in {"none", "auto", "required", "web_search", "custom"}}
  \cup {[type |-> "function", tool |-> t] : t \in {tool, [space |-> No, name |-> "tool_1f"]}}
  \cup {[type |-> "allowed", mode |-> m, search |-> s, spaces |-> n, tools |-> t] :
           m \in {"auto", "required"}, s \in BOOLEAN, n \in {{}, {"a"}},
           t \in {{}, {tool, [space |-> No, name |-> "a__b"]}}}

MainChoices == Choices([space |-> No, name |-> "1f"])
ChatChoices == Choices([space |-> No, name |-> "f!"])

Asked(client, target, tools, input, choice, single, limit) ==
  [client |-> client, target |-> target, tools |-> tools, input |-> input, choice |-> choice,
   single |-> single, limit |-> limit]

ResponsesTools ==
  {<<>>, <<Function(<<"1f">>)>>, <<Web(FALSE, "plain"), Function(<<"web_search">>)>>,
   <<Function(<<"f!">>), Function(<<"f?">>)>>, <<Function(<<"f">>), Web(TRUE, "plain")>>,
   <<Declare("namespace", "a", <<"b", "1f">>), Function(<<"a__b">>)>>,
   <<Web(TRUE, "plain"), Function(<<"web_search">>)>>}
ResponsesInput ==
  {<<>>, <<Web(TRUE, "domains"), Function(<<"f__2">>)>>, <<Call(No, "tool_1f")>>,
   <<Call("a", "b"), Web(TRUE, "plain")>>}
Oddities ==
  {<<Web(TRUE, "both lists")>>, <<[Function(<<"f">>) EXCEPT !.direct = FALSE]>>,
   <<[Function(<<>>) EXCEPT !.sound = FALSE]>>, <<Declare("custom", No, <<"f">>)>>}

MCAsks == UNION
  {{Asked("responses", "messages", d, i, c, s, l) : l \in {No, 0, 2},
      d \in ResponsesTools, i \in ResponsesInput, c \in MainChoices, s \in BOOLEAN},
   {Asked("responses", t, d, i, c, FALSE, No) : t \in {"chat", "local"},
      d \in ResponsesTools, i \in ResponsesInput, c \in MainChoices},
   {Asked("responses", t, d, <<>>, No, FALSE, No) : t \in {"messages", "local"}, d \in Oddities},
   {Asked("chat", t, d, i, c, s, No) :
      t \in {"messages", "local"}, s \in BOOLEAN, c \in ChatChoices,
      d \in {<<>>, <<Function(<<"f!">>), Function(<<"f__2">>), Function(<<"f?">>)>>,
             <<Function(<<"web_search">>), Function(<<"1f">>)>>, <<Declare("custom", No, <<"f">>)>>},
      i \in {<<>>, <<Call(No, "tool_1f")>>, <<[Call(No, "f") EXCEPT !.sound = FALSE]>>}},
   {Asked("messages", "chat", d, <<>>, c, FALSE, No) :
      d \in {<<>>, <<Function(<<"f">>), Function(<<"g">>)>>},
      c \in {No, [type |-> "none"], [type |-> "function", tool |-> [space |-> No, name |-> "f"]]}}}
=============================================================================
