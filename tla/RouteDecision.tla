---------------------------- MODULE RouteDecision ----------------------------
(***************************************************************************)
(* How the local router (crates/rayline-local-router/src/lib.rs) decides   *)
(* where a request goes: the configuration it loads (a file merged with    *)
(* the built-in one, or in its place, and overrides of the environment),   *)
(* the catalogue it offers, and select_route.                              *)
(*                                                                         *)
(* A target is [endpoint, model]; an endpoint says which protocol it       *)
(* speaks, how it authenticates, which variable holds its key, which       *)
(* models it declares and what its address is ("codex" the ChatGPT         *)
(* backend, "rcr" a Rayline router, "loopback" or "provider").             *)
(***************************************************************************)
EXTENDS Naturals, Sequences, SequencesExt, TLC

CONSTANTS
  Defaults,     \* the built-in endpoints, a sequence
  LocalModel,   \* --local-model-id
  Files,        \* the configuration files a router may find
  Launches,     \* how it may be started: [override, keys, guarded, advertise]
  Requests,
  Nothing,      \* an absent target, name, key, ...
  Fold(_)       \* lower case, for the names of agents

VARIABLES
  file, launch,          \* what the router starts with; launch.override is
                         \* [mainModel, mainEndpoint, subModel, subEndpoint] of its
                         \* environment, launch.keys the key variables that are set
  config,                \* [endpoints, routes], or Nothing
  request, decision,     \* a request and what select_route makes of it
  phase

routeVars == <<file, launch, config, request, decision, phase>>

Virtual  == "rayline-router"
Subagent == "rayline-subagent"
Sentinels == {"rayline-local", "rayline-codex"}
Internal  == {Virtual, Subagent, "rayline-codex"}

To(endpoint, model) == [endpoint |-> endpoint, model |-> model]
Local == To("local", LocalModel)
DefaultMain == To("anthropic", "claude-sonnet-5")

DefaultConfig ==
  [endpoints |-> Defaults,
   routes |-> [main |-> DefaultMain, subagent |-> Local, default |-> DefaultMain,
               models |-> (Subagent :> Local @@ "rayline-local" :> Local),
               subagents |-> <<>>]]

-----------------------------------------------------------------------------
(* An endpoint of the file takes the place of one with its id.             *)
Placed(endpoints, e) ==
  IF \E i \in DOMAIN endpoints : endpoints[i].id = e.id
  THEN LET i == CHOOSE i \in DOMAIN endpoints :
                  /\ endpoints[i].id = e.id
                  /\ \A j \in DOMAIN endpoints : endpoints[j].id = e.id => i <= j
       IN [endpoints EXCEPT ![i] = e]
  ELSE Append(endpoints, e)

Or(target, other) == IF target # Nothing THEN target ELSE other

(* Variant: the built-in subagent route survives a main of the file.       *)
SubagentKept(base, over) == Or(over.routes.subagent, base.routes.subagent)

(* A main of the file without a subagent route retires the built-in one.   *)
MergedSubagent(base, over) ==
  IF over.routes.subagent = Nothing /\ over.routes.main # Nothing
  THEN Nothing ELSE Or(over.routes.subagent, base.routes.subagent)

Merged(base, over) ==
  [endpoints |-> FoldLeft(Placed, base.endpoints, over.endpoints),
   routes |->
     [main      |-> Or(over.routes.main, base.routes.main),
      subagent  |-> MergedSubagent(base, over),
      default   |-> Or(over.routes.default, base.routes.default),
      models    |-> over.routes.models @@ base.routes.models,
      subagents |-> over.routes.subagents @@ base.routes.subagents]]

Overridden(target, model, endpoint, otherwise) ==
  IF model # Nothing
  THEN To(IF endpoint # Nothing THEN endpoint
          ELSE IF target # Nothing THEN target.endpoint ELSE otherwise, model)
  ELSE IF endpoint # Nothing /\ target # Nothing THEN [target EXCEPT !.endpoint = endpoint]
  ELSE target

WithEnvironment(c, o) ==
  [c EXCEPT !.routes.main = Overridden(@, o.mainModel, o.mainEndpoint, "anthropic"),
            !.routes.subagent = Overridden(@, o.subModel, o.subEndpoint, "local")]

(* The caller's own credential goes to these addresses only.               *)
ClientBearerAllowed(e) == e.address \in {"codex", "loopback"}

ValidEndpoint(e) == e.auth = "client" => e.key = Nothing /\ ClientBearerAllowed(e)

Targets(c) ==
  ({c.routes.main, c.routes.subagent, c.routes.default} \ {Nothing})
    \cup Range(c.routes.models) \cup Range(c.routes.subagents)

Valid(c) ==
  /\ \A e \in Range(c.endpoints) : ValidEndpoint(e)
  /\ \A t \in Targets(c) : t.endpoint # "" /\ (t.model = "" => t.endpoint = "local")

Normal(t) == IF t # Nothing /\ t.model = "" THEN [t EXCEPT !.model = LocalModel] ELSE t
Normalised(c) ==
  [c EXCEPT !.routes = [main |-> Normal(@.main), subagent |-> Normal(@.subagent),
                        default |-> Normal(@.default),
                        models |-> [m \in DOMAIN @.models |-> Normal(@.models[m])],
                        subagents |-> [a \in DOMAIN @.subagents |-> Normal(@.subagents[a])]]]

Read == IF file = Nothing THEN DefaultConfig
        ELSE IF file.replace THEN [endpoints |-> file.endpoints, routes |-> file.routes]
        ELSE Merged(DefaultConfig, file)

Load ==
  /\ phase = "load"
  /\ LET c == WithEnvironment(Read, launch.override)
     IN IF Valid(c) THEN config' = Normalised(c) /\ phase' = "idle"
        ELSE phase' = "down" /\ UNCHANGED config
  /\ UNCHANGED <<file, launch, request, decision>>

-----------------------------------------------------------------------------
Endpoints == Range(config.endpoints)
First(S) ==
  LET I == {i \in DOMAIN config.endpoints : config.endpoints[i] \in S}
  IN config.endpoints[CHOOSE i \in I : \A j \in I : i <= j]
Known(id) == \E e \in Endpoints : e.id = id
Endpoint(id) == First({e \in Endpoints : e.id = id})

(* An endpoint whose key is not set is not offered.                        *)
Hidden(e) == e.key # Nothing /\ e.key \notin launch.keys

Catalogue ==
  {"rayline-local"} \cup UNION {e.models \ Internal : e \in {e \in Endpoints : ~Hidden(e)}}

(* GET /v1/models/{id}.                                                    *)
Describes(model) ==
  \/ model \in Internal \cup {"rayline-local"}
  \/ \E e \in Endpoints : ~Hidden(e) /\ model \in e.models

Declared(model) == \E e \in Endpoints : model \in e.models

Direct(model) ==
  LET all     == {e \in Endpoints : model \in e.models}
      offered == {e \in all : ~Hidden(e)}
  IN To(First(IF offered # {} THEN offered ELSE all).id, model)

AgentId(r)   == IF r.agentId # Nothing THEN r.agentId ELSE r.openai
AgentType(r) == IF r.agentType # Nothing THEN r.agentType ELSE r.openai
OnCodex(r)   == r.path \notin {"messages", "chat"}
IsSentinel(r) == OnCodex(r) /\ r.model \in Sentinels
IsMarker(r)   == r.model = Virtual \/ IsSentinel(r)
IsSubagent(r) ==
  \/ AgentType(r) # Nothing
  \/ r.model = Subagent
  \/ AgentId(r) # Nothing /\ ~IsMarker(r)

(* The keys of `routes.subagents` that a name finds: itself, or one that   *)
(* differs in case only (the first of a hash map, so any of them).         *)
Named(a) ==
  LET names == DOMAIN config.routes.subagents
  IN IF a = Nothing THEN {} ELSE IF a \in names THEN {a} ELSE {k \in names : Fold(k) = Fold(a)}
SubagentKeys(r) == IF Named(AgentType(r)) # {} THEN Named(AgentType(r)) ELSE Named(AgentId(r))

SubagentTargets(r) ==
  IF ~IsSubagent(r) THEN {}
  ELSE IF SubagentKeys(r) # {} THEN {config.routes.subagents[k] : k \in SubagentKeys(r)}
  ELSE {config.routes.subagent} \ {Nothing}

MainOrDefault == Or(Or(config.routes.main, config.routes.default), DefaultMain)

PrefersModel(r) ==
  /\ r.model \in DOMAIN config.routes.models
  /\ ~(IsSentinel(r) /\ SubagentTargets(r) # {})

Wanted(r) ==
  IF PrefersModel(r) THEN {config.routes.models[r.model]}
  ELSE IF IsSubagent(r)
       THEN IF SubagentTargets(r) # {} THEN SubagentTargets(r)
            ELSE {Or(Or(config.routes.main, config.routes.default), Local)}
  ELSE IF ~IsMarker(r) /\ Declared(r.model) THEN {Direct(r.model)}
  ELSE {MainOrDefault}

(* A client that says its local model is away gets another target.         *)
Select(r) ==
  {IF t.endpoint = "local" /\ r.localOff THEN MainOrDefault ELSE t : t \in Wanted(r)}

Decide ==
  /\ phase = "idle"
  /\ request' \in Requests
  /\ decision' \in Select(request')
  /\ phase' = "routed"
  /\ UNCHANGED <<file, launch, config>>

RouteInit ==
  /\ file \in Files \cup {Nothing} /\ launch \in Launches
  /\ config = Nothing /\ request = Nothing /\ decision = Nothing
  /\ phase = "load"

-----------------------------------------------------------------------------
Decided == decision # Nothing

(* With `replace_defaults` no request reaches an endpoint the file does    *)
(* not name (comment at replaces_defaults, line 354).                      *)
OnlyNamedEndpoints ==
  Decided /\ file # Nothing /\ file.replace /\ Known(decision.endpoint)
    => Endpoint(decision.endpoint) \in Range(file.endpoints)

(* A file with a main and no subagent route sends subagents to its main,   *)
(* unless the request names an agent or a model that has its own route     *)
(* (merge_config, line 376).                                               *)
SubagentsFollowMain ==
  Decided /\ file # Nothing /\ file.routes.main # Nothing /\ file.routes.subagent = Nothing
    /\ launch.override.subModel = Nothing /\ IsSubagent(request)
    /\ request.model \notin DOMAIN config.routes.models /\ SubagentKeys(request) = {}
    => decision = config.routes.main

(* A Codex configuration with different targets for main and subagents     *)
(* has both in effect, although every turn carries the same sentinel; and  *)
(* no turn is given to a local model that is away, unless main is local.   *)
SplitIsInEffect ==
  Decided /\ IsSentinel(request) /\ ~request.localOff =>
    /\ SubagentTargets(request) # {} => decision \in SubagentTargets(request)
    /\ ~IsSubagent(request) /\ request.model \notin DOMAIN config.routes.models
         => decision = MainOrDefault
AwayIsAvoided ==
  Decided /\ request.localOff /\ decision.endpoint = "local" => MainOrDefault.endpoint = "local"

RoutesAreIntended ==
  OnlyNamedEndpoints /\ SubagentsFollowMain /\ SplitIsInEffect /\ AwayIsAvoided

(* What the catalogue offers is described and, on a turn that asks for it, *)
(* goes to an endpoint that declares it and has its key (route_direct_     *)
(* model, line 2174): the picker's choice is neither replaced nor refused. *)
CatalogueIsRoutable ==
  config # Nothing =>
    \A m \in Catalogue :
      /\ Describes(m)
      /\ m # "rayline-local" /\ m \notin DOMAIN config.routes.models =>
           LET r == [path |-> "messages", model |-> m, agentId |-> Nothing,
                     agentType |-> Nothing, openai |-> Nothing, localOff |-> FALSE]
           IN \A t \in Select(r) :
                /\ t.model = m
                /\ m \in Endpoint(t.endpoint).models /\ ~Hidden(Endpoint(t.endpoint))
=============================================================================
