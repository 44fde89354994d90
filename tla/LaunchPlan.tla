---------------------------- MODULE LaunchPlan ----------------------------
(***************************************************************************)
(* Where the turns of a launch go.  `claude`, `codex` and `router start`   *)
(* (crates/rayline-cli/src) resolve their flags, a configuration file and  *)
(* what the machine has saved into a plan; the proxy (RequestRouting), the *)
(* local router (RouteDecision) or the hosted one then serve the turns.    *)
(*                                                                         *)
(* A file is [endpoints, routes, replace].  Its targets carry `decider`    *)
(* (`router: rayline-local` or Nothing) and `offers`, the local model a    *)
(* hosted router may redirect to, or Nothing; an absent and an empty list  *)
(* of agents are one.  A saved model is [mode, pick, custom, provider,     *)
(* kept], with the saved endpoints `kept`.                                 *)
(***************************************************************************)
EXTENDS Naturals, Sequences, SequencesExt, FiniteSets, TLC

CONSTANTS
  Wishes,      \* commands: [tool, config, allowlist, via, route, local, provider,
               \* isolated, model, env, auth, answer]
  Again,       \* those that may follow another launch
  Machines,    \* what is saved: [saved, downloaded, listed, mapping, router, account]
  Turns,       \* [who, type]
  Defaults, LocalModel, FoldOf, ClassOf, Nothing,
  ReadOnly     \* the agents that run locally by default

VARIABLES
  machine, wish,
  plan,        \* of the last launch, Nothing when it was refused
  running,     \* the plan that the daemon was started with, or Nothing
  config, request, decision, phase

Folded(name) == IF name \in DOMAIN FoldOf THEN FoldOf[name] ELSE name
NoOverride == [mainModel |-> Nothing, mainEndpoint |-> Nothing,
               subModel |-> Nothing, subEndpoint |-> Nothing]
R == INSTANCE RouteDecision WITH
       Files <- {}, Launches <- {}, Requests <- {}, Fold <- Folded,
       file <- running.file, launch <- [override |-> NoOverride, keys |-> {"K"}]
X == INSTANCE RequestRouting WITH None <- Nothing

planVars == <<machine, wish, plan, running, config, request, decision, phase>>

Sage == "arc-sage-1.0"
Swift == "arc-swift-1.0"
OwnModel == "claude-sonnet-5"
Sentinel == "rayline-local"
Goes(endpoint, model) ==
  [endpoint |-> endpoint, model |-> model, decider |-> Nothing, offers |-> Nothing]
Routes(main, subagent, default, models, subagents) ==
  [main |-> main, subagent |-> subagent, default |-> default, models |-> models,
   subagents |-> subagents]
File(endpoints, routes) == [replace |-> FALSE, endpoints |-> endpoints, routes |-> routes]

-----------------------------------------------------------------------------
(* What the launcher reads off a file.                                     *)
AllRoutes(c) ==
  ({c.routes.main, c.routes.subagent, c.routes.default} \ {Nothing})
    \cup Range(c.routes.models) \cup Range(c.routes.subagents)
TargetEndpoints(c) == {t.endpoint : t \in AllRoutes(c)} \ {"subscription"}

IsHosted(e) == e.address \in {"prod", "dev"}
HostedIds(c) == {e.id : e \in {e \in Range(c.endpoints) : IsHosted(e)}}

NeedsLocalRouter(c) ==
  \/ \E t \in AllRoutes(c) : t.decider # Nothing
  \/ TargetEndpoints(c) \ HostedIds(c) # {}
UsesLocal(c) == "local" \in TargetEndpoints(c)
Passthrough(c) == c.routes.main = Nothing \/ c.routes.main.endpoint = "subscription"

Offering(t) == t # Nothing /\ t.decider = Nothing /\ t.offers # Nothing
(* The first local model that a route offers, when an endpoint has it.     *)
MayLocal(c) ==
  LET first  == SelectSeq(<<c.routes.main, c.routes.subagent, c.routes.default>>, Offering)
      others == {t \in Range(c.routes.models) \cup Range(c.routes.subagents) : Offering(t)}
      offer  == IF first # <<>> THEN first[1].offers
                ELSE IF others # {} THEN (CHOOSE t \in others : TRUE).offers ELSE Nothing
  IN IF \E e \in Range(c.endpoints) : ~IsHosted(e) /\ offer \in e.models THEN offer ELSE Nothing

Each(Change(_), r) ==
  LET One(t) == IF t = Nothing THEN Nothing ELSE Change(t)
  IN Routes(One(r.main), One(r.subagent), One(r.default),
            [m \in DOMAIN r.models |-> Change(r.models[m])],
            [a \in DOMAIN r.subagents |-> Change(r.subagents[a])])

(* A file as the local router parses it.                                   *)
Bare(t) == R!To(t.endpoint, t.model)
Parsed(c) == [c EXCEPT !.routes = Each(Bare, @)]

-----------------------------------------------------------------------------
(* The files that are derived for the local router.  A main that is left   *)
(* to the subscription is not the router's.                                *)
ForClaude(c) == IF Passthrough(c) THEN [c EXCEPT !.routes.main = Nothing] ELSE c

(* On Codex, `rayline-router` is the user's choice of the legacy router.   *)
WithLegacyRoute(c) ==
  IF c.routes.main # Nothing /\ c.routes.main.endpoint \in HostedIds(c)
  THEN [c EXCEPT !.routes.models =
          @ @@ (R!Virtual :> Goes(c.routes.main.endpoint, R!Virtual))]
  ELSE c

(* Codex sends a sentinel when no model was chosen: it means main.         *)
WithSentinels(c) ==
  IF c.routes.main # Nothing /\ c.routes.main.endpoint # "subscription"
  THEN [c EXCEPT !.routes.models = @ @@ [s \in R!Sentinels |-> c.routes.main]]
  ELSE c

(* A route that only offers a local model asks the hosted router to decide. *)
OfferFilled(t) == IF Offering(t) /\ t.model = "" THEN [t EXCEPT !.model = R!Virtual] ELSE t

(* Variant: only endpoints with the Messages protocol are rewritten.       *)
NativeFromMessages(e) ==
  IF IsHosted(e) /\ e.protocol = "messages"
  THEN [e EXCEPT !.protocol = "responses", !.auth = "bearer", !.client = TRUE] ELSE e

(* A hosted router is spoken to in Responses, with a bearer and a header   *)
(* that says who asks.                                                     *)
Native(e) ==
  IF IsHosted(e)
  THEN [e EXCEPT !.protocol = "responses", !.auth = "bearer", !.client = TRUE] ELSE e
NativeAndFilled(c) ==
  [c EXCEPT !.endpoints = [i \in DOMAIN @ |-> Native(@[i])], !.routes = Each(OfferFilled, @)]

CodexSubscription ==
  [id |-> "codex-subscription", protocol |-> "responses", auth |-> "client", key |-> Nothing,
   address |-> "codex", models |-> {"gpt"}, client |-> FALSE]
Subscribed == Goes("codex-subscription", "gpt")

ToCodexSubscription(t) ==
  IF t.endpoint # "subscription" THEN t
  ELSE [t EXCEPT !.endpoint = "codex-subscription", !.model = IF @ = "" THEN "gpt" ELSE @]

ForCodexSubscription(c) ==
  LET known == \E e \in Range(c.endpoints) : e.id = "codex-subscription"
  IN WithSentinels(NativeAndFilled(
       [c EXCEPT !.endpoints = IF known THEN @ ELSE Append(@, CodexSubscription),
                 !.routes = Each(ToCodexSubscription,
                                 [@ EXCEPT !.main = R!Or(@, Subscribed)])]))

ForCodex(c) == ForClaude(NativeAndFilled(WithSentinels(WithLegacyRoute(c))))

(* The file behind `codex --auth subscription`.                            *)
SubscriptionFile(local) ==
  File(<<CodexSubscription>>,
       Routes(Subscribed, IF local THEN Goes("local", "") ELSE Subscribed, Subscribed,
              [s \in R!Sentinels |-> Subscribed], <<>>))

(* The default file of Codex: an untouched one of an older release is      *)
(* brought up to date, an edited one is kept.                              *)
Cloud(models) ==
  [id |-> "rayline-cloud", protocol |-> "messages", auth |-> "own", key |-> "K",
   address |-> "prod", models |-> models, client |-> FALSE]
DefaultFile ==
  File(<<Cloud({Sage, Swift, R!Virtual})>>,
       Routes(Goes("rayline-cloud", Sage), Goes("rayline-cloud", Swift),
              Goes("rayline-cloud", Sage), <<>>, <<>>))
LegacyFile ==
  LET legacy == Goes("rayline-cloud", R!Virtual)
  IN File(<<Cloud({R!Virtual})>>, Routes(legacy, Nothing, legacy, <<>>, <<>>))
Ensured(f) == IF f \in {Nothing, LegacyFile} THEN DefaultFile ELSE f

\* Mutated form: an all-cloud mapping names no agent.
ListedOnly(mapping, local) ==
  [a \in {a \in DOMAIN mapping : mapping[a] # "cloud"} |->
     IF mapping[a] = "local" THEN local ELSE Goes("custom", "m9")]

(* Agents by name: the saved mapping, or the read-only ones.  A list with  *)
(* no agent would mean every agent, so an all-cloud mapping keeps a name   *)
(* that no agent has.                                                      *)
NoAgent == "__rayline_no_local_subagents__"
Server == [id |-> "custom", protocol |-> "messages", auth |-> "own", key |-> Nothing,
           address |-> "provider", models |-> {"m9"}, client |-> FALSE]
Listed(mapping, local) ==
  LET named == {a \in DOMAIN mapping : mapping[a] # "cloud"}
  IN IF named = {} THEN NoAgent :> local
     ELSE [a \in named |-> IF mapping[a] = "local" THEN local ELSE Goes("custom", "m9")]

MappingNames(mapping, name) == \E a \in DOMAIN mapping : mapping[a] = name

(* The subagents of a launch that names none, and their endpoints.         *)
AgentFile(local) ==
  LET m == machine.mapping
  IN IF m = Nothing
     THEN File(<<>>, Routes(Nothing, Nothing, Nothing, <<>>, [a \in ReadOnly |-> local]))
     ELSE File(IF MappingNames(m, "server") THEN <<Server>> ELSE <<>>,
               Routes(Nothing, Nothing, Nothing, <<>>, Listed(m, local)))

(* A provider-backed model is an endpoint of its own: what is "local" is   *)
(* routed to it.                                                           *)
ProviderEndpoint(s) ==
  [id |-> s.provider, protocol |-> "chat", auth |-> "own", key |-> Nothing,
   address |-> "loopback", models |-> {s.custom}, client |-> FALSE]
ToProvider(s, t) ==
  IF t.endpoint = "local" THEN [t EXCEPT !.endpoint = s.provider, !.model = s.custom]
  ELSE IF t.endpoint = s.provider /\ t.model = "" THEN [t EXCEPT !.model = s.custom] ELSE t

ProviderFile(s, explicit) ==
  LET to  == Goes(s.provider, s.custom)
      own == AgentFile(to)
      Rewritten(t) == ToProvider(s, t)
      x   == Each(Rewritten, explicit.routes)
      ids == {R!Subagent, Sentinel}
      Other(e) == e.id # s.provider
  IN IF explicit = Nothing
     THEN File(<<ProviderEndpoint(s)>> \o own.endpoints,
               Routes(Nothing, to, Nothing, [m \in ids |-> to], own.routes.subagents))
     ELSE File(FoldLeft(R!Placed, <<ProviderEndpoint(s)>>, SelectSeq(explicit.endpoints, Other)),
               Routes(x.main, R!Or(x.subagent, to), x.default,
                      x.models @@ [m \in ids |-> to],
                      IF x.subagents # <<>> THEN x.subagents
                      ELSE [a \in ReadOnly |-> to]))

-----------------------------------------------------------------------------
(* The model that serves "local".                                          *)
Engageable(s) == IF s.mode = "recommended" THEN s.pick # Nothing ELSE s.custom # Nothing
Serves(s) == IF s.mode = "recommended" THEN s.pick ELSE s.custom
Best(models) == CHOOSE m \in models : TRUE
Picked(s, m) == [s EXCEPT !.mode = "recommended", !.pick = m, !.provider = Nothing]
NoModel == [mode |-> "recommended", pick |-> Nothing, custom |-> Nothing, provider |-> Nothing,
            kept |-> {}]

(* Without a choice, the best downloaded model or else the one endpoint.   *)
Adopted(s) ==
  IF s.mode = "custom" \/ s.pick # Nothing THEN s
  ELSE IF machine.downloaded # {} THEN Picked(s, Best(machine.downloaded))
  ELSE IF Cardinality(s.kept) = 1
  THEN [s EXCEPT !.mode = "custom", !.custom = CHOOSE e \in s.kept : TRUE, !.provider = Nothing]
  ELSE s
Usable ==
  LET s == Adopted(machine.saved)
  IN IF /\ machine.saved # Nothing
        /\ Engageable(s)
        /\ s.mode = "recommended" => s.pick \in machine.downloaded
     THEN s ELSE Nothing

(* `claude --local`: the provider that is named, the built-in runtime, or  *)
(* what is saved, which a wizard may set up first.  `saved` is what the    *)
(* machine has afterwards.                                                 *)
Ready(s, saved) == [model |-> s, saved |-> saved]
ExplicitLocal(w) ==
  LET s     == machine.saved
      known == IF s = Nothing THEN NoModel ELSE s
      ofProvider ==
        [known EXCEPT !.mode = "custom", !.custom = machine.listed, !.provider = w.provider]
      builtIn == Picked(known, Best(machine.downloaded))
      runs == known.provider = Nothing \/ known.custom = machine.listed
  IN CASE w.provider = "ollama" ->
            IF machine.listed = Nothing THEN Nothing ELSE Ready(ofProvider, ofProvider)
       [] w.provider = "llamacpp" ->
            IF known.pick # Nothing THEN Ready(Picked(known, known.pick), s)
            ELSE IF machine.downloaded # {} THEN Ready(builtIn, builtIn) ELSE Nothing
       [] w.provider = Nothing ->
            IF s # Nothing /\ Engageable(s) THEN IF runs THEN Ready(s, s) ELSE Nothing
            ELSE IF w.answer # Nothing THEN Ready(Picked(known, w.answer), Picked(known, w.answer))
            ELSE Nothing

-----------------------------------------------------------------------------
(* A plan: who decides ("here", the local router, or "hosted"), what the   *)
(* proxy takes ("override": there is none), the file the router or the     *)
(* proxy reads, the model behind "local", and the models Claude Code is    *)
(* told to use for the main agent, subagents and background tasks.         *)
Blank ==
  [plane |-> "here", scope |-> "all", proxy |-> TRUE, path |-> Nothing, file |-> Nothing,
   local |-> Nothing, advertise |-> FALSE, allow |-> {}, model |-> Nothing, sub |-> Nothing,
   haiku |-> Nothing]
Reads(path, c) == [Blank EXCEPT !.path = path, !.file = Parsed(c), !.allow = DOMAIN c.routes.subagents]

Outcome(p, saved) == [plan |-> p, saved |-> saved]
Refused == Outcome(Nothing, machine.saved)
Served(p, s) == Outcome([p EXCEPT !.local = Serves(s)], s)

(* `start`: a plan that needs the saved model, through its provider if it  *)
(* has one (the provider is not asked); a launch without one is refused.   *)
Started(p, explicit) ==
  IF Usable = Nothing THEN Refused
  ELSE IF Usable.provider = Nothing THEN Served(p, Usable)
  ELSE Served([Reads("provider-routes", ProviderFile(Usable, explicit)) EXCEPT
                 !.scope = p.scope, !.proxy = p.proxy], Usable)

ScopeOf(c) == IF Passthrough(c) THEN "selective" ELSE "all"
ScopeAsked(w) ==
  IF w.via = "env" THEN "override"
  ELSE IF w.route # Nothing THEN w.route
  ELSE IF w.local THEN "selective" ELSE "all"

(* The models of a claude launch.  Selective sessions keep Claude Code's   *)
(* own unless the user chose one.                                          *)
Models(w, p, fileMain, fileSub, arc) ==
  LET untouched == w.model = Nothing /\ w.env = Nothing /\ fileMain = Nothing
      main == R!Or(w.model, R!Or(w.env, R!Or(fileMain,
                IF p.plane = "here" \/ p.local # Nothing THEN R!Virtual ELSE Sage)))
      set  == p.scope # "selective" \/ w.model # Nothing \/ w.env # Nothing
      all  == p.scope # "selective"
  IN [p EXCEPT
        !.model = IF set THEN main ELSE Nothing,
        !.sub   = IF all /\ fileSub # Nothing THEN fileSub
                  ELSE IF arc /\ (~all \/ untouched) THEN Swift ELSE Nothing,
        !.haiku = IF arc /\ all /\ untouched THEN Swift ELSE Nothing]

ModelOf(t) == IF t = Nothing \/ t.model = "" THEN Nothing ELSE t.model

(* claude --config with a route that the hosted router cannot serve: main  *)
(* is given to the router by its virtual model, whatever ANTHROPIC_MODEL   *)
(* says.                                                                   *)
ConfigHere(w) ==
  LET p == [Reads(IF Passthrough(w.config) THEN "config-routes" ELSE "given",
                  ForClaude(w.config)) EXCEPT !.scope = ScopeOf(w.config)]
      m == Models(w, p, Nothing, Nothing, FALSE)
      q == IF p.scope = "all" /\ w.model = Nothing THEN [m EXCEPT !.model = R!Virtual] ELSE m
  IN IF ~UsesLocal(w.config) THEN Outcome(q, machine.saved)
     ELSE IF machine.saved # Nothing /\ Engageable(machine.saved) THEN Served(q, machine.saved)
     ELSE Refused

(* claude --config with routes to the hosted router only.  When it offers  *)
(* a local model, the daemon fronts that, and the proxy gets no list.      *)
ConfigHosted(w) ==
  LET c   == w.config
      may == MayLocal(c)
      p   == [Blank EXCEPT !.plane = "hosted", !.scope = ScopeOf(c), !.local = may,
                           !.path = IF may = Nothing THEN "given" ELSE Nothing,
                           !.allow = IF may = Nothing THEN DOMAIN c.routes.subagents ELSE {}]
  IN Outcome(Models(w, p, ModelOf(c.routes.main), ModelOf(c.routes.subagent), FALSE),
             machine.saved)

ClaudeLocal(w) ==
  LET ready == ExplicitLocal(w)
      s     == ready.model
      scope == ScopeAsked(w)
      own   == AgentFile(Goes("local", ""))
      p     == IF s.provider # Nothing
               THEN Reads("provider-routes", ProviderFile(s, w.allowlist))
               ELSE IF w.allowlist # Nothing THEN Reads("given", w.allowlist)
               ELSE IF scope = "selective" THEN Reads("local-default-routes", own) ELSE Blank
      q     == [p EXCEPT !.scope = scope, !.local = Serves(s)]
  IN IF ready = Nothing THEN Refused
     ELSE Outcome(Models(w, q, Nothing, Nothing, FALSE), ready.saved)

(* claude with neither: hosted; the account may have local models on, and  *)
(* then the saved one is offered to the hosted router.                     *)
ImplicitLocal(w) ==
  /\ w.via # "env" /\ ~w.isolated
  /\ machine.account
  /\ machine.saved # Nothing /\ machine.saved.provider = Nothing
  /\ Usable # Nothing

ClaudeHosted(w) ==
  LET allow == IF w.allowlist = Nothing THEN {} ELSE DOMAIN w.allowlist.routes.subagents
      p     == [Blank EXCEPT !.plane = "hosted", !.scope = ScopeAsked(w)]
      wide  == p.scope = "all" /\ w.route = Nothing
  IN IF ImplicitLocal(w)
     THEN Outcome(Models(w, [p EXCEPT !.scope = IF wide THEN "selective" ELSE @,
                                      !.local = Serves(Usable)],
                         Nothing, Nothing, FALSE), Usable)
     ELSE Outcome(Models(w, [p EXCEPT !.path = IF w.allowlist # Nothing THEN "given" ELSE Nothing,
                                !.allow = allow], Nothing, Nothing,
                         w.allowlist = Nothing), machine.saved)

ClaudePlan(w) ==
  IF w.local THEN ClaudeLocal(w)
  ELSE IF w.config = Nothing THEN ClaudeHosted(w)
  ELSE IF NeedsLocalRouter(w.config) THEN ConfigHere(w) ELSE ConfigHosted(w)

-----------------------------------------------------------------------------
(* codex, and `router start` for either tool.                              *)
IsCodex(w) == w.tool \in {"codex", "start codex"}
ConfigOf(w) ==
  IF w.tool = "codex" /\ w.config = Nothing /\ w.auth = "auto" THEN Ensured(machine.router)
  ELSE w.config
WithSubscription(w) ==
  \/ w.auth = "subscription"
  \/ w.auth = "auto" /\ (ConfigOf(w) = Nothing \/ Passthrough(ConfigOf(w)))

StartConfig(w) ==
  LET c    == ConfigOf(w)
      may  == MayLocal(c)
      file == IF ~IsCodex(w) THEN ForClaude(c)
              ELSE IF WithSubscription(w) THEN ForCodexSubscription(c) ELSE ForCodex(c)
      p    == [Reads(IF IsCodex(w) THEN "codex-config-routes"
                     ELSE IF Passthrough(c) THEN "config-routes" ELSE "given", file) EXCEPT
                 !.scope = ScopeOf(c), !.proxy = ~IsCodex(w), !.local = may]
  IN IF may # Nothing
     THEN IF IsCodex(w) THEN Outcome([p EXCEPT !.advertise = TRUE], machine.saved)
          ELSE Outcome([Blank EXCEPT !.plane = "hosted", !.scope = p.scope, !.local = may],
                       machine.saved)
     ELSE IF UsesLocal(c) THEN Started(p, file) ELSE Outcome(p, machine.saved)

SubscriptionPlan(local) ==
  [Reads("codex-subscription", SubscriptionFile(local)) EXCEPT !.proxy = FALSE]

StartPlan(w) ==
  IF ConfigOf(w) # Nothing THEN StartConfig(w)
  ELSE IF IsCodex(w) /\ WithSubscription(w)
  THEN IF machine.saved # Nothing /\ machine.saved.provider = Nothing /\ Usable # Nothing
       THEN Served(SubscriptionPlan(TRUE), Usable)
       ELSE Outcome(SubscriptionPlan(FALSE), machine.saved)
  ELSE LET own == AgentFile(Goes("local", ""))
           p   == IF w.route = "selective" /\ ~IsCodex(w)
                  THEN [Reads("local-default-routes", own) EXCEPT !.scope = "selective"]
                  ELSE [Blank EXCEPT !.proxy = ~IsCodex(w)]
       IN Started(p, IF p.path = Nothing THEN Nothing ELSE own)

Resolved(w) == IF w.tool = "claude" THEN ClaudePlan(w) ELSE StartPlan(w)

-----------------------------------------------------------------------------
\* Mutated form: the metadata names the file and not what is in it.
FingerprintByPath(p) == <<p.plane, p.scope, p.proxy, p.path, p.local, p.advertise>>

(* What must agree for a daemon that runs to be used again.                *)
Fingerprint(p) == <<p.plane, p.scope, p.proxy, p.path, p.file, p.local, p.advertise>>

NeedsDaemon(p) == p.plane = "here" \/ p.local # Nothing

(* A hosted launch has a proxy of its own (ProxySidecar).                  *)
Launch(w) ==
  LET o      == Resolved(w)
      reused == running # Nothing /\ Fingerprint(running) = Fingerprint(o.plan)
  IN /\ machine' = [machine EXCEPT !.saved = o.saved,
                      !.router = IF w.tool = "codex" /\ w.config = Nothing /\ w.auth = "auto"
                                 THEN Ensured(@) ELSE @]
     /\ wish' = w /\ plan' = o.plan
     /\ IF o.plan # Nothing /\ NeedsDaemon(o.plan) /\ ~reused
        THEN running' = o.plan /\ config' = Nothing /\ phase' = "load"
        ELSE UNCHANGED <<running, config>>
             /\ phase' = IF o.plan = Nothing THEN "refused" ELSE "idle"
     /\ request' = Nothing /\ decision' = Nothing

Load ==
  /\ phase = "load"
  /\ IF running.plane = "hosted" THEN UNCHANGED config /\ phase' = "idle"
     ELSE IF R!Valid(R!Read) THEN config' = R!Normalised(R!Read) /\ phase' = "idle"
     ELSE UNCHANGED config /\ phase' = "down"
  /\ UNCHANGED <<machine, wish, plan, running, request, decision>>

-----------------------------------------------------------------------------
(* A turn of Claude Code: [who, type], where who is "main", "background"   *)
(* or "agent" and the type of an agent may not be known in time.           *)
Subscription == R!To("subscription", Nothing)
Hosted(model) == R!To("hosted", model)
Model(t) ==
  CASE t.who = "main" -> R!Or(plan.model, OwnModel)
    [] t.who = "background" -> R!Or(plan.haiku, "claude-haiku")
    [] OTHER -> R!Or(plan.sub, R!Or(plan.model, OwnModel))

Claudes(t) ==
  LET id    == IF t.who = "agent" THEN "id" ELSE Nothing
      model == Model(t)
      rq    == [path |-> "messages", model |-> ClassOf[model], agent |-> id, type |-> t.type,
                thread |-> FALSE]
      allow == IF plan.plane = "here" /\ running.file # Nothing
               THEN DOMAIN running.file.routes.subagents ELSE plan.allow
      d     == X!Prepare(rq, plan.scope, allow, plan.plane = "hosted")
      sent  == IF d.model = rq.model THEN model ELSE R!Virtual
  IN IF plan.scope = "override" THEN {Hosted(model)}
     ELSE IF d.target = "anthropic" THEN {Subscription}
     ELSE IF plan.plane = "hosted" THEN {Hosted(sent)}
     ELSE R!Select([path |-> "messages", model |-> sent, agentId |-> id, agentType |-> t.type,
                    openai |-> Nothing, localOff |-> FALSE])

(* Codex tells its subagents apart by one header.                          *)
Codexs(t) ==
  R!Select([path |-> "responses", model |-> R!Or(wish.model, Sentinel), agentId |-> Nothing,
            agentType |-> Nothing, localOff |-> FALSE,
            openai |-> IF t.who = "agent" THEN "collab_spawn" ELSE Nothing])

Turn(t) ==
  /\ phase = "idle"
  /\ request' = t
  /\ decision' \in IF IsCodex(wish) THEN Codexs(t) ELSE Claudes(t)
  /\ phase' = "routed"
  /\ UNCHANGED <<machine, wish, plan, running, config>>

PlanInit ==
  /\ machine \in Machines
  /\ wish = Nothing /\ plan = Nothing /\ running = Nothing
  /\ config = Nothing /\ request = Nothing /\ decision = Nothing
  /\ phase = "new"

PlanNext ==
  \/ phase = "new" /\ \E w \in Wishes : Launch(w)
  \/ phase = "idle" /\ \E w \in Again : Launch(w)
  \/ Load
  \/ \E t \in Turns : Turn(t)

PlanTypeOK ==
  /\ \E m \in Machines :
       machine = [m EXCEPT !.saved = machine.saved, !.router = machine.router]
  /\ machine.saved # Nothing => machine.saved.mode \in {"recommended", "custom"}
  /\ (wish = Nothing) = (phase = "new") /\ request \in Turns \cup {Nothing}
  /\ plan # Nothing => plan.plane \in {"here", "hosted"}
                        /\ plan.scope \in {"all", "selective", "override"}
  /\ running # Nothing => NeedsDaemon(running)
  /\ phase \in {"new", "load", "idle", "routed", "down", "refused"}

-----------------------------------------------------------------------------
(* What the documentation promises (docs/getting-started.md, lines 469 to  *)
(* 530): for a subagent the entry of its type, then routes.subagent,       *)
(* routes.main and routes.default.                                         *)
InPlaceOfLocal(w) ==
  LET s == machine.saved
      provider == IF w.tool = "claude" THEN w.local /\ w.provider # "llamacpp"
                  ELSE ConfigOf(w) = Nothing \/ MayLocal(ConfigOf(w)) = Nothing
  IN IF provider /\ s # Nothing /\ s.provider # Nothing THEN R!To(s.provider, s.custom)
     ELSE R!Local

At(w, t) ==
  IF t.endpoint = "local" THEN InPlaceOfLocal(w)
  ELSE IF t.endpoint = "subscription" THEN Bare(ToCodexSubscription(t))
  ELSE IF t.model = "" THEN R!To(t.endpoint, R!Virtual) ELSE Bare(t)

Names(c) == DOMAIN c.routes.subagents
Entries(c, type) ==
  {c.routes.subagents[a] : a \in {a \in Names(c) : type # Nothing /\ Folded(a) = Folded(type)}}

MainOf(w, c) ==
  IF IsCodex(w) /\ WithSubscription(w) THEN R!Or(c.routes.main, Subscribed) ELSE c.routes.main
InOrder(w, c, type) ==
  IF Entries(c, type) # {} THEN Entries(c, type)
  ELSE {R!Or(c.routes.subagent, R!Or(MainOf(w, c), R!Or(c.routes.default, Goes("local", ""))))}

(* A model that only a router has was chosen: main, and the agents that    *)
(* inherit it, are a router's in every scope.                              *)
ChosenForRouter(w, t) ==
  LET chosen == R!Or(w.model, w.env)
  IN t.who # "background" /\ chosen # Nothing /\ ClassOf[chosen] \in X!RouterOnlyModels

(* With a file behind it.  Codex does not name its agents.                 *)
MeantByFile(w, c, t) ==
  LET declaring == {e \in Range(c.endpoints) : w.model \in e.models \ {R!Virtual}}
      type      == IF IsCodex(w) THEN Nothing ELSE t.type
      legacy    == IsCodex(w) /\ w.model = R!Virtual /\ c.routes.main # Nothing
                     /\ c.routes.main.endpoint \in HostedIds(c)
      passes    == plan.scope = "selective" /\ ~IsCodex(w) /\ ~ChosenForRouter(w, t)
  IN IF legacy THEN {R!To(c.routes.main.endpoint, R!Virtual)}
     ELSE IF t.who = "agent"
     THEN IF passes /\ Names(c) # {} /\ Entries(c, type) = {} THEN {Subscription}
          ELSE {At(w, r) : r \in InOrder(w, c, type)}
     ELSE IF passes THEN {Subscription}
     ELSE IF w.model # Nothing /\ declaring # {} /\ (IsCodex(w) \/ t.who = "main")
     THEN {R!To(e.id, w.model) : e \in declaring}
     ELSE IF Passthrough(c) /\ ~IsCodex(w) THEN {R!DefaultMain} ELSE {At(w, MainOf(w, c))}

(* Without one: agents as the user mapped them, at the local model.        *)
MeantByMapping(w, t) ==
  LET m == machine.mapping
      target == IF t.type = Nothing THEN "cloud"
                ELSE IF m = Nothing THEN IF t.type \in ReadOnly THEN "local" ELSE "cloud"
                ELSE IF t.type \in DOMAIN m THEN m[t.type] ELSE "cloud"
  IN IF ChosenForRouter(w, t) /\ (t.who = "main" \/ target = "cloud")
     THEN {IF t.who = "main" THEN R!DefaultMain ELSE InPlaceOfLocal(w)}
     ELSE IF t.who # "agent" \/ target = "cloud" THEN {Subscription}
     ELSE IF target = "local" THEN {InPlaceOfLocal(w)} ELSE {R!To("custom", "m9")}

(* At the hosted router: the models that were chosen for main and for      *)
(* subagents, or the router's own; a selective session keeps what is not   *)
(* its subagents'.  A main that is left to the subscription has no model.  *)
MeantHosted(w, t) ==
  LET c      == R!Or(w.config, w.allowlist)
      agents == IF c = Nothing \/ plan.local # Nothing THEN {} ELSE Names(c)
      mine   == t.who = "agent" /\ (agents = {} \/ Entries(c, t.type) # {})
      file   == IF w.config = Nothing \/ Passthrough(w.config) THEN Nothing
                ELSE ModelOf(w.config.routes.main)
      chosen == R!Or(w.model, R!Or(w.env, file))
  IN IF plan.scope = "selective" /\ ~mine
     THEN IF ChosenForRouter(w, t) THEN {Hosted(chosen)} ELSE {Subscription}
     ELSE IF t.who = "main" /\ chosen # Nothing THEN {Hosted(chosen)}
     ELSE {Hosted(m) : m \in DOMAIN ClassOf}

FileBehind(w) ==
  IF w.tool = "claude" /\ w.local THEN w.allowlist
  ELSE IF w.tool = "claude" /\ w.config # Nothing /\ ~NeedsLocalRouter(w.config) THEN Nothing
  ELSE ConfigOf(w)
Meant(w, t) ==
  IF FileBehind(w) # Nothing THEN MeantByFile(w, FileBehind(w), t)
  ELSE IF plan.plane = "hosted" THEN MeantHosted(w, t)
  ELSE IF ~IsCodex(w) THEN MeantByMapping(w, t)
  ELSE IF w.model = R!Virtual /\ ~WithSubscription(w) /\ t.who # "agent" THEN {R!DefaultMain}
  ELSE IF WithSubscription(w) /\ (t.who # "agent" \/ plan.local = Nothing)
  THEN {Bare(Subscribed)} ELSE {InPlaceOfLocal(w)}

(* Known gaps of the code, which the promise leaves out.                   *)
Untyped(w, t) ==
  /\ t.who = "agent" /\ t.type = Nothing /\ ~IsCodex(w)
  /\ plan.scope = "all" \/ ChosenForRouter(w, t)
NoMain(w) ==
  LET c == FileBehind(w)
  IN c # Nothing /\ Passthrough(c) /\ (IsCodex(w) => MainOf(w, c) = Nothing)
       /\ (c.routes.subagent = Nothing \/ plan.scope = "all" \/ IsCodex(w))
PassthroughToBuiltIn(w) ==
  LET c == FileBehind(w)
  IN IsCodex(w) /\ w.auth = "none" /\ c # Nothing /\ Passthrough(c)
StartOffersLocal(w) ==
  w.tool = "start claude" /\ w.config # Nothing /\ MayLocal(w.config) # Nothing
ProviderTakesAgents(w) ==
  LET c == FileBehind(w)
  IN /\ InPlaceOfLocal(w) # R!Local
     /\ c # Nothing /\ (UsesLocal(c) \/ w.local)
     /\ (c.routes.subagent = Nothing \/ Names(c) = {})
LegacyWithSubscription(w) == IsCodex(w) /\ w.auth = "subscription" /\ w.model = R!Virtual
EverythingHere(w) == FileBehind(w) = Nothing /\ plan.plane = "here" /\ plan.scope = "all"

KnownGap(w, t) ==
  \/ Untyped(w, t) \/ NoMain(w) \/ PassthroughToBuiltIn(w) \/ StartOffersLocal(w)
  \/ ProviderTakesAgents(w) \/ LegacyWithSubscription(w)
  \/ (EverythingHere(w) /\ ~IsCodex(w))

(* What a turn is sent to is there: a local model behind "local", and a    *)
(* hosted router spoken to as Codex does.                                  *)
CanServe(w) ==
  /\ decision.endpoint = "local" => running.local # Nothing
  /\ IsCodex(w) /\ decision.endpoint # "local" =>
       /\ R!Known(decision.endpoint)
       /\ LET e == R!Endpoint(decision.endpoint)
          IN IsHosted(e) => e.protocol = "responses" /\ e.auth = "bearer" /\ e.client

TurnsGoWhereAsked ==
  phase = "routed" /\ ~KnownGap(wish, request) => decision \in Meant(wish, request) /\ CanServe(wish)
=============================================================================
