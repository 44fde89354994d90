--------------------------- MODULE ToolTranslation ---------------------------
(***************************************************************************)
(* The tools of one request on their way through the local router          *)
(* (crates/rayline-local-router/src/lib.rs and chat_inbound.rs): what is   *)
(* refused, under which names the tools go to the endpoint, what becomes   *)
(* of tool_choice, and which tool of the client an upstream call means.    *)
(*                                                                         *)
(* An ask has a client ("responses", "chat" or "messages") and a target    *)
(* ("messages" or "chat" endpoint, or the "local" adapter), the tools it   *)
(* declares, the input items that declare tools or replay a call           *)
(* (type "call"), a choice, whether calls come one at a time, and the      *)
(* limit of built-in calls.  A declaration is                              *)
(*   [type, space, names, direct, live, settings, sound] ,                 *)
(* sound unless a name, a list or a member's type is missing.              *)
(***************************************************************************)
EXTENDS Naturals, Sequences, FiniteSets, SequencesExt, TLC

CONSTANTS
  Asks,
  Absent,     \* no namespace, no choice, no limit, ...
  SafeForm    \* of every name that is not safe: sanitized, cut to 64 bytes

VARIABLES
  ask, stage,
  upstream,  \* what is sent: [tools, choice, single, limit]
  call       \* the tool of the client the endpoint's call turns into

toolVars == <<ask, stage, upstream, call>>

Tool(space, name) == [space |-> space, name |-> name]
Qualified(t) == IF t.space = Absent THEN t.name ELSE t.space \o "__" \o t.name
Search == "web_search"
Safe(name) == IF name \in DOMAIN SafeForm THEN SafeForm[name] ELSE name
(* Lengths are not modelled: the base is not cut for the suffix to fit.    *)
Numbered(base, k) == IF k = 1 THEN base ELSE base \o "_" \o ToString(k)

ToolsIn(d) == [i \in DOMAIN d.names |-> Tool(d.space, d.names[i])]
IsDeclaration(d) == d.type # "call"
Declarations(r)  == r.tools \o SelectSeq(r.input, IsDeclaration)
HasChoice(r, types) == r.choice # Absent /\ r.choice.type \in types
IsLive(d) == d.type = Search /\ d.live

Declared(r) ==
  UNION {ToSet(ToolsIn(d)) : d \in {d \in ToSet(Declarations(r)) : d.type \in {"function", "namespace"}}}
Searches(r) == {d.settings : d \in {d \in ToSet(Declarations(r)) : IsLive(d)}}

-----------------------------------------------------------------------------
(***************************************************************************)
(* ToolNameRewrites: every tool the request declares or replays gets an    *)
(* upstream name of its own.  A Chat request reserves none.                *)
(***************************************************************************)
Reserved(r) == IF r.client = "responses" /\ Searches(r) # {} THEN {Search} ELSE {}
KeepsItself(r, t) == t.space = Absent /\ Safe(t.name) = t.name /\ t.name \notin Reserved(r)

(* Variant: a clash with a name that another tool keeps goes unnoticed.    *)
FreshUnchecked(base, taken) == base

Fresh(base, taken) ==
  Numbered(base, CHOOSE k \in 1 .. Cardinality(taken) + 1 :
                   /\ Numbered(base, k) \notin taken
                   /\ \A j \in 1 .. k - 1 : Numbered(base, j) \in taken)

Rewrites(r) ==
  LET all   == FlattenSeq([i \in DOMAIN (r.tools \o r.input) |-> ToolsIn((r.tools \o r.input)[i])])
      kept  == {t.name : t \in {t \in ToSet(all) : KeepsItself(r, t)}}
      Assign(names, t) ==
        IF KeepsItself(r, t) \/ t \in DOMAIN names THEN names
        ELSE (t :> Fresh(Safe(Qualified(t)), Reserved(r) \cup kept \cup {names[u] : u \in DOMAIN names}))
             @@ names
  IN  IF r.client = "messages" THEN <<>> ELSE FoldLeft(Assign, <<>>, all)

UpstreamOf(names, t) == IF t \in DOMAIN names THEN names[t] ELSE Qualified(t)
ClientCall(names, name) ==
  IF \E t \in DOMAIN names : names[t] = name
  THEN CHOOSE t \in DOMAIN names : names[t] = name
  ELSE Tool(Absent, name)

-----------------------------------------------------------------------------
(* The declared tools, as they go upstream: those of the input items first.*)
FunctionTool(name) == [name |-> name, settings |-> Absent]
AsTools(names, d) ==
  CASE d.type \in {"function", "namespace"} ->
         [i \in DOMAIN d.names |-> FunctionTool(UpstreamOf(names, Tool(d.space, d.names[i])))]
    [] IsLive(d) -> <<[name |-> Search, settings |-> d.settings]>>
    [] OTHER -> <<>>

IsSearch(t) == t.settings # Absent
OnlyFirstSearch(tools) ==
  LET Keep(kept, t) == IF IsSearch(t) /\ \E u \in ToSet(kept) : IsSearch(u)
                       THEN kept ELSE Append(kept, t)
  IN  FoldLeft(Keep, <<>>, tools)

Converted(r, names) ==
  LET order == SelectSeq(r.input, IsDeclaration) \o r.tools
      tools == OnlyFirstSearch(FlattenSeq([i \in DOMAIN order |-> AsTools(names, order[i])]))
  IN  IF r.limit = 0 THEN SelectSeq(tools, LAMBDA t : ~IsSearch(t)) ELSE tools

(* What an allowed_tools choice permits; a namespace permits its members.  *)
AllowedTool(r, t) ==
  IF IsSearch(t) THEN r.choice.search
  ELSE t.name \in {UpstreamOf(Rewrites(r), u) :
                     u \in {u \in Declared(r) : u \in r.choice.tools \/ u.space \in r.choice.spaces}}

Permitted(r, names) ==
  IF HasChoice(r, {"allowed"})
  THEN SelectSeq(Converted(r, names), LAMBDA t : AllowedTool(r, t))
  ELSE Converted(r, names)

Choose(type, name) == [type |-> type, name |-> name]
Forced(r, names) ==
  CASE r.choice.type = "function" /\ r.choice.tool \in Declared(r) ->
         Choose("tool", UpstreamOf(names, r.choice.tool))
    [] r.choice.type = Search /\ (\E t \in ToSet(Permitted(r, names)) : IsSearch(t)) ->
         Choose("tool", Search)
    [] OTHER -> Absent

ChoiceOf(r, names) ==
  CASE r.choice = Absent -> Absent
    [] HasChoice(r, {"none", "auto"}) -> Choose(r.choice.type, Absent)
    [] HasChoice(r, {"required"}) -> Choose("any", Absent)
    [] HasChoice(r, {"allowed"}) ->
         Choose(IF r.choice.mode = "required" THEN "any" ELSE "auto", Absent)
    [] OTHER -> Forced(r, names)

(* A forced function is called once, and so is any with                    *)
(* parallel_tool_calls: false.                                             *)
Single(r, choice) == r.single \/ (choice # Absent /\ choice.type = "tool")

ToMessages(r) ==
  LET names  == Rewrites(r)
      tools  == Permitted(r, names)
      choice == ChoiceOf(r, names)
      single == Single(r, choice)
  IN  IF tools = <<>> THEN [tools |-> tools, choice |-> Absent, single |-> FALSE, limit |-> Absent]
      ELSE [tools  |-> tools,
            choice |-> IF choice = Absent /\ single THEN Choose("auto", Absent) ELSE choice,
            single |-> single /\ (choice = Absent \/ choice.type # "none"),
            limit  |-> r.limit]

(* build_openai_chat_request takes over the tools, all as functions, and   *)
(* nothing of the choice.                                                  *)
ToChat(u) ==
  [tools |-> [i \in DOMAIN u.tools |-> FunctionTool(u.tools[i].name)],
   choice |-> Absent, single |-> FALSE, limit |-> Absent]

Translated(r) ==
  IF r.target = "chat" THEN ToChat(ToMessages(r)) ELSE ToMessages(r)

-----------------------------------------------------------------------------
(* What is refused rather than forwarded without it.                       *)
Untranslatable(r, d) ==
  \/ d.type \notin {"function", "namespace", Search} \/ ~d.sound
  \/ r.target # "messages" /\ (d.type = "namespace" \/ IsLive(d))

SearchRefused(r) ==
  /\ r.target = "messages"
  /\ \/ Cardinality(Searches(r)) > 1
     \/ "both lists" \in Searches(r)
     \/ HasChoice(r, {Search}) /\ Searches(r) = {}

RequiresCall(r) ==
  \/ HasChoice(r, {"required", "function", Search, "custom"})
  \/ HasChoice(r, {"allowed"}) /\ r.choice.mode = "required"

Obliges(u) == u.choice # Absent /\ u.choice.type \in {"any", "tool"}
(* The tool that is forced upstream is one of the kind the client forces.  *)
ForcesMeant(r, u) ==
  u.choice.type = "tool" =>
    \E t \in ToSet(u.tools) : t.name = u.choice.name /\ IsSearch(t) = (r.choice.type = Search)

RequiredUnavailable(r) ==
  LET u == ToMessages(r)
  IN  /\ RequiresCall(r)
      /\ ~(Obliges(u) /\ (r.client = "responses" => ForcesMeant(r, u)))

Indirect(d) == d.type # Search /\ ~d.direct

ResponsesRefused(r) ==
  \/ \E d \in ToSet(Declarations(r)) : Untranslatable(r, d) \/ Indirect(d)
  \/ SearchRefused(r)
  \/ RequiredUnavailable(r)

(* Legacy functions and calls that are not of a named function are not     *)
(* sound.                                                                  *)
ChatToolRefused(d) == d.type # "function" \/ ~d.sound
ChatCallRefused(d) == ~d.sound
ChatRefused(r) ==
  \/ \E d \in ToSet(r.tools) : ChatToolRefused(d)
  \/ \E d \in ToSet(r.input) : ChatCallRefused(d)
  \/ RequiredUnavailable(r)

Refused(r) ==
  IF r.client = "responses" THEN ResponsesRefused(r) ELSE r.client = "chat" /\ ChatRefused(r)

-----------------------------------------------------------------------------
ToolInit == ask \in Asks /\ stage = "asked" /\ upstream = Absent /\ call = Absent

RefuseAsk ==
  /\ stage = "asked" /\ Refused(ask) = TRUE
  /\ stage' = "refused"
  /\ UNCHANGED <<ask, upstream, call>>

Forward ==
  /\ stage = "asked" /\ ~Refused(ask)
  /\ upstream' = Translated(ask)
  /\ stage' = "sent"
  /\ UNCHANGED <<ask, call>>

(* The functions and the searches that what was sent lets the model call.  *)
Callable(u) ==
  IF u.choice = Absent THEN ToSet(u.tools)
  ELSE {t \in ToSet(u.tools) :
          u.choice.type # "none" /\ (u.choice.type = "tool" => t.name = u.choice.name)}

(* The endpoint calls one of them, and the client is told which.           *)
CallTool ==
  /\ stage = "sent"
  /\ \E t \in Callable(upstream) :
       ~IsSearch(t) /\ call' = ClientCall(Rewrites(ask), t.name)
  /\ stage' = "called"
  /\ UNCHANGED <<ask, upstream>>

ToolNext == RefuseAsk \/ Forward \/ CallTool
ToolSpec == ToolInit /\ [][ToolNext]_toolVars

-----------------------------------------------------------------------------
(* What a caller means by a request, of its functions and of the search.   *)
Meant(r) ==
  IF r.choice = Absent THEN Declared(r)
  ELSE CASE r.choice.type \in {"none", Search} -> {}
         [] r.choice.type = "function" -> {r.choice.tool}
         [] r.choice.type = "allowed" ->
              {t \in Declared(r) : t \in r.choice.tools \/ t.space \in r.choice.spaces}
         [] OTHER -> Declared(r)

SearchMeant(r) ==
  /\ Searches(r) # {} /\ r.limit # 0
  /\ ~HasChoice(r, {"none", "function"})
  /\ HasChoice(r, {"allowed"}) => r.choice.search

Functions(u) == {t \in Callable(u) : ~IsSearch(t)}
Heard(r, u)  == {ClientCall(Rewrites(r), t.name) : t \in Functions(u)}

ToolsKept(r, u) ==
  /\ Heard(r, u) = Meant(r)
  /\ Cardinality(Functions(u)) = Cardinality(Meant(r))
  /\ \A t \in Functions(u) : Safe(t.name) = t.name /\ t.name \notin Reserved(r)
  /\ {t.settings : t \in {t \in Callable(u) : IsSearch(t)}} =
       IF SearchMeant(r) THEN Searches(r) ELSE {}

ObligationsKept(r, u) ==
  /\ RequiresCall(r) => Obliges(u)
  /\ (r.single \/ HasChoice(r, {"function"})) /\ Callable(u) # {} => u.single
  /\ SearchMeant(r) => u.limit = r.limit

(* A request that is forwarded lets the model call exactly the tools the   *)
(* caller means, under names that are safe, distinct and not taken by the  *)
(* hosted search, requires a call and limits it to one where the caller    *)
(* does; and a call comes back as a call of such a tool.  A Chat endpoint  *)
(* is held to this only for what has no choice (see ChoiceReachesEndpoint).*)
ToolsHonoured ==
  /\ stage = "sent" /\ ask.target # "chat" =>
       ToolsKept(ask, upstream) /\ ObligationsKept(ask, upstream)
  /\ stage = "sent" /\ ask.target = "chat" /\ ask.choice = Absent =>
       ToolsKept(ask, upstream)
  /\ stage = "called" /\ (ask.target # "chat" \/ ask.choice = Absent) => call \in Meant(ask)

(* lib.rs:1438: a translated request is never forwarded with a restriction *)
(* the caller set lifted.                                                  *)
ChoiceReachesEndpoint == stage = "called" => call \in Meant(ask)

ToolTypeOK ==
  /\ stage \in {"asked", "refused", "sent", "called"}
  /\ upstream = Absent <=> stage \in {"asked", "refused"}
=============================================================================
