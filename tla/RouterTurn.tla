----------------------------- MODULE RouterTurn -----------------------------
(***************************************************************************)
(* One request through the local router, from the guard at its door to the *)
(* last message it causes: which credentials each message carries, and     *)
(* that a request announced to the metrics is closed.  The translations of *)
(* bodies and streams are in other modules; the endpoints, the local       *)
(* adapter and the client are external.                                    *)
(*                                                                         *)
(* Paths: "messages", "responses", "chat", "compact" (and                  *)
(* trace_summarize), "images" (and alpha/search), "family"                 *)
(* (/v1/responses/...), "models".                                          *)
(***************************************************************************)
EXTENDS RouteDecision, FiniteSets

VARIABLES
  announced, closers,   \* in the metrics; who has closed the request
  sent,                 \* history: the messages to endpoints and the adapter
  answer                \* what the client is answered

turnVars == <<announced, closers, sent, answer>>
vars == <<routeVars, turnVars>>

(* launch.guarded: an inbound token is set; launch.advertise: may-local.    *)
Rejects(r) == launch.guarded /\ "token" \notin {r.authorization, r.apiKey}

EnvKey(e)    == IF e.key = Nothing THEN {} ELSE {<<"key", e.key>>}
Static(e)    == {<<"header", e.id>>}
(* apply_endpoint_headers: the key is not used by a client_bearer endpoint.*)
Own(e)       == Static(e) \cup (IF e.auth = "client" THEN {} ELSE EnvKey(e))
Keyless(e)   == e.key # Nothing /\ e.key \notin launch.keys
Callers(r)   == {<<"caller", r.authorization>>} \ {<<"caller", "none">>}

(* without_inbound_token: the Chat path keeps the router's own token.      *)
Stripped(r)  == Callers(r) \ IF launch.guarded THEN {<<"caller", "token">>} ELSE {}

Message(to, auth) == [to |-> to, auth |-> auth]
ToAdapter == Message("adapter", {})

TranslatedTo(e)  == Message(e.id, Own(e))
(* Variant: the caller's headers are copied whatever the endpoint is.      *)
PassedThroughAlways(e, r) == Message(e.id, Own(e) \cup Callers(r))
PassedThrough(e, r) ==
  Message(e.id, Own(e) \cup (IF e.auth = "client" THEN Callers(r) ELSE {}))
ChatPassedThrough(e, r) ==
  Message(e.id, Own(e) \cup (IF e.auth = "client" THEN Stripped(r) ELSE {}))

TurnInit ==
  /\ RouteInit
  /\ announced = FALSE /\ closers = {} /\ sent = {} /\ answer = Nothing

Unchanged == UNCHANGED <<file, launch, config, request, decision>>

-----------------------------------------------------------------------------
Start == Load /\ UNCHANGED turnVars

(* handle: the guard, select_route, and for two of the paths RouteDecided. *)
Refuse ==
  /\ phase = "idle"
  /\ request' \in Requests /\ Rejects(request')
  /\ answer' = "unauthorized" /\ phase' = "done"
  /\ UNCHANGED <<file, launch, config, decision, announced,
                 closers, sent>>

Arrive ==
  /\ Decide
  /\ ~Rejects(request') /\ request'.path # "models"
  /\ announced' = (request'.path \in {"messages", "responses"})
  /\ UNCHANGED <<closers, sent, answer>>

Announced == IF announced THEN {"router"} ELSE {}
Ends(a, who) == answer' = a /\ phase' = "done" /\ closers' = closers \cup who
Sends(m) == sent' = sent \cup {m} /\ phase' = "sent" /\ UNCHANGED <<closers, answer>>

ToLocal == decision.endpoint = "local"
Target  == Endpoint(decision.endpoint)
Reaches(protocol) == ~ToLocal /\ Known(decision.endpoint) /\ Target.protocol = protocol
Missing == ~ToLocal /\ ~Known(decision.endpoint)

(* A send to an endpoint: without the key it has to carry, an error.       *)
SendsWithKey(m) ==
  IF Keyless(Target) THEN Ends("error", Announced) /\ UNCHANGED sent ELSE Sends(m)

(* handle_messages.                                                        *)
Messages ==
  /\ phase = "routed" /\ request.path = "messages"
  /\ \/ ToLocal /\ Ends("redirect", {"adapter"}) /\ UNCHANGED sent
     \/ (Missing \/ Reaches("responses")) /\ Ends("error", {"router"}) /\ UNCHANGED sent
     \/ (Reaches("messages") \/ Reaches("chat")) /\ SendsWithKey(TranslatedTo(Target))
  /\ UNCHANGED announced /\ Unchanged

(* handle_responses.  A request whose tools the target has no equivalent   *)
(* for is refused.                                                         *)
Translates == ToLocal \/ Reaches("messages") \/ Reaches("chat")
(* Variant: the refusal leaves the request open.                           *)
RefuseToolsOpen ==
  /\ phase = "routed" /\ request.path = "responses"
  /\ Translates /\ ~request.honourable
  /\ Ends("unsupported tool", {}) /\ UNCHANGED sent
  /\ UNCHANGED announced /\ Unchanged

RefuseTools ==
  /\ phase = "routed" /\ request.path = "responses"
  /\ Translates /\ ~request.honourable
  /\ Ends("unsupported tool", {"router"}) /\ UNCHANGED sent
  /\ UNCHANGED announced /\ Unchanged

Responses ==
  /\ phase = "routed" /\ request.path = "responses"
  /\ Translates => request.honourable
  /\ \/ ToLocal /\ Sends(ToAdapter)
     \/ Missing /\ Ends("error", {}) /\ UNCHANGED sent
     \/ Reaches("responses") /\ SendsWithKey(PassedThrough(Target, request))
     \/ (Reaches("messages") \/ Reaches("chat")) /\ SendsWithKey(TranslatedTo(Target))
  /\ UNCHANGED announced /\ Unchanged

(* handle_openai_auxiliary: two of its paths are synthesised where the     *)
(* target does not speak Responses, the others refused.                    *)
Auxiliary ==
  /\ phase = "routed" /\ request.path = "compact" /\ ~Reaches("responses")
  /\ \/ ToLocal /\ Sends(ToAdapter)
     \/ Missing /\ Ends("error", {}) /\ UNCHANGED sent
     \/ (Reaches("messages") \/ Reaches("chat")) /\ SendsWithKey(TranslatedTo(Target))
  /\ UNCHANGED announced /\ Unchanged

Passthrough ==
  /\ phase = "routed"
  /\ \/ request.path \in {"images", "family"}
     \/ request.path = "compact" /\ Reaches("responses")
  /\ \/ Reaches("responses") /\ SendsWithKey(PassedThrough(Target, request))
     \/ Missing /\ Ends("error", {}) /\ UNCHANGED sent
     \/ ~Missing /\ ~Reaches("responses") /\ Ends("not implemented", {}) /\ UNCHANGED sent
  /\ UNCHANGED announced /\ Unchanged

(* handle_chat_completions.                                                *)
Chat ==
  /\ phase = "routed" /\ request.path = "chat"
  /\ \/ (ToLocal \/ Reaches("messages")) /\ ~request.honourable
          /\ Ends("unsupported tool", {}) /\ UNCHANGED sent
     \/ ToLocal /\ request.honourable /\ Sends(ToAdapter)
     \/ Reaches("messages") /\ request.honourable /\ SendsWithKey(TranslatedTo(Target))
     \/ Reaches("responses") /\ Ends("unsupported route", {}) /\ UNCHANGED sent
     \/ Missing /\ Ends("error", {}) /\ UNCHANGED sent
     \/ Reaches("chat") /\ SendsWithKey(ChatPassedThrough(Target, request))
  /\ UNCHANGED announced /\ Unchanged

(* models_response: the catalogue of an endpoint that takes the caller's   *)
(* credential is fetched with it; any failure falls back on the router's.  *)
TakesCallers(e) == e.protocol = "responses" /\ e.auth = "client"
Routed ==
  LET routes == <<config.routes.main, config.routes.default, config.routes.subagent>>
      found  == {i \in 1 .. 3 : routes[i] # Nothing /\ Known(routes[i].endpoint)}
  IN IF found = {} THEN {}
     ELSE {Endpoint(routes[CHOOSE i \in found : \A j \in found : i <= j].endpoint)}
ModelsEndpoints ==
  IF \E e \in Routed : TakesCallers(e) THEN Routed
  ELSE IF \E e \in Endpoints : TakesCallers(e) THEN {First({e \in Endpoints : TakesCallers(e)})} ELSE {}

ListModels ==
  /\ phase = "idle"
  /\ request' \in {r \in Requests : r.path = "models" /\ ~Rejects(r)}
  /\ sent' = {PassedThrough(e, request') : e \in ModelsEndpoints}
  /\ answer' = "catalogue" /\ phase' = "done"
  /\ UNCHANGED <<file, launch, config, decision, announced, closers>>

-----------------------------------------------------------------------------
(* The endpoint cannot be reached, answers, or (a Rayline router that was  *)
(* told of a local model) sends the request back to the adapter.           *)
SentToAdapter == Message("adapter", {}) \in sent

Fails ==
  /\ phase = "sent"
  /\ Ends("error", Announced)
  /\ UNCHANGED <<announced, sent>> /\ Unchanged

(* anthropic_response_to_responses: an answer to a Responses request that  *)
(* is streamed by the endpoint and to the client is reported to its end;   *)
(* one that is not is translated whole, and the router reports nothing.    *)
AnsweredBy == IF SentToAdapter THEN {"adapter"} ELSE {}
Answers ==
  /\ phase = "sent"
  /\ \/ Ends("response", Announced \cup AnsweredBy)
     \/ /\ request.path = "responses" /\ (ToLocal \/ Reaches("messages"))
        /\ Ends("whole response", AnsweredBy)
  /\ UNCHANGED <<announced, sent>> /\ Unchanged

FollowsRedirects == launch.advertise /\ Reaches("responses") /\ Target.address = "rcr"

(* follow_local_responses_redirect: with the endpoint's headers and key.   *)
(* Variant: an unexpected location is followed.                            *)
RedirectAnywhere ==
  /\ phase = "sent" /\ FollowsRedirects
  /\ \E to \in {"adapter", "elsewhere"} :
       /\ sent' = sent \cup {Message(to, Static(Target) \cup EnvKey(Target))}
       /\ phase' = "redirected"
       /\ UNCHANGED <<closers, answer>>
  /\ UNCHANGED announced /\ Unchanged

Redirect ==
  /\ phase = "sent" /\ FollowsRedirects
  /\ \/ /\ sent' = sent \cup {Message("adapter", Static(Target) \cup EnvKey(Target))}
        /\ phase' = "redirected"
        /\ UNCHANGED <<closers, answer>>
     \/ Ends("redirect rejected", {}) /\ UNCHANGED sent
  /\ UNCHANGED announced /\ Unchanged

(* The adapter closes what it has claimed.                                 *)
Redirected ==
  /\ phase = "redirected"
  /\ \/ Ends("response", {"adapter"})
     \/ Ends("error", Announced)
  /\ UNCHANGED <<announced, sent>> /\ Unchanged

TurnNext ==
  \/ Start \/ Refuse \/ Arrive \/ ListModels
  \/ Messages \/ RefuseTools \/ Responses \/ Auxiliary \/ Passthrough \/ Chat
  \/ Fails \/ Answers \/ Redirect \/ Redirected
TurnSpec == TurnInit /\ [][TurnNext]_vars

-----------------------------------------------------------------------------
TurnTypeOK ==
  /\ phase \in {"load", "down", "idle", "routed", "sent", "redirected", "done"}
  /\ announced \in BOOLEAN /\ closers \subseteq {"router", "adapter"}
  /\ \A m \in sent : m.to \in {"adapter"} \cup {e.id : e \in Endpoints}
  /\ answer \in {Nothing, "unauthorized", "redirect", "error", "unsupported tool",
                 "not implemented", "unsupported route", "catalogue", "response",
                 "whole response", "redirect rejected"}

(* A credential leaves the router only for where it belongs: an endpoint's *)
(* key and headers for the endpoint, or for the adapter on this machine    *)
(* when that endpoint sent the request there; the caller's own for an      *)
(* endpoint that was configured to take it and has an address that may     *)
(* (AuthMode::ClientBearer, line 134).                                     *)
ByRedirect(e) == launch.advertise /\ e.protocol = "responses" /\ e.address = "rcr"
CredentialsBelong ==
  \A m \in sent : \A c \in m.auth :
    CASE c[1] = "caller" ->
           \E e \in Endpoints : e.id = m.to /\ e.auth = "client" /\ ClientBearerAllowed(e)
      [] OTHER ->
           \E e \in Endpoints : /\ c \in Static(e) \cup EnvKey(e)
                                /\ m.to = e.id \/ (m.to = "adapter" /\ ByRedirect(e))

(* On the Chat path the router's own token goes nowhere (chat_inbound,     *)
(* line 152).                                                              *)
TokenStays ==
  launch # Nothing /\ launch.guarded /\ request # Nothing /\ request.path = "chat" =>
    \A m \in sent : <<"caller", "token">> \notin m.auth

CredentialsStayHome == CredentialsBelong /\ TokenStays

(* A request that was announced is closed when it has been answered,       *)
(* whichever way it ended.  Three ways of handle_responses do not (an      *)
(* endpoint that is not configured, a redirect that was rejected, an       *)
(* endpoint's answer that is translated whole).                            *)
KnownGap ==
  /\ request.path = "responses"
  /\ Missing \/ answer = "redirect rejected" \/ (answer = "whole response" /\ ~SentToAdapter)
AnnouncedIsClosed ==
  phase = "done" /\ announced /\ ~KnownGap => closers # {}
=============================================================================
