---------------------------- MODULE RequestRouting ----------------------------
(***************************************************************************)
(* Where the proxy sends a request that Claude Code addressed to           *)
(* api.anthropic.com (crates/rayline-proxy/src/lib.rs).                    *)
(*                                                                         *)
(* A request is a record:                                                  *)
(*   path    "messages", "count_tokens", "list" or "lookup" (/v1/models,   *)
(*           /v1/models/<model>), "other"                                  *)
(*   model   the class its model name normalizes to: "claude", "virtual",  *)
(*           "arc", "provider"; None when it names none                    *)
(*   agent   the agent id header or None; type  the type its meta file     *)
(*           names, None when the file was not found in time               *)
(*   thread  whether the body continues a thread the server holds          *)
(***************************************************************************)
CONSTANTS None,
  FoldOf   \* names of agents that have capitals, in lower case

RouterOnlyModels == {"virtual", "arc"}
IsVirtualModel(m) == m \in RouterOnlyModels
IsAnthropicModel(m) == m = "claude"

IsVirtualLookup(rq)  == rq.path = "lookup" /\ IsVirtualModel(rq.model)
IsProviderLookup(rq) == rq.path = "lookup" /\ ~IsAnthropicModel(rq.model)
IsRoutable(rq) == rq.path \in {"messages", "count_tokens", "list", "lookup"}

To(target, reason, rq) == [target |-> target, reason |-> reason, model |-> rq.model]
Passthrough(reason, rq) == To("anthropic", reason, rq)

Folded(name) == IF name \in DOMAIN FoldOf THEN FoldOf[name] ELSE name

(* A selected name is an agent's id, or its type in any case.              *)
SubagentFilterAllows(rq, selected) ==
  \/ selected = {}
  \/ rq.agent \in selected
  \/ rq.type # None /\ \E s \in selected : Folded(s) = Folded(rq.type)

(* With every request routed, only the paths the router serves go to it.   *)
ClassifyAll(rq) ==
  IF IsRoutable(rq)
  THEN To("router", "router_routed_path", rq)
  ELSE Passthrough("anthropic_passthrough", rq)

(* A hosted router serves a claude id as the pin it names, so a routed     *)
(* subagent turn names the virtual model.                                  *)
ToSubagentRoute(rq, nameVirtual) ==
  [To("router", "selective_subagent_header", rq) EXCEPT
     !.model = IF nameVirtual /\ IsAnthropicModel(@) THEN "virtual" ELSE @]

(* Only subagents, and what only the router serves.                        *)
ClassifySelective(rq, selected, nameVirtual) ==
  CASE ~IsRoutable(rq) -> Passthrough("selective_passthrough_path", rq)
    [] IsVirtualLookup(rq) -> To("router", "selective_virtual_model_lookup", rq)
    [] ~IsVirtualLookup(rq) /\ IsProviderLookup(rq) ->
         To("router", "selective_provider_model_lookup", rq)
    [] rq.path = "list" -> To("router", "selective_model_list", rq)
    [] rq.path \in {"messages", "count_tokens"} /\ IsVirtualModel(rq.model) ->
         To("router", "selective_virtual_model", rq)
    [] rq.path = "messages" /\ ~IsVirtualModel(rq.model) /\ rq.agent # None ->
         IF SubagentFilterAllows(rq, selected)
         THEN ToSubagentRoute(rq, nameVirtual)
         ELSE Passthrough("selective_subagent_passthrough", rq)
    [] OTHER -> Passthrough("selective_main_passthrough", rq)

Prepare(rq, mode, selected, nameVirtual) ==
  IF mode = "all" THEN ClassifyAll(rq)
  ELSE ClassifySelective(rq, selected, nameVirtual)

(* No router holds the history that a continuation leans on.               *)
RefusesThread(rq, decision) ==
  decision.target = "router" /\ rq.path = "messages" /\ rq.thread

(* A turn of the main conversation that the router never sees.             *)
IsMainPassthrough(rq, decision) ==
  decision.reason = "selective_main_passthrough" /\ rq.path = "messages"

\* Mutated form: the client's own credentials are left on the request.
CredentialsAdded(target, fromClient) ==
  IF target = "router" THEN {"router key"} \cup fromClient ELSE fromClient

(* The credentials that go with a request, out of the client's: a router   *)
(* is only shown the key it gave out.                                      *)
Credentials(target, fromClient) ==
  IF target = "router" THEN {"router key"} ELSE fromClient
=============================================================================
