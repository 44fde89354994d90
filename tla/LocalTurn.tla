------------------------------ MODULE LocalTurn ------------------------------
(***************************************************************************)
(* A turn through the daemon that has a local model: the proxy             *)
(* (crates/rayline-proxy/src/lib.rs) or the injector                       *)
(* (crates/rayline-injector/src/lib.rs) asks the router, which may answer  *)
(* with a redirect to the adapter (crates/rayline-adapter/src/lib.rs) and  *)
(* keeps a placeholder for the turn; the adapter runs the local model and  *)
(* closes the placeholder with a callback.  The redirect loses the key the *)
(* callback needs, so it is left in a cache (crates/rayline-authcache).    *)
(* Next to that the proxy keeps the status file of the last routed turn.   *)
(*                                                                         *)
(* The placeholder of a turn, its request id and its entry in the cache    *)
(* all go by the turn's own name.                                          *)
(***************************************************************************)
EXTENDS Naturals, Sequences, FiniteSets, Functions, RequestRouting

CONSTANTS
  Turns,
  Shapes,     \* the requests: those of RequestRouting with `via`, `api`, `stream`
  Selected,   \* the subagents the proxy is told to route, {} for all
  Framings,   \* how the local model ends the lines of its events
  MaxAuthCacheEntries

ASSUME LocalTurnAssumption ==
  /\ MaxAuthCacheEntries \in Nat \ {0}
  /\ Framings \subseteq {"lf", "crlf"}
  /\ None \notin Turns \cup {"claude"}
  /\ \A s \in Shapes : s.path = "list" => s.model = None  \* a listing has no body

VARIABLES
  setup,      \* the daemon's options
  rq,         \* the request of each turn
  framing,
  pc,
  sent,       \* what the router or Anthropic was sent for a turn
  generation, seen,   \* the status generation, and the one a turn loaded
  io,         \* who holds the lock of the status file
  status,     \* the turn the status file shows
  writer,     \* the task that writes a turn's status
  cache, auth,        \* the stashed credentials, and those the adapter has
  stream,     \* what the local model sent: [terminal, error]
  callbacks   \* the callbacks the adapter spawned, in order, per turn

routeVars   == <<generation, seen, io, status, writer>>
adapterVars == <<auth, stream, callbacks>>
fixed == <<setup, rq, framing>>
vars == <<fixed, pc, sent, routeVars, cache, adapterVars>>

Pcs == {"start", "refused", "send", "bump", "clear", "await", "failed",
        "answered", "redirected", "body", "model", "stream", "abandoned", "served"}
Auths == SUBSET {"router key", "client"}

Decision(t) == Prepare(rq[t], setup.mode, Selected, ~setup.ownsMetrics)
Proxied(t)  == rq[t].via = "proxy"
Target(t)   == IF Proxied(t) THEN Decision(t).target ELSE "router"

(* The injector's client has both; Claude Code behind the proxy only its   *)
(* own login.                                                              *)
ClientAuth(t) == IF rq[t].via = "injector" THEN {"router key", "client"} ELSE {"client"}

Init ==
  /\ setup \in [mode : {"all", "selective"}, ownsMetrics : BOOLEAN]
  /\ rq \in [Turns -> Shapes]
  /\ framing \in [Turns -> Framings]
  /\ \A t \in Turns : ~rq[t].stream => framing[t] = "lf"
  /\ pc = [t \in Turns |-> IF rq[t].via = "direct" THEN "redirected" ELSE "start"]
  /\ sent = [t \in Turns |-> None]
  /\ generation = 0 /\ seen = [t \in Turns |-> 0]
  /\ io = None /\ status = None /\ writer = [t \in Turns |-> "none"]
  /\ cache = <<>>
  /\ auth = [t \in Turns |-> {}]
  /\ stream = [t \in Turns |-> [terminal |-> FALSE, error |-> FALSE]]
  /\ callbacks = [t \in Turns |-> <<>>]

Goto(t, l) == pc' = [pc EXCEPT ![t] = l]

(***************************************************************************)
(* The proxy (forward_anthropic_request) and the injector (forward).       *)
(***************************************************************************)
Route(t) ==
  /\ pc[t] = "start" /\ Proxied(t) /\ ~RefusesThread(rq[t], Decision(t))
  /\ Goto(t, IF IsMainPassthrough(rq[t], Decision(t)) THEN "bump" ELSE "send")
  /\ seen' = [seen EXCEPT ![t] = generation]
  /\ UNCHANGED <<fixed, sent, generation, io, status, writer, cache, adapterVars>>

(* The client is told to send the whole history again.                     *)
Refuse(t) ==
  /\ pc[t] = "start" /\ Proxied(t) /\ RefusesThread(rq[t], Decision(t))
  /\ Goto(t, "refused")
  /\ UNCHANGED <<fixed, sent, routeVars, cache, adapterVars>>

Inject(t) ==
  /\ pc[t] = "start" /\ rq[t].via = "injector"
  /\ Goto(t, "send")
  /\ UNCHANGED <<fixed, sent, routeVars, cache, adapterVars>>

Bump(t) ==
  /\ pc[t] = "bump"
  /\ generation' = generation + 1
  /\ Goto(t, "clear")
  /\ UNCHANGED <<fixed, sent, seen, io, status, writer, cache, adapterVars>>

Clear(t) ==
  /\ pc[t] = "clear" /\ io = None
  /\ status' = None
  /\ Goto(t, "send")
  /\ UNCHANGED <<fixed, sent, generation, seen, io, writer, cache, adapterVars>>

(* The health flag of the local model is read at this moment; it may be    *)
(* either (see LlamaServe).                                                *)
Send(t) ==
  /\ pc[t] = "send"
  /\ \E available \in BOOLEAN : sent' = [sent EXCEPT ![t] =
       [to    |-> Target(t),
        model |-> IF Proxied(t) THEN Decision(t).model ELSE rq[t].model,
        auth  |-> IF Proxied(t) THEN Credentials(Target(t), ClientAuth(t)) ELSE ClientAuth(t),
        local |-> available]]
  /\ Goto(t, "await")
  /\ UNCHANGED <<fixed, routeVars, cache, adapterVars>>

(* The request or its answer is lost: the client gets a 502.               *)
SendFails(t) ==
  /\ pc[t] = "await"
  /\ Goto(t, "failed")
  /\ UNCHANGED <<fixed, sent, routeVars, cache, adapterVars>>

(* The status of an answer of the router is written by a task of its own.  *)
SpawnWriter(t) ==
  writer' \in {writer, [writer EXCEPT ![t] = IF Proxied(t) THEN "waiting" ELSE @]}

Reply(t) ==
  /\ pc[t] = "await"
  /\ Goto(t, "answered")
  /\ IF sent[t].to = "router" THEN SpawnWriter(t) ELSE UNCHANGED writer
  /\ UNCHANGED <<fixed, sent, generation, seen, io, status, cache, adapterVars>>

\* Mutated form: the overflow is never evicted.
StashUnbounded(t, credentials) ==
  cache' = [d \in DOMAIN cache \cup {t} |-> IF d = t THEN credentials ELSE cache[d]]

(* A new entry takes the place of any other when the cache is full.        *)
Stash(t, credentials) ==
  \E victims \in SUBSET (DOMAIN cache \ {t}) :
    /\ Cardinality(victims) =
         IF t \notin DOMAIN cache /\ Cardinality(DOMAIN cache) >= MaxAuthCacheEntries
         THEN Cardinality(DOMAIN cache) + 1 - MaxAuthCacheEntries ELSE 0
    /\ cache' = [d \in (DOMAIN cache \ victims) \cup {t} |->
                   IF d = t THEN credentials ELSE cache[d]]

(* The router sends a turn to a local model that was announced to it, and  *)
(* only the two paths the adapter serves.                                  *)
Redirect(t) ==
  /\ pc[t] = "await"
  /\ sent[t].to = "router" /\ sent[t].local /\ rq[t].path = "messages"
  /\ Stash(t, sent[t].auth)
  /\ SpawnWriter(t)
  /\ Goto(t, "redirected")
  /\ UNCHANGED <<fixed, sent, generation, seen, io, status, adapterVars>>

\* Mutated form: the generation is compared before the lock is taken, not under it.
WriterLocksUnchecked(t) ==
  /\ writer[t] = "waiting" /\ io = None
  /\ io' = t /\ writer' = [writer EXCEPT ![t] = "writing"]
  /\ UNCHANGED <<fixed, pc, sent, generation, seen, status, cache, adapterVars>>

(***************************************************************************)
(* The task that writes the status (write_to_if_current).                  *)
(***************************************************************************)
WriterLocks(t) ==
  /\ writer[t] = "waiting" /\ io = None
  /\ IF generation = seen[t]
     THEN io' = t /\ writer' = [writer EXCEPT ![t] = "writing"]
     ELSE UNCHANGED io /\ writer' = [writer EXCEPT ![t] = "none"]
  /\ UNCHANGED <<fixed, pc, sent, generation, seen, status, cache, adapterVars>>

(* Writing the temporary file and renaming it may fail unnoticed.          *)
WriterWrites(t) ==
  /\ writer[t] = "writing"
  /\ status' \in {t, status}
  /\ io' = None
  /\ writer' = [writer EXCEPT ![t] = "none"]
  /\ UNCHANGED <<fixed, pc, sent, generation, seen, cache, adapterVars>>

(***************************************************************************)
(* The adapter (handle_messages, handle_responses, pump_stream and         *)
(* pump_responses_stream).                                                 *)
(***************************************************************************)
HasDoc(t) == rq[t].via # "direct"

(* The proxy follows the redirect without credentials, the injector's      *)
(* client with its login.                                                  *)
InboundAuth(t) == IF Proxied(t) THEN {} ELSE {"client"}

(* The request reaches the adapter, which takes the entry out of the cache.*)
Claim(t) ==
  /\ pc[t] = "redirected"
  /\ auth' = [auth EXCEPT ![t] =
       IF HasDoc(t) /\ t \in DOMAIN cache THEN cache[t] ELSE InboundAuth(t)]
  /\ cache' = IF HasDoc(t) THEN [d \in DOMAIN cache \ {t} |-> cache[d]] ELSE cache
  /\ Goto(t, "body")
  /\ UNCHANGED <<fixed, sent, routeVars, stream, callbacks>>

(* The client goes away: before the adapter was reached, while its handler *)
(* waits, or with half of the body sent.  Once a stream has begun a task   *)
(* of its own drains it.                                                   *)
Abandon(t) ==
  /\ pc[t] \in {"redirected", "body", "model"}
  /\ Goto(t, "abandoned")
  /\ UNCHANGED <<fixed, sent, routeVars, cache, adapterVars>>

Post(t) ==
  /\ pc[t] = "body"
  /\ Goto(t, "model")
  /\ UNCHANGED <<fixed, sent, routeVars, cache, adapterVars>>

(* A callback is spawned when there is a placeholder to close.             *)
Callback(t, result) ==
  callbacks' = IF HasDoc(t)
               THEN [callbacks EXCEPT ![t] = Append(@, [status |-> result, auth |-> auth[t]])]
               ELSE callbacks

\* Mutated form: the error is returned past the callback.
ModelFailsSilently(t) ==
  /\ pc[t] = "model"
  /\ Goto(t, "served")
  /\ UNCHANGED <<fixed, sent, routeVars, cache, adapterVars>>

(* No answer, an error status, or an answer that breaks off.               *)
ModelFails(t) ==
  /\ pc[t] = "model"
  /\ Callback(t, "error")
  /\ Goto(t, "served")
  /\ UNCHANGED <<fixed, sent, routeVars, cache, auth, stream>>

Unary(t) ==
  /\ pc[t] = "model" /\ ~rq[t].stream
  /\ stream' = [stream EXCEPT ![t].terminal = TRUE]
  /\ Callback(t, "success")
  /\ Goto(t, "served")
  /\ UNCHANGED <<fixed, sent, routeVars, cache, auth>>

StreamBegins(t) ==
  /\ pc[t] = "model" /\ rq[t].stream
  /\ Goto(t, "stream")
  /\ UNCHANGED <<fixed, sent, routeVars, cache, adapterVars>>

StreamEvent(t) ==
  /\ pc[t] = "stream"
  /\ \E e \in {"terminal", "error"} :
       ~stream[t][e] /\ stream' = [stream EXCEPT ![t][e] = TRUE]
  /\ UNCHANGED <<fixed, pc, sent, routeVars, cache, auth, callbacks>>

(* Events are found by the blank line between them; only the pump of the   *)
(* Responses API undoes carriage returns first.                            *)
Readable(t) == framing[t] = "lf" \/ rq[t].api = "responses"
StreamResult(t) ==
  IF Readable(t) /\ stream[t].terminal /\ ~stream[t].error THEN "success" ELSE "error"

(* The stream ends or breaks off.                                          *)
StreamEnds(t) ==
  /\ pc[t] = "stream"
  /\ Callback(t, StreamResult(t))
  /\ Goto(t, "served")
  /\ UNCHANGED <<fixed, sent, routeVars, cache, auth, stream>>

Step(t) ==
  \/ Route(t) \/ Refuse(t) \/ Inject(t) \/ Bump(t) \/ Clear(t) \/ Send(t) \/ SendFails(t)
  \/ Reply(t) \/ Redirect(t) \/ WriterLocks(t) \/ WriterWrites(t)
  \/ Claim(t) \/ Abandon(t) \/ Post(t) \/ ModelFails(t) \/ Unary(t)
  \/ StreamBegins(t) \/ StreamEvent(t) \/ StreamEnds(t)

Next == \E t \in Turns : Step(t)
Spec == Init /\ [][Next]_vars

-----------------------------------------------------------------------------
(* Type correctness of the turns' state.                                   *)
TypeOK ==
  /\ pc \in [Turns -> Pcs]
  /\ generation \in Nat /\ seen \in [Turns -> Nat]
  /\ {io, status} \subseteq Turns \cup {None}
  /\ writer \in [Turns -> {"none", "waiting", "writing"}]
  /\ DOMAIN cache \subseteq Turns /\ Cardinality(DOMAIN cache) <= MaxAuthCacheEntries
  /\ Range(cache) \subseteq Auths
  /\ auth \in [Turns -> Auths]
  /\ stream \in [Turns -> [terminal : BOOLEAN, error : BOOLEAN]]
  /\ callbacks \in [Turns -> Seq([status : {"success", "error"}, auth : Auths])]

(* A turn of the main conversation clears the status file for good: what   *)
(* the file shows afterwards belongs to a turn that was routed later, never*)
(* to one whose answer or whose writing task was late                      *)
(* (write_to_if_current).                                                  *)
ClearedStaysCleared ==
  status # None => seen[status] = generation \/ \E t \in Turns : pc[t] = "clear"

(* Every request goes where it can be served and shows only the credentials*)
(* meant for that place: a model only the router knows is not asked of     *)
(* Anthropic, a continuation not of a router, under selective routing the  *)
(* main conversation with a claude model never leaves Anthropic, and the   *)
(* client's login never reaches the router through the proxy.              *)
RightUpstream ==
  \A t \in {u \in Turns : Proxied(u) /\ sent[u] # None} :
    /\ sent[t].to = "anthropic" =>
         /\ sent[t].auth = {"client"}
         /\ IsRoutable(rq[t]) => ~IsVirtualModel(rq[t].model)
    /\ sent[t].to = "router" =>
         /\ "client" \notin sent[t].auth
         /\ ~(rq[t].path = "messages" /\ rq[t].thread)
         /\ setup.mode = "selective" /\ rq[t].agent = None => rq[t].model # "claude"

(* A placeholder is closed once, by whichever way the adapter's handler or *)
(* its pump ends, and as a success only if the model finished without an   *)
(* error: no failed turn is booked as a good one and none stays open.      *)
CallbackIsTrue ==
  \A t \in Turns :
    /\ Len(callbacks[t]) = IF pc[t] = "served" /\ HasDoc(t) THEN 1 ELSE 0
    /\ \A i \in DOMAIN callbacks[t] :
         callbacks[t][i].status = "success" => stream[t].terminal /\ ~stream[t].error

(* The callback carries the key the router gave out, although the redirect *)
(* lost it, unless as many other turns were redirected as the cache holds. *)
WasRedirected(t) ==
  HasDoc(t) /\ pc[t] \in {"redirected", "body", "model", "stream", "abandoned", "served"}
CallbackIsAccepted ==
  \A t \in Turns : \A i \in DOMAIN callbacks[t] :
    \/ "router key" \in callbacks[t][i].auth
    \/ Cardinality({u \in Turns \ {t} : WasRedirected(u)}) >= MaxAuthCacheEntries

=============================================================================
