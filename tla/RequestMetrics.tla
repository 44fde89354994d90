--------------------------- MODULE RequestMetrics ---------------------------
(***************************************************************************)
(* The request metrics of the daemon (crates/rayline-metrics/src/lib.rs)   *)
(* under the tasks that feed them: the task that serves a proxied request  *)
(* (crates/rayline-proxy/src/lib.rs), the observer it spawns for a         *)
(* compressed response, and the local adapter                              *)
(* (crates/rayline-adapter/src/lib.rs) that answers a redirected request   *)
(* under the same request id.  A request for the local router              *)
(* (crates/rayline-local-router/src/lib.rs) is served by a task of the     *)
(* router, which reports the way the proxy does.                           *)
(*                                                                         *)
(* The active rows, the recent records and the totals have a lock each,    *)
(* and an update takes them one after the other: a task that is between    *)
(* two locks of an update has that update in `job`.  ProxyDaemon states    *)
(* what is assumed of the constants.                                       *)
(***************************************************************************)
EXTENDS Integers, Sequences, FiniteSets, SequencesExt, Functions

CONSTANTS
  Requests,   \* the request ids
  Kinds,      \* how requests are answered
  Estimate,   \* the token count estimated from the request
  Usage,      \* Usage[i]: the count that chunk i of a response reports
  RecentCapacity,  \* how many finished records are kept
  QueueCapacity,   \* how many chunks the observer may be behind
  None

VARIABLES
  kind,       \* how each request is answered
  task,       \* where each task is
  job,        \* the update a task is in the middle of, or None
  chunk,      \* the chunks each task has received
  queue,      \* the chunks on their way to the observer
  cut,        \* the requests whose observer missed a chunk
  abandoned,  \* the requests dropped before any response
  active,     \* the rows of unfinished requests
  recent,     \* the finished records, oldest first
  forgotten,  \* history: the records that were evicted from `recent`
  totals

taskVars  == <<task, job, chunk>>
queueVars == <<queue, cut>>
storeVars == <<active, recent, forgotten, totals>>
vars == <<kind, taskVars, queueVars, abandoned, storeVars>>

(* "plain"      the proxy reads the usage from the response as it passes   *)
(* "encoded"    the response is compressed, and decoded as a whole at its  *)
(*              end and, if it has one encoding, alongside by an observer   *)
(* "opaque"     the response is compressed and cannot be decoded as a whole *)
(*              to its end: too large, an encoding that is not known, or    *)
(*              damaged                                                     *)
(* "redirect"   the router redirects to the local adapter                   *)
(* "routed"     the local router forwards to an endpoint                    *)
(* "unary"      ... and translates a response that is not streamed from     *)
(*              Messages to Responses                                       *)
(* "codex"      the local router answers a streamed Responses request with  *)
(*              the local model, through the adapter                        *)
AllKinds == {"plain", "encoded", "opaque", "redirect", "routed", "unary", "codex"}
Tasks == {"main", "helper"} \X Requests
Pcs   == {"wait", "start", "route", "estimate", "send", "forward", "await",
          "stream", "close", "observe", "done"}

Tokens  == {Estimate} \cup Range(Usage)
Final   == Usage[Len(Usage)]
Records == [id : Requests, target : {None, "local", "remote"},
            outcome : {"open", "completed", "error"}, tokens : Tokens \cup {None}]

Req(t)  == t[2]
Adapter(r) == <<"helper", r>>
IsAdapter(t)  == t[1] = "helper" /\ kind[Req(t)] \in {"redirect", "codex"}
Compressed(r) == kind[r] \in {"encoded", "opaque"}
Target(t) == IF IsAdapter(t) \/ kind[Req(t)] = "codex" THEN "local" ELSE "remote"
Proxied(r) == kind[r] \in {"plain", "encoded", "opaque", "redirect"}

NewRow(r) == [id |-> r, target |-> None, outcome |-> "open", tokens |-> None]
Row(r)    == IF active[r] = None THEN NewRow(r) ELSE active[r]

Merge(old, new) == IF new = None THEN old ELSE new
Count(tokens)   == IF tokens = None THEN 0 ELSE tokens

(* adjust_total, saturating at zero.                                       *)
AdjustTotal(total, old, new) ==
  IF total + new >= old THEN total + new - old ELSE 0

Goto(t, label) == task' = [task EXCEPT ![t] = label]
Begin(t, update) == job' = [job EXCEPT ![t] = update]
End(t) == job' = [job EXCEPT ![t] = None]

Init ==
  /\ kind \in [Requests -> Kinds]
  /\ task = [t \in Tasks |-> IF t[1] = "helper" THEN "wait"
                           ELSE IF Proxied(Req(t)) THEN "start" ELSE "route"]
  /\ job = [t \in Tasks |-> None]
  /\ chunk = [t \in Tasks |-> 0]
  /\ queue = [r \in Requests |-> <<>>]
  /\ cut = {}
  /\ abandoned = {}
  /\ active = [r \in Requests |-> None]
  /\ recent = <<>>
  /\ forgotten = <<>>
  /\ totals = [completed |-> 0, errored |-> 0, local |-> 0, remote |-> 0,
               tokens |-> 0]

-----------------------------------------------------------------------------
(* The updates that need more than the lock of the active rows.            *)

(* Usage of an open row is merged there; otherwise the lock is released    *)
(* and the finished record is looked for.                                  *)
ApplyUsage(t) ==
  LET r == Req(t)
  IN /\ job[t] # None /\ job[t].op = "usage"
     /\ IF active[r] # None
        THEN /\ active' = [active EXCEPT ![r].tokens = Merge(@, job[t].tokens)]
             /\ End(t)
        ELSE /\ Begin(t, [op |-> "late", tokens |-> job[t].tokens])
             /\ UNCHANGED active
     /\ UNCHANGED <<kind, task, chunk, queueVars, abandoned, recent, forgotten, totals>>

(* merge_recent_token_usage: the newest record of the request.             *)
MergeRecent(t) ==
  LET mine == {i \in DOMAIN recent : recent[i].id = Req(t)}
      last == CHOOSE i \in mine : \A j \in mine : j <= i
  IN /\ job[t] # None /\ job[t].op = "late"
     /\ IF mine = {}
        THEN End(t) /\ UNCHANGED recent
        ELSE /\ recent' = [recent EXCEPT ![last].tokens = Merge(@, job[t].tokens)]
             /\ Begin(t, [op |-> "adjust", old |-> Count(recent[last].tokens),
                          new |-> Count(recent'[last].tokens)])
     /\ UNCHANGED <<kind, task, chunk, queueVars, abandoned, active, forgotten, totals>>

Adjust(t) ==
  /\ job[t] # None /\ job[t].op = "adjust"
  /\ totals' = [totals EXCEPT !.tokens = AdjustTotal(@, job[t].old, job[t].new)]
  /\ End(t)
  /\ UNCHANGED <<kind, task, chunk, queueVars, abandoned, active, recent, forgotten>>

(* The row leaves the active ones and becomes a record nobody else sees.   *)
CloseRow(t, outcome, tokens) ==
  LET r == Req(t)
  IN /\ active' = [active EXCEPT ![r] = None]
     /\ Begin(t, [op |-> IF outcome = "error" THEN "errors" ELSE "count",
                  rec |-> [Row(r) EXCEPT !.outcome = outcome,
                                         !.tokens = Merge(@, tokens)]])
     /\ UNCHANGED <<recent, forgotten, totals>>

CountError(t) ==
  /\ job[t] # None /\ job[t].op = "errors"
  /\ totals' = [totals EXCEPT !.errored = @ + 1]
  /\ Begin(t, [job[t] EXCEPT !.op = "count"])
  /\ UNCHANGED <<kind, task, chunk, queueVars, abandoned, active, recent, forgotten>>

(* push_recent: the totals first, the record second.                       *)
CountTotals(t) ==
  /\ job[t] # None /\ job[t].op = "count"
  /\ totals' = [totals EXCEPT
       !.completed = @ + 1,
       !.local  = @ + (IF job[t].rec.target = "local" THEN 1 ELSE 0),
       !.remote = @ + (IF job[t].rec.target \in {None, "local"} THEN 0 ELSE 1),
       !.tokens = @ + Count(job[t].rec.tokens)]
  /\ Begin(t, [job[t] EXCEPT !.op = "push"])
  /\ UNCHANGED <<kind, task, chunk, queueVars, abandoned, active, recent, forgotten>>

Push(t) ==
  LET all == Append(recent, job[t].rec)
      evicted == IF Len(all) > RecentCapacity THEN Len(all) - RecentCapacity ELSE 0
  IN /\ job[t] # None /\ job[t].op = "push"
     /\ recent' = SubSeq(all, evicted + 1, Len(all))
     /\ forgotten' = forgotten \o SubSeq(all, 1, evicted)
     /\ End(t)
     /\ UNCHANGED <<kind, task, chunk, queueVars, abandoned, active, totals>>

-----------------------------------------------------------------------------
(* The task that serves a request: the proxy's, or the adapter's behind a  *)
(* redirect.                                                               *)

Idle(t) == job[t] = None

Started(t) ==
  /\ task[t] = "start" /\ Idle(t)
  /\ active' = [active EXCEPT ![Req(t)] = Row(Req(t))]
  /\ Goto(t, "route")
  /\ UNCHANGED <<kind, job, chunk, queueVars, abandoned, recent, forgotten, totals>>

RouteDecided(t) ==
  /\ task[t] = "route" /\ Idle(t)
  /\ active' = [active EXCEPT ![Req(t)] = [Row(Req(t)) EXCEPT !.target = Target(t)]]
  /\ Goto(t, IF IsAdapter(t) THEN "estimate" ELSE "send")
  /\ UNCHANGED <<kind, job, chunk, queueVars, abandoned, recent, forgotten, totals>>

(* The adapter estimates before it sends, the proxy when it streams; the   *)
(* observer of a compressed response starts right after that, unless the   *)
(* response has several encodings or one that is not known.                *)
EstimateUsage(t) ==
  /\ task[t] = "estimate" /\ Idle(t)
  /\ Begin(t, [op |-> "usage", tokens |-> Estimate])
  /\ \/ Goto(t, IF IsAdapter(t) THEN "send" ELSE "stream")
     \/ /\ Compressed(Req(t))
        /\ task' = [task EXCEPT ![t] = "stream", ![<<"helper", Req(t)>>] = "observe"]
  /\ UNCHANGED <<kind, chunk, queueVars, abandoned, storeVars>>

(* forward_responses_to_local_adapter: the adapter starts on the request   *)
(* and the router waits for its headers.                                   *)
Post(t) ==
  /\ task[t] = "send" /\ Idle(t)
  /\ t[1] = "main" /\ kind[Req(t)] = "codex"
  /\ task' = [task EXCEPT ![t] = "await", ![Adapter(Req(t))] = "start"]
  /\ UNCHANGED <<kind, job, chunk, queueVars, abandoned, storeVars>>

Answered(t) ==
  IF t[1] = "main" /\ kind[Req(t)] = "codex"
  THEN task[t] = "await" /\ task[Adapter(Req(t))] \in {"stream", "close", "done"}
  ELSE task[t] = "send"

(* The response headers arrive.  To the proxy they also say where the      *)
(* router sent the request.  A translated response that is not streamed is *)
(* returned at once and, unless it is a failure, not reported.             *)
Respond(t) ==
  LET r == Req(t)
  IN /\ Answered(t) /\ Idle(t)
     /\ \E label \in IF IsAdapter(t) THEN {"stream"}
                    ELSE CASE kind[r] = "redirect" -> {"forward"}
                           [] kind[r] = "unary"    -> {"done", "close"}
                           [] OTHER                -> {"estimate"} :
          Goto(t, label)
     /\ IF t[1] = "main" /\ Proxied(r)
        THEN active' = [active EXCEPT ![r] =
               [Row(r) EXCEPT !.target = IF kind[r] = "redirect" THEN "local" ELSE "remote"]]
        ELSE UNCHANGED active
     /\ UNCHANGED <<kind, job, chunk, queueVars, abandoned, recent, forgotten, totals>>

SendFails(t) ==
  /\ task[t] = "send" /\ Idle(t)
  /\ CloseRow(t, "error", None)
  /\ Goto(t, "done")
  /\ UNCHANGED <<kind, chunk, queueVars, abandoned>>

(* Variant: the proxy keeps reporting a response it got from the adapter.  *)
DeliverReporting(t) ==
  /\ task[t] = "forward"
  /\ task' = [task EXCEPT ![t] = "stream", ![<<"helper", Req(t)>>] = "start"]
  /\ UNCHANGED <<kind, job, chunk, queueVars, abandoned, storeVars>>

(* forward_local_redirect reports nothing itself: from here the adapter    *)
(* owns the row.                                                           *)
Deliver(t) ==
  /\ task[t] = "forward"
  /\ task' = [task EXCEPT ![t] = "done", ![<<"helper", Req(t)>>] = "start"]
  /\ UNCHANGED <<kind, job, chunk, queueVars, abandoned, storeVars>>

(* The client goes away before the response headers and the handler is     *)
(* dropped, or the adapter cannot be reached: nobody closes the row.       *)
Abandon(t) ==
  /\ task[t] \in {"send", "forward", "await"} /\ Idle(t)
  /\ abandoned' = abandoned \cup {Req(t)}
  /\ Goto(t, "done")
  /\ UNCHANGED <<kind, job, chunk, queueVars, storeVars>>

(* The router behind the adapter gets what the adapter passed on.          *)
Behind(t) == t[1] = "main" /\ kind[Req(t)] = "codex"
Available(t) == IF Behind(t) THEN chunk[Adapter(Req(t))] ELSE Len(Usage)

(* One chunk: the first one marks the row as streaming, opening it if need *)
(* be.  The usage is recorded at once, or the chunk goes to the observer,  *)
(* if there is one, which loses track as soon as one finds its queue full. *)
Chunk(t) ==
  LET r == Req(t)
      i == chunk[t] + 1
      observed == task[<<"helper", r>>] = "observe"
  IN /\ task[t] = "stream" /\ Idle(t)
     /\ i <= Len(Usage) /\ i <= Available(t)
     /\ chunk' = [chunk EXCEPT ![t] = i]
     /\ active' = IF i = 1 THEN [active EXCEPT ![r] = Row(r)] ELSE active
     /\ IF Compressed(r)
        THEN UNCHANGED job
        ELSE Begin(t, [op |-> "usage", tokens |-> Usage[i]])
     /\ IF Compressed(r) /\ observed
        THEN IF Len(queue[r]) < QueueCapacity /\ r \notin cut
             THEN queue' = [queue EXCEPT ![r] = Append(@, i)] /\ UNCHANGED cut
             ELSE cut' = cut \cup {r} /\ UNCHANGED queue
        ELSE UNCHANGED queueVars
     /\ UNCHANGED <<kind, task, abandoned, recent, forgotten, totals>>

(* decode_body_for_metrics: whether what came of a compressed response may *)
(* decode.                                                                 *)
Decodable(t) ==
  /\ Compressed(Req(t)) /\ chunk[t] > 0
  /\ kind[Req(t)] = "opaque" => chunk[t] < Len(Usage)

(* The response ends or, before its last chunk, breaks off, as it does for *)
(* the proxy when its client goes away.  What came of a compressed one is  *)
(* decoded as a whole now, which may fail when it is incomplete, and fails *)
(* when it is complete but cannot be decoded.                              *)
StreamEnds(t) ==
  /\ task[t] = "stream" /\ Idle(t)
  /\ Behind(t) => task[Adapter(Req(t))] = "done" /\ chunk[t] = Available(t)
  /\ \/ /\ Decodable(t)
        /\ Begin(t, [op |-> "usage", tokens |-> Usage[chunk[t]]])
     \/ /\ kind[Req(t)] # "encoded" \/ chunk[t] < Len(Usage)
        /\ UNCHANGED job
  /\ Goto(t, "close")
  /\ UNCHANGED <<kind, chunk, queueVars, abandoned, storeVars>>

(* The usage is the one the serving task knows of: still the estimate if   *)
(* the body could not be decoded, whatever the observer has reported.      *)
Completed(t) ==
  /\ task[t] = "close" /\ Idle(t)
  /\ chunk[t] = Len(Usage)
  /\ CloseRow(t, "completed", IF kind[Req(t)] = "opaque" THEN Estimate ELSE Final)
  /\ Goto(t, "done")
  /\ UNCHANGED <<kind, chunk, queueVars, abandoned>>

(* The response broke off, or it is complete and reports a failure.        *)
Errored(t) ==
  /\ task[t] = "close" /\ Idle(t)
  /\ CloseRow(t, "error", None)
  /\ Goto(t, "done")
  /\ UNCHANGED <<kind, chunk, queueVars, abandoned>>

-----------------------------------------------------------------------------
(* The observer decodes what it is sent and reports each change.           *)

Observe(t) ==
  LET r == Req(t)
  IN /\ task[t] = "observe" /\ Idle(t)
     /\ queue[r] # <<>>
     /\ queue' = [queue EXCEPT ![r] = Tail(@)]
     /\ Begin(t, [op |-> "usage", tokens |-> Usage[Head(queue[r])]])
     /\ UNCHANGED <<kind, task, chunk, cut, abandoned, storeVars>>

(* It stops at the end of what it was sent or at what it cannot decode.    *)
ObserverEnds(t) ==
  LET r == Req(t)
  IN /\ task[t] = "observe" /\ Idle(t)
     /\ \/ kind[r] = "opaque"
        \/ queue[r] = <<>> /\ (r \in cut \/ task[<<"main", r>>] = "done")
     /\ Goto(t, "done")
     /\ UNCHANGED <<kind, job, chunk, queueVars, abandoned, storeVars>>

-----------------------------------------------------------------------------
Apply(t) ==
  \/ ApplyUsage(t) \/ MergeRecent(t) \/ Adjust(t)
  \/ CountError(t) \/ CountTotals(t) \/ Push(t)

Serve(t) ==
  \/ Started(t) \/ RouteDecided(t) \/ EstimateUsage(t) \/ Post(t) \/ Respond(t)
  \/ SendFails(t) \/ Deliver(t) \/ Abandon(t) \/ Chunk(t)
  \/ StreamEnds(t) \/ Completed(t) \/ Errored(t)

Next == \E t \in Tasks : Apply(t) \/ Serve(t) \/ Observe(t) \/ ObserverEnds(t)

Spec == Init /\ [][Next]_vars

-----------------------------------------------------------------------------
Jobs == [op : {"usage", "late"}, tokens : Tokens]
          \cup [op : {"adjust"}, old : Nat, new : Nat]
          \cup [op : {"errors", "count", "push"}, rec : Records]

TypeOK ==
  /\ kind \in [Requests -> Kinds]
  /\ task \in [Tasks -> Pcs]
  /\ \A t \in Tasks : job[t] \in Jobs \cup {None}
  /\ chunk \in [Tasks -> 0 .. Len(Usage)]
  /\ \A r \in Requests : queue[r] \in Seq(DOMAIN Usage) /\ Len(queue[r]) <= QueueCapacity
  /\ cut \subseteq Requests /\ abandoned \subseteq Requests
  /\ \A r \in Requests : active[r] \in Records \cup {None}
  /\ recent \in Seq(Records) /\ Len(recent) <= RecentCapacity
  /\ forgotten \in Seq(Records)
  /\ totals \in [completed : Nat, errored : Nat, local : Nat, remote : Nat, tokens : Nat]

Finished == forgotten \o recent
At(op) == {t \in Tasks : job[t] # None /\ job[t].op = op}

SumOver(S, f(_)) == FoldFunctionOnSet(+, 0, [t \in Tasks |-> f(t)], S)
SumTokens(records) ==
  FoldFunction(+, 0, [i \in DOMAIN records |-> Count(records[i].tokens)])

Quiet(r) ==
  \A role \in {"main", "helper"} :
    task[<<role, r>>] \in {"wait", "done"} /\ job[<<role, r>>] = None
Counted(r) == \E i \in DOMAIN Finished : Finished[i].id = r

(* Whatever order the locks are taken in, no token is lost or counted      *)
(* twice: the totals are those of all finished records, up to the updates  *)
(* under way, corrections below the old value included.                    *)
TotalsMatchRecords ==
  LET pushed(t)   == Count(job[t].rec.tokens)
      adjusted(t) == job[t].new - job[t].old
      local == {i \in DOMAIN Finished : Finished[i].target = "local"}
  IN /\ totals.tokens = SumTokens(Finished) + SumOver(At("push"), pushed)
                          - SumOver(At("adjust"), adjusted)
     /\ totals.completed = Len(Finished) + Cardinality(At("push"))
     /\ totals.local = Cardinality(local)
                         + Cardinality({t \in At("push") : job[t].rec.target = "local"})

(* A request is counted once, whoever answers it, and its row does not     *)
(* come back.                                                              *)
CountsOnce(r) ==
  /\ \A i, j \in DOMAIN Finished :
       Finished[i].id = r /\ Finished[j].id = r => i = j
  /\ Counted(r) => active[r] = None

(* Every request that one task reports at a time is counted once: a proxy  *)
(* and the adapter it hands over to never both report.                     *)
CountedOnce == \A r \in Requests : kind[r] # "codex" => CountsOnce(r)

(* The comment in follow_local_responses_redirect: who posts to the local  *)
(* adapter must not report, or the request is recorded twice.              *)
NoDoubleRecord ==
  \A i, j \in DOMAIN Finished : Finished[i].id = Finished[j].id => i = j

(* When all tasks of a request have ended, its row is gone and it is among *)
(* the finished ones, unless it was abandoned before any response or got   *)
(* a translated one that is not streamed (KnownGap of RouterTurn).         *)
RowsClosed ==
  \A r \in Requests :
    Quiet(r) /\ r \notin abandoned /\ kind[r] # "unary"
      => active[r] = None /\ Counted(r)

(* The record of a completed request ends up with the final usage, however *)
(* far the observer lags behind, unless a full queue made it lose track or *)
(* the body could not be decoded: decode_body_for_metrics gives nothing    *)
(* for more than 32 MiB or an encoding it does not know, and the estimate  *)
(* stays in the record.                                                    *)
(* Of a request with two records the older may be left with an estimate.   *)
FinalUsageKept ==
  \A i \in DOMAIN recent :
    recent[i].outcome = "completed" /\ Quiet(recent[i].id)
      /\ kind[recent[i].id] \notin {"codex", "opaque"}
      => recent[i].tokens = Final \/ recent[i].id \in cut

=============================================================================
